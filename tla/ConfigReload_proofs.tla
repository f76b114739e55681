-------------------------- MODULE ConfigReload_proofs --------------------------
(***************************************************************************)
(* For any versions, any number of overlapping requests, with deaths,      *)
(* failed downloads and restarts: what a fresh generation has read is what *)
(* the database holds, what it has written is what SATOSA should find, and *)
(* once it touched .reload the volume holds all of it.  Without deaths,    *)
(* also: a file that the configuration names and that is missing is about  *)
(* to be written, and SATOSA is about to be reloaded.                      *)
(***************************************************************************)
EXTENDS ConfigReload, TLAPS

AfterClients  == {"proxy", "spid", "remote", "backend", "touch"}
AfterRouter   == AfterClients \cup {"clients"}
AfterCie      == AfterRouter \cup {"router"}
AfterIdps     == AfterCie \cup {"cie"}
AfterSettings == AfterIdps \cup {"idps"}
AfterSpid     == {"remote", "backend", "touch"}

(* What request h holds is what is committed. *)
Current(h) ==
    /\ pc[h] # "idle"
    /\ seen[h].clients = db.clients
    /\ "settings" \in mine[h] => seen[h].settings = db.settings
    /\ "idps" \in mine[h] => seen[h].idps = db.idps
    /\ "cie" \in mine[h] => seen[h].cie = db.cie
    /\ pc[h] \in AfterSettings => seen[h].settings = db.settings /\ db.settings # None
    /\ pc[h] \in AfterIdps => seen[h].idps = db.idps
    /\ pc[h] \in AfterCie => seen[h].cie = db.cie

(* What it has written is on the volume. *)
Written(h) ==
    /\ pc[h] \in AfterRouter => disk.router = (db.cie # None)
    /\ pc[h] \in AfterClients => disk.clients = db.clients
    /\ pc[h] \in AfterClients \ {"proxy"} => disk.proxy = (db.cie # None)
    /\ pc[h] \in AfterSpid => /\ disk.settings = db.settings
                              /\ disk.named = (db.idps # None)
    /\ pc[h] \in {"backend", "touch"} => (db.idps # None => disk.remote = db.idps)
    /\ pc[h] = "touch" => (db.cie # None => disk.backend = db.cie)

(* The volume holds what the database does. *)
Carried ==
    /\ disk.router = (db.cie # None)
    /\ disk.clients = db.clients
    /\ disk.proxy = (db.cie # None)
    /\ disk.settings = db.settings /\ db.settings # None
    /\ disk.named = (db.idps # None)
    /\ db.idps # None => disk.remote = db.idps
    /\ db.cie # None => disk.backend = db.cie

SInv ==
    /\ TypeOK
    /\ \A h \in fresh : Current(h) /\ Written(h)
    /\ ~owed => Carried /\ (touched \/ live = Wanted)

(* A request that begins holds no row yet. *)
Idle == \A h \in Handlers : pc[h] = "idle" => mine[h] = {}

(* Whatever is missing is on its way. *)
Coming ==
    ~failed =>
       /\ disk.named /\ disk.remote = None => \E h \in Handlers : pc[h] = "remote"
       /\ disk.proxy /\ disk.backend = None =>
             \E h \in Handlers : pc[h] \in {"spid", "remote", "backend"} /\ seen[h].cie # None
       /\ live = None /\ disk.settings # None =>
             touched \/ \E h \in Handlers : pc[h] \in {"spid", "remote", "backend", "touch"}

Named == \A h \in Handlers : pc[h] = "remote" => seen[h].idps # None

UInv == TypeOK /\ Named /\ Coming

------------------------------------------------------------------------------
LEMMA HeldType ==
    ASSUME NEW P, NEW d \in Database
    PROVE  /\ Held(P, d) \in Database
           /\ Held(P, d).clients = d.clients
           /\ "settings" \in P => Held(P, d).settings = d.settings
           /\ "idps" \in P => Held(P, d).idps = d.idps
           /\ "cie" \in P => Held(P, d).cie = d.cie
BY DEF Held, Database

LEMMA CommitType ==
    ASSUME TypeOK, NEW h \in Handlers, NEW P \in SUBSET Parts, NEW d \in Database,
           NEW next \in Pcs, Commit(h, P, d, next)
    PROVE  TypeOK'
<1>1. Held(P, d) \in Database
  BY HeldType
<1>. QED
  BY <1>1 DEF TypeOK, Commit

LEMMA WriteType ==
    ASSUME TypeOK, NEW h \in Handlers, NEW p, NEW d \in Files, NEW next \in Pcs,
           Write(h, p, d, next)
    PROVE  TypeOK'
BY DEF TypeOK, Write, Move

LEMMA ReadType ==
    ASSUME TypeOK, NEW h \in Handlers, NEW p, NEW r \in Database, NEW next \in Pcs,
           Read(h, p, r, next)
    PROVE  TypeOK'
BY DEF TypeOK, Read, Move, hist

LEMMA LoadedType == ASSUME NEW d \in Files PROVE Loaded(d) \in Image
BY DEF Loaded, Files, Image

LEMMA NothingType == Nothing \in Database
BY DEF Nothing, Database

(* The routes that commit and then generate. *)
Commits(h) ==
    \/ EditClient(h) \/ ToggleIdp(h) \/ RefreshMetadata(h) \/ ToggleEidas(h)
    \/ ToggleLegal(h) \/ SaveCie(h) \/ Import(h) \/ DropKeys(h) \/ NewKeys(h)

LEMMA CommitsCommit ==
    ASSUME TypeOK, NEW h \in Handlers, Commits(h)
    PROVE  \E P \in SUBSET Parts, d \in Database, next \in {"settings", "keys"} :
              Commit(h, P, d, next)
<1>. USE DEF TypeOK, Change, Parts, Database
<1>1. CASE EditClient(h)
  <2>1. PICK c \in Clients : Commit(h, {"clients"}, [db EXCEPT !.clients = c], "settings")
    BY <1>1 DEF EditClient
  <2>2. [db EXCEPT !.clients = c] \in Database
    OBVIOUS
  <2>. QED
    BY <2>1, <2>2
<1>2. CASE ToggleIdp(h)
  <2>1. PICK i \in Idps \cup {None} :
           Commit(h, {"idps"}, [db EXCEPT !.idps = i], "settings")
    BY <1>2 DEF ToggleIdp
  <2>2. [db EXCEPT !.idps = i] \in Database
    OBVIOUS
  <2>. QED
    BY <2>1, <2>2
<1>3. CASE RefreshMetadata(h)
  <2>1. PICK i \in Idps : Commit(h, {"idps"}, [db EXCEPT !.idps = i], "settings")
    BY <1>3 DEF RefreshMetadata
  <2>2. [db EXCEPT !.idps = i] \in Database
    OBVIOUS
  <2>. QED
    BY <2>1, <2>2
<1>4. CASE ToggleEidas(h)
  <2>1. PICK s \in Settings, i \in Idps \cup {None} :
           Commit(h, {"settings", "idps"},
                  [db EXCEPT !.settings = s, !.idps = i], "settings")
    BY <1>4 DEF ToggleEidas
  <2>2. [db EXCEPT !.settings = s, !.idps = i] \in Database
    OBVIOUS
  <2>. QED
    BY <2>1, <2>2
<1>5. CASE ToggleLegal(h)
  <2>1. PICK s \in Settings :
           Commit(h, {"settings"}, [db EXCEPT !.settings = s], "settings")
    BY <1>5 DEF ToggleLegal
  <2>2. [db EXCEPT !.settings = s] \in Database
    OBVIOUS
  <2>. QED
    BY <2>1, <2>2
<1>6. CASE SaveCie(h)
  <2>1. PICK k \in Cies \cup {None} :
           Commit(h, {"cie"}, [db EXCEPT !.cie = k], "settings")
    BY <1>6 DEF SaveCie
  <2>2. [db EXCEPT !.cie = k] \in Database
    OBVIOUS
  <2>. QED
    BY <2>1, <2>2
<1>7. CASE Import(h)
  <2>1. PICK d \in Database : Commit(h, Parts, d, "settings")
    BY <1>7 DEF Import
  <2>. QED
    BY <2>1
<1>8. CASE DropKeys(h)
  <2>1. Commit(h, {"cie"}, [db EXCEPT !.cie = None], "keys")
    BY <1>8 DEF DropKeys
  <2>2. [db EXCEPT !.cie = None] \in Database
    OBVIOUS
  <2>. QED
    BY <2>1, <2>2
<1>9. CASE NewKeys(h)
  <2>1. PICK k \in Cies \cup {None} :
           Commit(h, {"cie"}, [db EXCEPT !.cie = k], "settings")
    BY <1>9 DEF NewKeys
  <2>2. [db EXCEPT !.cie = k] \in Database
    OBVIOUS
  <2>. QED
    BY <2>1, <2>2
<1>. QED
  BY <1>1, <1>2, <1>3, <1>4, <1>5, <1>6, <1>7, <1>8, <1>9 DEF Commits

(* The reads and writes of a generation. *)
LEMMA GenerateType ==
    ASSUME TypeOK, NEW h \in Handlers
    PROVE  /\ ReadSettings(h) \/ ReadIdps(h) \/ ReadCie(h) => TypeOK'
           /\ WriteRouter(h) \/ WriteClients(h) \/ WriteProxy(h) \/ WriteSpid(h)
                 \/ WriteRemote(h) \/ WriteBackend(h) => TypeOK'
<1>. USE DEF Pcs
<1>0. seen[h] \in Database /\ db \in Database /\ disk \in Files
  BY DEF TypeOK
<1>1. ASSUME ReadSettings(h) PROVE TypeOK'
  <2>1. (IF "settings" \in mine[h] THEN seen[h]
           ELSE [seen[h] EXCEPT !.settings = db.settings]) \in Database
    BY <1>0 DEF Database
  <2>. QED
    BY <1>1, <2>1, ReadType DEF ReadSettings
<1>2. ASSUME ReadIdps(h) PROVE TypeOK'
  <2>1. PICK i \in Idps \cup {None} : Read(h, "idps", [seen[h] EXCEPT !.idps = i], "cie")
    BY <1>0, <1>2 DEF ReadIdps, Database
  <2>2. [seen[h] EXCEPT !.idps = i] \in Database
    BY <1>0 DEF Database
  <2>. QED
    BY <2>1, <2>2, ReadType
<1>3. ASSUME ReadCie(h) PROVE TypeOK'
  <2>1. PICK k \in Cies \cup {None} : Read(h, "cie", [seen[h] EXCEPT !.cie = k], "router")
    BY <1>0, <1>3 DEF ReadCie, Database
  <2>2. [seen[h] EXCEPT !.cie = k] \in Database
    BY <1>0 DEF Database
  <2>. QED
    BY <2>1, <2>2, ReadType
<1>4. ASSUME WriteRouter(h) PROVE TypeOK'
  <2>1. [disk EXCEPT !.router = seen[h].cie # None] \in Files
    BY <1>0 DEF Files
  <2>. QED
    BY <1>4, <2>1, WriteType DEF WriteRouter
<1>5. ASSUME WriteClients(h) PROVE TypeOK'
  <2>1. PICK c \in Clients \cup {None} :
           Write(h, "clients", [disk EXCEPT !.clients = c], "proxy")
    BY <1>0, <1>5 DEF WriteClients, Database
  <2>2. [disk EXCEPT !.clients = c] \in Files
    BY <1>0 DEF Files
  <2>. QED
    BY <2>1, <2>2, WriteType
<1>6. ASSUME WriteProxy(h) PROVE TypeOK'
  <2>1. [disk EXCEPT !.proxy = seen[h].cie # None] \in Files
    BY <1>0 DEF Files
  <2>. QED
    BY <1>6, <2>1, WriteType DEF WriteProxy
<1>7. ASSUME WriteSpid(h) PROVE TypeOK'
  <2>1. [disk EXCEPT !.settings = seen[h].settings, !.named = seen[h].idps # None] \in Files
    BY <1>0 DEF Files, Database
  <2>2. (IF seen[h].idps # None THEN "remote" ELSE "backend") \in Pcs
    OBVIOUS
  <2>. QED
    BY <1>7, <2>1, <2>2, WriteType DEF WriteSpid
<1>8. ASSUME WriteRemote(h) PROVE TypeOK'
  <2>1. [disk EXCEPT !.remote = seen[h].idps] \in Files
    BY <1>0 DEF Files, Database
  <2>. QED
    BY <1>8, <2>1, WriteType DEF WriteRemote
<1>9. ASSUME WriteBackend(h) PROVE TypeOK'
  <2>1. [disk EXCEPT !.backend = IF seen[h].cie = None THEN disk.backend ELSE seen[h].cie]
           \in Files
    BY <1>0 DEF Files, Database
  <2>. QED
    BY <1>9, <2>1, WriteType DEF WriteBackend
<1>. QED
  BY <1>1, <1>2, <1>3, <1>4, <1>5, <1>6, <1>7, <1>8, <1>9

LEMMA TypeInductive == TypeOK /\ [Next]_vars => TypeOK'
<1>. SUFFICES ASSUME TypeOK, [Next]_vars PROVE TypeOK'
  OBVIOUS
<1>1. ASSUME NEW h \in Handlers, Commits(h) PROVE TypeOK'
  BY <1>1, CommitsCommit, CommitType DEF Pcs
<1>2. ASSUME NEW h \in Handlers, SaveSettings(h) PROVE TypeOK'
  <2>1. PICK s \in Settings : db' = [db EXCEPT !.settings = s]
    BY <1>2 DEF SaveSettings
  <2>2. db' \in Database
    BY <2>1 DEF TypeOK, Database
  <2>. QED
    BY <1>2, <2>2 DEF SaveSettings, TypeOK, local
<1>3. ASSUME NEW h \in Handlers, DeleteKey(h) PROVE TypeOK'
  <2>1. db' \in Database
    BY <1>3 DEF DeleteKey, TypeOK, Database
  <2>. QED
    BY <1>3, <2>1 DEF DeleteKey, TypeOK, Move, Pcs
<1>4. ASSUME NEW h \in Handlers, NewKey(h) \/ NoHostname(h) PROVE TypeOK'
  BY <1>4 DEF NewKey, NoHostname, TypeOK, Move, Pcs
<1>5. ASSUME NEW h \in Handlers, Regenerate(h) PROVE TypeOK'
  <2>1. Held({}, db) \in Database
    BY HeldType DEF TypeOK
  <2>. QED
    BY <1>5, <2>1 DEF Regenerate, TypeOK, Move, Pcs
<1>6. ASSUME NEW h \in Handlers, ReadSettings(h) \/ ReadIdps(h) \/ ReadCie(h) PROVE TypeOK'
  BY <1>6, GenerateType
<1>7. ASSUME NEW h \in Handlers,
             WriteRouter(h) \/ WriteClients(h) \/ WriteProxy(h) \/ WriteSpid(h)
                \/ WriteRemote(h) \/ WriteBackend(h)
      PROVE  TypeOK'
  BY <1>7, GenerateType
<1>8. ASSUME NEW h \in Handlers, LeaveRemote(h) \/ KeepRemote(h) PROVE TypeOK'
  <2>1. disk' \in Files
    BY <1>8 DEF LeaveRemote, KeepRemote, TypeOK, Files
  <2>. QED
    BY <1>8, <2>1 DEF LeaveRemote, KeepRemote, TypeOK, Move, Pcs
<1>9. ASSUME NEW h \in Handlers, Touch(h) \/ Dies(h) PROVE TypeOK'
  <2>1. ASSUME Touch(h) PROVE TypeOK'
    BY <2>1, NothingType DEF Touch, End, TypeOK, Pcs
  <2>2. ASSUME Dies(h) PROVE TypeOK'
    BY <2>2, NothingType DEF Dies, End, TypeOK, Pcs
  <2>. QED
    BY <1>9, <2>1, <2>2
<1>10. ASSUME SatosaLoad PROVE TypeOK'
  <2>1. Loaded(disk) \in Image
    BY LoadedType DEF TypeOK
  <2>2. live' \in Image \cup {None}
    BY <1>10, <2>1 DEF SatosaLoad
  <2>. QED
    BY <1>10, <2>2 DEF SatosaLoad, TypeOK, local, hist
<1>11. ASSUME Restart PROVE TypeOK'
  <2>1. disk' \in Files
    BY <1>11 DEF Restart, TypeOK, Files
  <2>2. fresh' \subseteq Handlers /\ owed' \in BOOLEAN
    BY <1>11 DEF Restart, TypeOK
  <2>. QED
    BY <1>11, <2>1, <2>2 DEF Restart, TypeOK, local
<1>12. ASSUME UNCHANGED vars PROVE TypeOK'
  BY <1>12 DEF vars, local, hist, TypeOK
<1>. QED
  BY <1>1, <1>2, <1>3, <1>4, <1>5, <1>6, <1>7, <1>8, <1>9, <1>10, <1>11, <1>12
     DEF Next, Request, Proceed, Commits

LEMMA InitType == Init => TypeOK
<1>. SUFFICES ASSUME Init PROVE TypeOK
  OBVIOUS
<1>1. db \in Database /\ \A h \in Handlers : Nothing \in Database
  BY NothingType DEF Init
<1>2. disk \in Files
  BY DEF Init, Files
<1>. QED
  BY <1>1, <1>2 DEF Init, TypeOK, Pcs

(* Every variable keeps its type, with overlaps, deaths and restarts: no     *)
(* route or load puts anything but a version on the volume (ConfigReload).   *)
THEOREM TypeCorrect == Spec => []TypeOK
<1>. QED
  BY InitType, TypeInductive, PTL DEF Spec

------------------------------------------------------------------------------
(* SInv: a commit leaves one fresh request, which holds what it committed. *)
LEMMA CommitKeeps ==
    ASSUME SInv, TypeOK', NEW h \in Handlers, NEW P \in SUBSET Parts, NEW d \in Database,
           NEW next \in {"settings", "keys"}, Commit(h, P, d, next)
    PROVE  SInv'
<1>1. fresh' = {h} /\ owed' = TRUE
  BY DEF Commit
<1>2. pc'[h] = next /\ mine'[h] = P /\ seen'[h] = Held(P, d) /\ db' = d
  BY DEF Commit, SInv, TypeOK
<1>3. Current(h)'
  BY <1>2, HeldType
     DEF Current, AfterSettings, AfterIdps, AfterCie, AfterRouter, AfterClients
<1>4. Written(h)'
  BY <1>2 DEF Written, AfterRouter, AfterClients, AfterSpid
<1>. QED
  BY <1>1, <1>3, <1>4 DEF SInv

(* A step that leaves the database, the volume and what another request has *)
(* read alone leaves that request current.                                   *)
LEMMA OtherKeeps ==
    ASSUME NEW h \in Handlers, Current(h), Written(h),
           db' = db, disk' = disk, pc'[h] = pc[h], mine'[h] = mine[h], seen'[h] = seen[h]
    PROVE  Current(h)' /\ Written(h)'
BY DEF Current, Written

(* A read of the committed version. *)
LEMMA ReadKeeps ==
    ASSUME SInv, TypeOK', NEW h \in Handlers, NEW p, NEW r \in Database, NEW next \in Pcs,
           Read(h, p, r, next),
           h \in fresh => Current(h)' /\ Written(h)'
    PROVE  SInv'
<1>1. ASSUME NEW g \in fresh', g # h PROVE Current(g)' /\ Written(g)'
  <2>1. /\ g \in fresh /\ g \in Handlers
        /\ db' = db /\ disk' = disk /\ mine'[g] = mine[g]
    BY <1>1 DEF Read, hist, SInv, TypeOK
  <2>2. pc'[g] = pc[g] /\ seen'[g] = seen[g]
    BY <1>1, <2>1 DEF Read, Move, SInv, TypeOK
  <2>3. Current(g) /\ Written(g)
    BY <2>1 DEF SInv
  <2>. QED
    BY <2>1, <2>2, <2>3, OtherKeeps
<1>2. ~owed' => Carried' /\ (touched' \/ live' = Wanted')
  BY DEF Read, hist, SInv, Carried, Wanted
<1>. QED
  BY <1>1, <1>2 DEF SInv, Read, hist

(* A write: the file of a fresh request is the one every fresh request wants. *)
LEMMA WriteKeeps ==
    ASSUME SInv, TypeOK', NEW h \in Handlers, NEW p, NEW d \in Files, NEW next \in Pcs,
           Write(h, p, d, next),
           h \in fresh => /\ Current(h)' /\ Written(h)'
                          /\ Carried => Carried'
                          /\ \A g \in fresh \ {h} : Written(g) => Written(g)'
    PROVE  SInv'
<1>1. CASE h \notin fresh
  BY <1>1 DEF Write, SInv
<1>2. CASE h \in fresh
  <2>1. /\ fresh' = fresh /\ owed' = owed
        /\ db' = db /\ mine' = mine /\ seen' = seen /\ touched' = touched /\ live' = live
    BY <1>2 DEF Write, SInv, TypeOK
  <2>2. ASSUME NEW g \in fresh', g # h PROVE Current(g)' /\ Written(g)'
    <3>1. g \in fresh /\ pc'[g] = pc[g] /\ Current(g) /\ Written(g)
      BY <2>1, <2>2 DEF Write, Move, SInv, TypeOK
    <3>. QED
      BY <1>2, <2>1, <2>2, <3>1 DEF Current
  <2>3. Wanted' = Wanted
    BY <2>1 DEF Wanted
  <2>. QED
    BY <1>2, <2>1, <2>2, <2>3 DEF SInv
<1>. QED
  BY <1>1, <1>2

LEMMA ReadsKeep ==
    ASSUME SInv, TypeOK', NEW h \in Handlers,
           ReadSettings(h) \/ ReadIdps(h) \/ ReadCie(h)
    PROVE  SInv'
<1>. USE DEF Pcs
<1>0. seen[h] \in Database /\ db \in Database
  BY DEF SInv, TypeOK
<1>1. h \in fresh => Current(h) /\ Written(h)
  BY DEF SInv
<1>2. CASE ReadSettings(h)
  <2>. DEFINE r == IF "settings" \in mine[h] THEN seen[h]
                     ELSE [seen[h] EXCEPT !.settings = db.settings]
  <2>1. r \in Database
    BY <1>0 DEF Database
  <2>2. h \in fresh => /\ r.settings = db.settings /\ r.idps = seen[h].idps
                       /\ r.cie = seen[h].cie /\ r.clients = seen[h].clients
    BY <1>0, <1>1 DEF Database, Current
  <2>. HIDE DEF r
  <2>3. Read(h, "settings", r, "idps") /\ db.settings # None
    BY <1>2 DEF ReadSettings, r
  <2>4. /\ seen'[h] = r /\ pc'[h] = "idps" /\ pc[h] = "settings"
        /\ mine' = mine /\ db' = db /\ disk' = disk
    BY <2>3 DEF Read, Move, SInv, TypeOK
  <2>5. h \in fresh => Current(h)' /\ Written(h)'
    BY <1>1, <2>2, <2>3, <2>4
       DEF Current, Written, AfterSettings, AfterIdps, AfterCie, AfterRouter, AfterClients, AfterSpid
  <2>. QED
    BY <2>1, <2>3, <2>5, ReadKeeps
<1>3. CASE ReadIdps(h)
  <2>1. PICK i \in {db.idps} \cup IF "idps" \in mine[h] THEN {seen[h].idps} ELSE {} :
           Read(h, "idps", [seen[h] EXCEPT !.idps = i], "cie")
    BY <1>3 DEF ReadIdps
  <2>. DEFINE r == [seen[h] EXCEPT !.idps = i]
  <2>2. r \in Database
    BY <1>0, <2>1 DEF Database
  <2>3. h \in fresh => /\ r.settings = seen[h].settings /\ r.idps = db.idps
                       /\ r.cie = seen[h].cie /\ r.clients = seen[h].clients
    BY <1>0, <1>1, <2>1 DEF Database, Current
  <2>4. Read(h, "idps", r, "cie")
    BY <2>1
  <2>. HIDE DEF r
  <2>5. /\ seen'[h] = r /\ pc'[h] = "cie" /\ pc[h] = "idps"
        /\ mine' = mine /\ db' = db /\ disk' = disk
    BY <2>4 DEF Read, Move, SInv, TypeOK
  <2>6. h \in fresh => Current(h)' /\ Written(h)'
    BY <1>1, <2>3, <2>5
       DEF Current, Written, AfterSettings, AfterIdps, AfterCie, AfterRouter, AfterClients, AfterSpid
  <2>. QED
    BY <2>2, <2>4, <2>6, ReadKeeps
<1>4. CASE ReadCie(h)
  <2>1. PICK k \in IF "cie" \in mine[h]
                     THEN {seen[h].cie, IF db.cie = seen[h].cie THEN db.cie ELSE None}
                     ELSE {db.cie} :
           Read(h, "cie", [seen[h] EXCEPT !.cie = k], "router")
    BY <1>4 DEF ReadCie
  <2>. DEFINE r == [seen[h] EXCEPT !.cie = k]
  <2>2. r \in Database
    BY <1>0, <2>1 DEF Database
  <2>3. h \in fresh => /\ r.settings = seen[h].settings /\ r.idps = seen[h].idps
                       /\ r.cie = db.cie /\ r.clients = seen[h].clients
    BY <1>0, <1>1, <2>1 DEF Database, Current
  <2>4. Read(h, "cie", r, "router")
    BY <2>1
  <2>. HIDE DEF r
  <2>5. /\ seen'[h] = r /\ pc'[h] = "router" /\ pc[h] = "cie"
        /\ mine' = mine /\ db' = db /\ disk' = disk
    BY <2>4 DEF Read, Move, SInv, TypeOK
  <2>6. h \in fresh => Current(h)' /\ Written(h)'
    BY <1>1, <2>3, <2>5
       DEF Current, Written, AfterSettings, AfterIdps, AfterCie, AfterRouter, AfterClients, AfterSpid
  <2>. QED
    BY <2>2, <2>4, <2>6, ReadKeeps
<1>. QED
  BY <1>2, <1>3, <1>4

LEMMA WritesKeep ==
    ASSUME SInv, TypeOK', NEW h \in Handlers,
           WriteRouter(h) \/ WriteClients(h) \/ WriteProxy(h) \/ WriteSpid(h)
              \/ WriteRemote(h) \/ WriteBackend(h)
    PROVE  SInv'
<1>. USE DEF Pcs
<1>0. seen[h] \in Database /\ db \in Database /\ disk \in Files
  BY DEF SInv, TypeOK
<1>1. h \in fresh => Current(h) /\ Written(h)
  BY DEF SInv
<1>2. fresh \subseteq Handlers
  BY DEF SInv, TypeOK
<1>3. CASE WriteRouter(h)
  <2>. DEFINE d == [disk EXCEPT !.router = seen[h].cie # None]
  <2>2. d \in Files
    BY <1>0 DEF Files, Database
  <2>3. h \in fresh => /\ d.router = (db.cie # None)
                       /\ d.clients = disk.clients /\ d.proxy = disk.proxy /\ d.settings = disk.settings
                       /\ d.named = disk.named /\ d.remote = disk.remote /\ d.backend = disk.backend
    BY <1>0, <1>1, <1>3 DEF Files, Current, AfterSettings, AfterIdps, AfterCie,
       AfterRouter, AfterClients, Write, WriteRouter
  <2>4. Write(h, "router", d, "clients")
    BY <1>3 DEF WriteRouter
  <2>. HIDE DEF d
  <2>5. /\ disk' = d /\ pc'[h] = "clients" /\ pc[h] = "router"
        /\ mine' = mine /\ db' = db /\ seen' = seen
        /\ \A g \in Handlers \ {h} : pc'[g] = pc[g]
    BY <2>4 DEF Write, Move, SInv, TypeOK
  <2>6. h \in fresh => Current(h)' /\ Written(h)'
    BY <1>1, <2>3, <2>5 DEF Current, Written, AfterSettings, AfterIdps, AfterCie,
       AfterRouter, AfterClients, AfterSpid
  <2>7. h \in fresh => (Carried => Carried')
    BY <2>3, <2>5 DEF Carried
  <2>8. h \in fresh => \A g \in fresh \ {h} : Written(g) => Written(g)'
    BY <1>2, <2>3, <2>5 DEF Written, AfterRouter, AfterClients, AfterSpid
  <2>. QED
    BY <2>2, <2>4, <2>6, <2>7, <2>8, WriteKeeps
<1>4. CASE WriteClients(h)
  <2>1. PICK c \in {seen[h].clients, db.clients} :
           Write(h, "clients", [disk EXCEPT !.clients = c], "proxy")
    BY <1>4 DEF WriteClients
  <2>. DEFINE d == [disk EXCEPT !.clients = c]
  <2>2. d \in Files
    BY <1>0, <2>1 DEF Files, Database
  <2>3. h \in fresh => /\ d.clients = db.clients
                       /\ d.router = disk.router /\ d.proxy = disk.proxy /\ d.settings = disk.settings
                       /\ d.named = disk.named /\ d.remote = disk.remote /\ d.backend = disk.backend
    BY <1>0, <1>1, <2>1 DEF Files, Current, AfterSettings, AfterIdps, AfterCie,
       AfterRouter, AfterClients
  <2>4. Write(h, "clients", d, "proxy")
    BY <2>1
  <2>. HIDE DEF d
  <2>5. /\ disk' = d /\ pc'[h] = "proxy" /\ pc[h] = "clients"
        /\ mine' = mine /\ db' = db /\ seen' = seen
        /\ \A g \in Handlers \ {h} : pc'[g] = pc[g]
    BY <2>4 DEF Write, Move, SInv, TypeOK
  <2>6. h \in fresh => Current(h)' /\ Written(h)'
    BY <1>1, <2>3, <2>5 DEF Current, Written, AfterSettings, AfterIdps, AfterCie,
       AfterRouter, AfterClients, AfterSpid
  <2>7. h \in fresh => (Carried => Carried')
    BY <2>3, <2>5 DEF Carried
  <2>8. h \in fresh => \A g \in fresh \ {h} : Written(g) => Written(g)'
    BY <1>2, <2>3, <2>5 DEF Written, AfterRouter, AfterClients, AfterSpid
  <2>. QED
    BY <2>2, <2>4, <2>6, <2>7, <2>8, WriteKeeps
<1>5. CASE WriteProxy(h)
  <2>. DEFINE d == [disk EXCEPT !.proxy = seen[h].cie # None]
  <2>2. d \in Files
    BY <1>0 DEF Files, Database
  <2>3. h \in fresh => /\ d.proxy = (db.cie # None)
                       /\ d.router = disk.router /\ d.clients = disk.clients /\ d.settings = disk.settings
                       /\ d.named = disk.named /\ d.remote = disk.remote /\ d.backend = disk.backend
    BY <1>0, <1>1, <1>5 DEF Files, Current, AfterSettings, AfterIdps, AfterCie,
       AfterRouter, AfterClients, Write, WriteProxy
  <2>4. Write(h, "proxy", d, "spid")
    BY <1>5 DEF WriteProxy
  <2>. HIDE DEF d
  <2>5. /\ disk' = d /\ pc'[h] = "spid" /\ pc[h] = "proxy"
        /\ mine' = mine /\ db' = db /\ seen' = seen
        /\ \A g \in Handlers \ {h} : pc'[g] = pc[g]
    BY <2>4 DEF Write, Move, SInv, TypeOK
  <2>6. h \in fresh => Current(h)' /\ Written(h)'
    BY <1>1, <2>3, <2>5 DEF Current, Written, AfterSettings, AfterIdps, AfterCie,
       AfterRouter, AfterClients, AfterSpid
  <2>7. h \in fresh => (Carried => Carried')
    BY <2>3, <2>5 DEF Carried
  <2>8. h \in fresh => \A g \in fresh \ {h} : Written(g) => Written(g)'
    BY <1>2, <2>3, <2>5 DEF Written, AfterRouter, AfterClients, AfterSpid
  <2>. QED
    BY <2>2, <2>4, <2>6, <2>7, <2>8, WriteKeeps
<1>6. CASE WriteSpid(h)
  <2>. DEFINE d == [disk EXCEPT !.settings = seen[h].settings,
                                 !.named = seen[h].idps # None]
  <2>2. d \in Files
    BY <1>0 DEF Files, Database
  <2>3. h \in fresh => /\ d.settings = db.settings
                       /\ d.named = (db.idps # None)
                       /\ d.router = disk.router /\ d.clients = disk.clients /\ d.proxy = disk.proxy
                       /\ d.remote = disk.remote /\ d.backend = disk.backend
    BY <1>0, <1>1, <1>6 DEF Files, Current, AfterSettings, AfterIdps, AfterCie,
       AfterRouter, AfterClients, Write, WriteSpid
  <2>4. Write(h, "spid", d, IF seen[h].idps # None THEN "remote" ELSE "backend")
    BY <1>6 DEF WriteSpid
  <2>. HIDE DEF d
  <2>5. /\ disk' = d /\ pc[h] = "spid"
        /\ pc'[h] = (IF seen[h].idps # None THEN "remote" ELSE "backend")
        /\ mine' = mine /\ db' = db /\ seen' = seen
        /\ \A g \in Handlers \ {h} : pc'[g] = pc[g]
    BY <2>4 DEF Write, Move, SInv, TypeOK
  <2>6. h \in fresh => Current(h)' /\ Written(h)'
    BY <1>1, <2>3, <2>5 DEF Current, Written, AfterSettings, AfterIdps, AfterCie,
       AfterRouter, AfterClients, AfterSpid
  <2>7. h \in fresh => (Carried => Carried')
    BY <2>3, <2>5 DEF Carried
  <2>8. h \in fresh => \A g \in fresh \ {h} : Written(g) => Written(g)'
    BY <1>2, <2>3, <2>5 DEF Written, AfterRouter, AfterClients, AfterSpid
  <2>. QED
    BY <2>2, <2>4, <2>6, <2>7, <2>8, WriteKeeps
<1>7. CASE WriteRemote(h)
  <2>. DEFINE d == [disk EXCEPT !.remote = seen[h].idps]
  <2>2. d \in Files
    BY <1>0 DEF Files, Database
  <2>3. h \in fresh => /\ d.remote = db.idps
                       /\ d.router = disk.router /\ d.clients = disk.clients /\ d.proxy = disk.proxy
                       /\ d.settings = disk.settings /\ d.named = disk.named /\ d.backend = disk.backend
    BY <1>0, <1>1, <1>7 DEF Files, Current, AfterSettings, AfterIdps, AfterCie,
       AfterRouter, AfterClients, Write, WriteRemote
  <2>4. Write(h, "remote", d, "backend")
    BY <1>7 DEF WriteRemote
  <2>. HIDE DEF d
  <2>5. /\ disk' = d /\ pc'[h] = "backend" /\ pc[h] = "remote"
        /\ mine' = mine /\ db' = db /\ seen' = seen
        /\ \A g \in Handlers \ {h} : pc'[g] = pc[g]
    BY <2>4 DEF Write, Move, SInv, TypeOK
  <2>6. h \in fresh => Current(h)' /\ Written(h)'
    BY <1>1, <2>3, <2>5 DEF Current, Written, AfterSettings, AfterIdps, AfterCie,
       AfterRouter, AfterClients, AfterSpid
  <2>7. h \in fresh => (Carried => Carried')
    BY <2>3, <2>5 DEF Carried
  <2>8. h \in fresh => \A g \in fresh \ {h} : Written(g) => Written(g)'
    BY <1>2, <2>3, <2>5 DEF Written, AfterRouter, AfterClients, AfterSpid
  <2>. QED
    BY <2>2, <2>4, <2>6, <2>7, <2>8, WriteKeeps
<1>8. CASE WriteBackend(h)
  <2>. DEFINE d == [disk EXCEPT !.backend = IF seen[h].cie = None THEN disk.backend
                                            ELSE seen[h].cie]
  <2>2. d \in Files
    BY <1>0 DEF Files, Database
  <2>3. h \in fresh => /\ d.backend = (IF db.cie = None THEN disk.backend ELSE db.cie)
                       /\ d.router = disk.router /\ d.clients = disk.clients /\ d.proxy = disk.proxy
                       /\ d.settings = disk.settings /\ d.named = disk.named /\ d.remote = disk.remote
    BY <1>0, <1>1, <1>8 DEF Files, Current, AfterSettings, AfterIdps, AfterCie,
       AfterRouter, AfterClients, Write, WriteBackend
  <2>4. Write(h, "backend", d, "touch")
    BY <1>8 DEF WriteBackend
  <2>. HIDE DEF d
  <2>5. /\ disk' = d /\ pc'[h] = "touch" /\ pc[h] = "backend"
        /\ mine' = mine /\ db' = db /\ seen' = seen
        /\ \A g \in Handlers \ {h} : pc'[g] = pc[g]
    BY <2>4 DEF Write, Move, SInv, TypeOK
  <2>6. h \in fresh => Current(h)' /\ Written(h)'
    BY <1>1, <2>3, <2>5 DEF Current, Written, AfterSettings, AfterIdps, AfterCie,
       AfterRouter, AfterClients, AfterSpid
  <2>7. h \in fresh => (Carried => Carried')
    BY <2>3, <2>5 DEF Carried
  <2>8. h \in fresh => \A g \in fresh \ {h} : Written(g) => Written(g)'
    BY <1>2, <2>3, <2>5 DEF Written, AfterRouter, AfterClients, AfterSpid
  <2>. QED
    BY <2>2, <2>4, <2>6, <2>7, <2>8, WriteKeeps
<1>. QED
  BY <1>3, <1>4, <1>5, <1>6, <1>7, <1>8

LEMMA IdleInductive == TypeOK /\ Idle /\ [Next]_vars => Idle'
<1>. SUFFICES ASSUME TypeOK, Idle, [Next]_vars PROVE Idle'
  OBVIOUS
<1>1. ASSUME NEW h \in Handlers, Commits(h) PROVE Idle'
  <2>1. PICK P \in SUBSET Parts, d \in Database, next \in {"settings", "keys"} :
           Commit(h, P, d, next)
    BY <1>1, CommitsCommit
  <2>. QED
    BY <2>1 DEF Commit, Idle, TypeOK
<1>2. ASSUME NEW h \in Handlers, Touch(h) \/ Dies(h) PROVE Idle'
  BY <1>2 DEF Touch, Dies, End, Idle, TypeOK
<1>3. ASSUME NEW h \in Handlers, DeleteKey(h) \/ NewKey(h) \/ Regenerate(h)
                \/ NoHostname(h) \/ LeaveRemote(h) \/ KeepRemote(h)
      PROVE  Idle'
  BY <1>3 DEF DeleteKey, NewKey, Regenerate, NoHostname, LeaveRemote, KeepRemote, Move, Idle, TypeOK
<1>4. ASSUME NEW h \in Handlers, ReadSettings(h) \/ ReadIdps(h) \/ ReadCie(h) PROVE Idle'
  BY <1>4 DEF ReadSettings, ReadIdps, ReadCie, Read, Move, Idle, TypeOK
<1>5. ASSUME NEW h \in Handlers,
             WriteRouter(h) \/ WriteClients(h) \/ WriteProxy(h) \/ WriteSpid(h)
                \/ WriteRemote(h) \/ WriteBackend(h)
      PROVE  Idle'
  <2>1. mine' = mine /\ pc'[h] # "idle" /\ \A g \in Handlers \ {h} : pc'[g] = pc[g]
    BY <1>5 DEF WriteRouter, WriteClients, WriteProxy, WriteSpid, WriteRemote,
                WriteBackend, Write, Move, TypeOK
  <2>. QED
    BY <2>1 DEF Idle
<1>6. ASSUME (\E h \in Handlers : SaveSettings(h)) \/ SatosaLoad \/ Restart
                \/ UNCHANGED vars
      PROVE  Idle'
  BY <1>6 DEF SaveSettings, SatosaLoad, Restart, vars, local, Idle
<1>. QED
  BY <1>1, <1>2, <1>3, <1>4, <1>5, <1>6 DEF Next, Request, Proceed, Commits

(* A file left as it is counts as written only when it is the one wanted. *)
LEMMA LeftKeeps ==
    ASSUME SInv, TypeOK', NEW h \in Handlers, LeaveRemote(h)
    PROVE  SInv'
<1>1. /\ pc[h] = "remote" /\ pc'[h] = "backend"
      /\ \A g \in Handlers \ {h} : pc'[g] = pc[g]
      /\ db' = db /\ disk' = disk /\ mine' = mine /\ seen' = seen
      /\ touched' = touched /\ live' = live
      /\ fresh' = IF disk.remote = seen[h].idps THEN fresh ELSE {}
      /\ owed' = (owed \/ disk.remote # seen[h].idps)
  BY DEF LeaveRemote, Move, SInv, TypeOK
<1>2. CASE disk.remote # seen[h].idps
  BY <1>1, <1>2 DEF SInv
<1>3. CASE disk.remote = seen[h].idps
  <2>1. fresh' = fresh /\ owed' = owed
    BY <1>1, <1>3 DEF SInv, TypeOK
  <2>2. ASSUME NEW g \in fresh, g # h PROVE Current(g)' /\ Written(g)'
    <3>1. pc'[g] = pc[g] /\ Current(g) /\ Written(g)
      BY <1>1, <2>2 DEF SInv, TypeOK
    <3>. QED
      BY <1>1, <3>1 DEF Current, Written
  <2>3. ASSUME h \in fresh PROVE Current(h)' /\ Written(h)'
    <3>1. Current(h) /\ Written(h)
      BY <2>3 DEF SInv
    <3>. QED
      BY <1>1, <1>3, <3>1 DEF Current, Written, AfterSettings, AfterIdps, AfterCie,
         AfterRouter, AfterClients, AfterSpid
  <2>4. Carried' = Carried /\ Wanted' = Wanted
    BY <1>1 DEF Carried, Wanted
  <2>. QED
    BY <1>1, <2>1, <2>2, <2>3, <2>4 DEF SInv
<1>. QED
  BY <1>2, <1>3

LEMMA SInvInductive == SInv /\ Idle /\ [Next]_vars => SInv'
<1>. SUFFICES ASSUME SInv, Idle, [Next]_vars PROVE SInv'
  OBVIOUS
<1>0. TypeOK'
  BY TypeInductive DEF SInv
<1>1. ASSUME NEW h \in Handlers, Commits(h) PROVE SInv'
  <2>1. PICK P \in SUBSET Parts, d \in Database, next \in {"settings", "keys"} :
           Commit(h, P, d, next)
    BY <1>1, CommitsCommit DEF SInv
  <2>. QED
    BY <1>0, <2>1, CommitKeeps
<1>2. ASSUME NEW h \in Handlers,
             SaveSettings(h) \/ DeleteKey(h) \/ KeepRemote(h)
      PROVE  SInv'
  <2>1. fresh' = {} /\ owed' = TRUE
    BY <1>2 DEF SaveSettings, DeleteKey, KeepRemote
  <2>. QED
    BY <1>0, <2>1 DEF SInv
<1>3. ASSUME NEW h \in Handlers, NewKey(h) \/ NoHostname(h) PROVE SInv'
  <2>1. /\ fresh' = fresh \ {h} /\ owed' = owed
        /\ db' = db /\ disk' = disk /\ mine' = mine /\ seen' = seen
        /\ touched' = touched /\ live' = live
    BY <1>3 DEF NewKey, NoHostname
  <2>2. ASSUME NEW g \in fresh' PROVE Current(g)' /\ Written(g)'
    <3>1. g \in fresh /\ pc'[g] = pc[g] /\ Current(g) /\ Written(g)
      BY <1>3, <2>1, <2>2 DEF NewKey, NoHostname, Move, SInv, TypeOK
    <3>. QED
      BY <2>1, <3>1 DEF Current, Written
  <2>3. Carried' = Carried /\ Wanted' = Wanted
    BY <2>1 DEF Carried, Wanted
  <2>. QED
    BY <1>0, <2>1, <2>2, <2>3 DEF SInv
<1>4. ASSUME NEW h \in Handlers, Regenerate(h) PROVE SInv'
  <2>1. /\ fresh' = fresh \cup {h} /\ owed' = owed
        /\ db' = db /\ disk' = disk /\ mine' = mine
        /\ touched' = touched /\ live' = live
    BY <1>4 DEF Regenerate
  <2>2. h \notin fresh \/ pc[h] # "idle"
    BY DEF SInv, Current
  <2>3. ASSUME NEW g \in fresh PROVE Current(g)' /\ Written(g)'
    <3>1. /\ g \in Handlers /\ pc'[g] = pc[g] /\ seen'[g] = seen[g]
          /\ Current(g) /\ Written(g)
      BY <1>4, <2>2, <2>3 DEF Regenerate, Move, SInv, TypeOK
    <3>. QED
      BY <2>1, <3>1 DEF Current, Written
  <2>4. mine[h] = {} => Current(h)' /\ Written(h)'
    <3>1. pc'[h] = "settings" /\ seen'[h] = Held({}, db) /\ db \in Database
      BY <1>4 DEF Regenerate, Move, SInv, TypeOK
    <3>. QED
      BY <2>1, <3>1, HeldType
         DEF Current, Written, AfterSettings, AfterIdps, AfterCie, AfterRouter,
             AfterClients, AfterSpid
  <2>5. Carried' = Carried /\ Wanted' = Wanted
    BY <2>1 DEF Carried, Wanted
  <2>6. mine[h] = {}
    BY <1>4 DEF Regenerate, Idle
  <2>. QED
    BY <1>0, <2>1, <2>3, <2>4, <2>5, <2>6 DEF SInv
<1>5. ASSUME NEW h \in Handlers, ReadSettings(h) \/ ReadIdps(h) \/ ReadCie(h) PROVE SInv'
  BY <1>0, <1>5, ReadsKeep
<1>6. ASSUME NEW h \in Handlers,
             WriteRouter(h) \/ WriteClients(h) \/ WriteProxy(h) \/ WriteSpid(h)
                \/ WriteRemote(h) \/ WriteBackend(h)
      PROVE  SInv'
  BY <1>0, <1>6, WritesKeep
<1>7. ASSUME NEW h \in Handlers, Touch(h) \/ Dies(h) PROVE SInv'
  <2>1. /\ fresh' = fresh \ {h} /\ db' = db /\ disk' = disk /\ live' = live
        /\ End(h)
    BY <1>7 DEF Touch, Dies
  <2>2. ASSUME NEW g \in fresh' PROVE Current(g)' /\ Written(g)'
    <3>1. /\ g \in Handlers /\ pc'[g] = pc[g] /\ seen'[g] = seen[g] /\ mine'[g] = mine[g]
          /\ Current(g) /\ Written(g)
      BY <2>1, <2>2 DEF End, SInv, TypeOK
    <3>. QED
      BY <2>1, <3>1, OtherKeeps DEF SInv, TypeOK
  <2>3. Carried' = Carried /\ Wanted' = Wanted
    BY <2>1 DEF Carried, Wanted
  <2>4. CASE Touch(h)
    <3>1. touched' = TRUE /\ owed' = (owed /\ h \notin fresh) /\ pc[h] = "touch"
      BY <2>4 DEF Touch
    <3>2. h \in fresh => Carried
      BY <3>1 DEF SInv, Current, Written, Carried, AfterSettings, AfterIdps, AfterCie,
                  AfterRouter, AfterClients, AfterSpid
    <3>. QED
      BY <1>0, <2>2, <2>3, <3>1, <3>2 DEF SInv
  <2>5. CASE Dies(h)
    BY <1>0, <2>1, <2>2, <2>3, <2>5 DEF SInv, Dies
  <2>. QED
    BY <1>7, <2>4, <2>5
<1>8. ASSUME SatosaLoad PROVE SInv'
  <2>1. /\ db' = db /\ disk' = disk /\ pc' = pc /\ mine' = mine /\ seen' = seen
        /\ fresh' = fresh /\ owed' = owed /\ touched' = FALSE
        /\ live' = IF Whole(disk) THEN Loaded(disk) ELSE None
    BY <1>8 DEF SatosaLoad, local, hist
  <2>2. \A g \in fresh : Current(g)' = Current(g) /\ Written(g)' = Written(g)
    BY <2>1 DEF Current, Written
  <2>3. Carried' = Carried /\ Wanted' = Wanted
    BY <2>1 DEF Carried, Wanted
  <2>4. db \in Database /\ disk \in Files
    BY DEF SInv, TypeOK
  <2>5. Carried => Whole(disk) /\ Loaded(disk) = Wanted
    <3>1. SUFFICES ASSUME Carried PROVE Whole(disk) /\ Loaded(disk) = Wanted
      OBVIOUS
    <3>2. Whole(disk)
      BY <3>1 DEF Carried, Whole
    <3>3. (IF disk.named THEN disk.remote ELSE None) = db.idps
      BY <3>1 DEF Carried
    <3>4. (IF disk.proxy THEN disk.backend ELSE None) = db.cie
      BY <3>1 DEF Carried
    <3>. QED
      BY <3>1, <3>2, <3>3, <3>4 DEF Carried, Loaded, Wanted
  <2>. QED
    BY <1>0, <2>1, <2>2, <2>3, <2>5 DEF SInv
<1>9. ASSUME Restart PROVE SInv'
  <2>1. /\ fresh' = IF disk' = disk THEN fresh ELSE {}
        /\ owed' = (owed \/ disk' # disk)
        /\ db' = db /\ pc' = pc /\ mine' = mine /\ seen' = seen /\ touched' = TRUE
    BY <1>9 DEF Restart, local
  <2>2. CASE disk' = disk
    <3>1. \A g \in fresh : Current(g)' = Current(g) /\ Written(g)' = Written(g)
      BY <2>1, <2>2 DEF Current, Written
    <3>2. Carried' = Carried
      BY <2>1, <2>2 DEF Carried
    <3>. QED
      BY <1>0, <2>1, <2>2, <3>1, <3>2 DEF SInv
  <2>3. CASE disk' # disk
    <3>1. fresh' = {} /\ owed' = TRUE
      BY <2>1, <2>3 DEF SInv, TypeOK
    <3>. QED
      BY <1>0, <3>1 DEF SInv
  <2>. QED
    BY <2>2, <2>3
<1>10. ASSUME NEW h \in Handlers, LeaveRemote(h) PROVE SInv'
  BY <1>0, <1>10, LeftKeeps
<1>11. ASSUME UNCHANGED vars PROVE SInv'
  <2>1. \A g \in fresh : Current(g)' = Current(g) /\ Written(g)' = Written(g)
    BY <1>11 DEF vars, local, Current, Written
  <2>2. Carried' = Carried /\ Wanted' = Wanted
    BY <1>11 DEF vars, Carried, Wanted
  <2>. QED
    BY <1>0, <1>11, <2>1, <2>2 DEF vars, hist, SInv
<1>. QED
  BY <1>1, <1>2, <1>3, <1>4, <1>5, <1>6, <1>7, <1>8, <1>9, <1>10, <1>11
     DEF Next, Request, Proceed, Commits

LEMMA InitSInv == Init => SInv /\ Idle
BY InitType DEF Init, SInv, Idle

(* SATOSA runs with what the database holds once a generation was touched    *)
(* that no other commit or stale write overlapped (generate_satosa_config    *)
(* and reload_satosa), whatever was left half done before.                   *)
THEOREM GenerationSettles == Spec => []Settles
<1>1. SInv => Settles
  BY DEF SInv, Settles
<1>2. SInv /\ Idle /\ [Next]_vars => (SInv /\ Idle)'
  BY SInvInductive, IdleInductive DEF SInv
<1>. QED
  BY <1>1, <1>2, InitSInv, PTL DEF Spec

------------------------------------------------------------------------------
(* A step of one request that leaves alone what Coming speaks of. *)
LEMMA ComingKept ==
    ASSUME UInv, TypeOK', NEW h \in Handlers,
           pc[h] \notin {"spid", "remote", "backend"}, pc'[h] # "remote",
           pc[h] = "touch" => touched',
           \A g \in Handlers \ {h} : pc'[g] = pc[g] /\ seen'[g] = seen[g],
           disk'.named = disk.named, disk'.remote = disk.remote,
           disk'.proxy = disk.proxy, disk'.backend = disk.backend,
           disk'.settings = disk.settings,
           touched => touched', live' = live, failed' = failed
    PROVE  UInv'
<1>1. Named'
  BY DEF UInv, Named
<1>2. Coming'
  <2>. SUFFICES ASSUME ~failed PROVE Coming'
    BY DEF Coming
  <2>1. disk.named /\ disk.remote = None => \E g \in Handlers : pc'[g] = "remote"
    BY DEF UInv, Coming
  <2>2. disk.proxy /\ disk.backend = None =>
           \E g \in Handlers : pc'[g] \in {"spid", "remote", "backend"} /\ seen'[g].cie # None
    BY DEF UInv, Coming
  <2>3. live = None /\ disk.settings # None =>
           touched' \/ \E g \in Handlers : pc'[g] \in {"spid", "remote", "backend", "touch"}
    BY DEF UInv, Coming
  <2>. QED
    BY <2>1, <2>2, <2>3 DEF Coming
<1>. QED
  BY <1>1, <1>2 DEF UInv

(* The writes that Coming is about, and the last one. *)
LEMMA WritesComing ==
    ASSUME UInv, TypeOK', NEW h \in Handlers,
           \/ WriteProxy(h) \/ WriteSpid(h) \/ WriteRemote(h) \/ LeaveRemote(h)
           \/ KeepRemote(h) \/ WriteBackend(h)
    PROVE  UInv'
<1>0. /\ disk \in Files /\ pc \in [Handlers -> Pcs]
      /\ live' = live /\ touched' = touched /\ failed' = failed /\ seen' = seen
  BY DEF UInv, TypeOK, WriteProxy, WriteSpid, WriteRemote, LeaveRemote, KeepRemote,
         WriteBackend, Write
<1>1. \A g \in Handlers \ {h} : pc'[g] = pc[g]
  BY <1>0 DEF WriteProxy, WriteSpid, WriteRemote, LeaveRemote, KeepRemote, WriteBackend,
              Write, Move
<1>2. CASE WriteProxy(h)
  <2>1. /\ pc'[h] = "spid" /\ pc[h] = "proxy"
        /\ disk'.proxy = (seen[h].cie # None)
        /\ disk'.named = disk.named /\ disk'.remote = disk.remote
        /\ disk'.backend = disk.backend /\ disk'.settings = disk.settings
    BY <1>0, <1>2 DEF WriteProxy, Write, Move, Files
  <2>. QED
    BY <1>0, <1>1, <2>1 DEF UInv, Named, Coming
<1>3. CASE WriteSpid(h)
  <2>1. /\ pc'[h] = (IF seen[h].idps # None THEN "remote" ELSE "backend")
        /\ pc[h] = "spid"
        /\ disk'.named = (seen[h].idps # None)
        /\ disk'.proxy = disk.proxy /\ disk'.remote = disk.remote
        /\ disk'.backend = disk.backend
    BY <1>0, <1>3 DEF WriteSpid, Write, Move, Files
  <2>. QED
    BY <1>0, <1>1, <2>1 DEF UInv, Named, Coming
<1>4. CASE WriteRemote(h) \/ LeaveRemote(h) \/ KeepRemote(h)
  <2>1. /\ pc'[h] = "backend" /\ pc[h] = "remote"
        /\ disk'.remote # None
        /\ disk'.proxy = disk.proxy /\ disk'.named = disk.named
        /\ disk'.backend = disk.backend /\ disk'.settings = disk.settings
    BY <1>0, <1>4, NoneAssumption
       DEF WriteRemote, LeaveRemote, KeepRemote, Write, Move, Files, UInv, Named
  <2>. QED
    BY <1>0, <1>1, <2>1 DEF UInv, Named, Coming
<1>5. CASE WriteBackend(h)
  <2>1. /\ pc'[h] = "touch" /\ pc[h] = "backend"
        /\ disk'.backend = (IF seen[h].cie = None THEN disk.backend ELSE seen[h].cie)
        /\ disk'.proxy = disk.proxy /\ disk'.remote = disk.remote
        /\ disk'.named = disk.named /\ disk'.settings = disk.settings
    BY <1>0, <1>5 DEF WriteBackend, Write, Move, Files
  <2>. QED
    BY <1>0, <1>1, <2>1 DEF UInv, Named, Coming
<1>. QED
  BY <1>2, <1>3, <1>4, <1>5

LEMMA UInvInductive == UInv /\ [Next]_vars => UInv'
<1>. SUFFICES ASSUME UInv, [Next]_vars PROVE UInv'
  OBVIOUS
<1>0. TypeOK /\ TypeOK'
  BY TypeInductive DEF UInv
<1>1. ASSUME NEW h \in Handlers, Commits(h) PROVE UInv'
  <2>1. PICK P \in SUBSET Parts, d \in Database, next \in {"settings", "keys"} :
           Commit(h, P, d, next)
    BY <1>0, <1>1, CommitsCommit
  <2>2. pc[h] \in {"idle", "keys"}
    BY <1>1 DEF Commits, EditClient, ToggleIdp, RefreshMetadata, ToggleEidas,
                ToggleLegal, SaveCie, Import, DropKeys, NewKeys, Change
  <2>3. /\ disk' = disk /\ touched' = touched /\ live' = live /\ failed' = failed
        /\ pc'[h] # "remote"
        /\ \A g \in Handlers \ {h} : pc'[g] = pc[g] /\ seen'[g] = seen[g]
    BY <1>0, <2>1 DEF Commit, TypeOK
  <2>. QED
    BY <1>0, <2>2, <2>3, ComingKept
<1>2. ASSUME NEW h \in Handlers,
             \/ DeleteKey(h) \/ NewKey(h) \/ Regenerate(h) \/ NoHostname(h)
             \/ ReadSettings(h) \/ ReadIdps(h) \/ ReadCie(h) \/ Touch(h)
      PROVE  UInv'
  <2>1. /\ disk' = disk /\ live' = live /\ failed' = failed
        /\ touched => touched'
        /\ pc[h] \notin {"spid", "remote", "backend"}
        /\ pc[h] = "touch" => touched'
    BY <1>0, <1>2 DEF DeleteKey, NewKey, Regenerate, NoHostname, ReadSettings, ReadIdps,
                      ReadCie, Read, hist, Touch
  <2>2. pc'[h] # "remote" /\ \A g \in Handlers \ {h} : pc'[g] = pc[g]
    BY <1>0, <1>2 DEF DeleteKey, NewKey, Regenerate, NoHostname, ReadSettings, ReadIdps,
                      ReadCie, Read, Move, Touch, End, TypeOK
  <2>3. \A g \in Handlers \ {h} : seen'[g] = seen[g]
    BY <1>0, <1>2 DEF DeleteKey, NewKey, Regenerate, NoHostname, ReadSettings, ReadIdps,
                      ReadCie, Read, Touch, End, TypeOK
  <2>. QED
    BY <1>0, <2>1, <2>2, <2>3, ComingKept
<1>3. ASSUME NEW h \in Handlers, WriteRouter(h) \/ WriteClients(h) PROVE UInv'
  <2>1. /\ pc[h] \in {"router", "clients"} /\ pc'[h] \in {"clients", "proxy"}
        /\ touched' = touched /\ live' = live /\ failed' = failed /\ seen' = seen
        /\ \A g \in Handlers \ {h} : pc'[g] = pc[g]
    BY <1>0, <1>3 DEF WriteRouter, WriteClients, Write, Move, TypeOK
  <2>2. /\ disk'.named = disk.named /\ disk'.remote = disk.remote
        /\ disk'.proxy = disk.proxy /\ disk'.backend = disk.backend
        /\ disk'.settings = disk.settings
    BY <1>0, <1>3 DEF WriteRouter, WriteClients, Write, TypeOK, Files
  <2>. QED
    BY <1>0, <2>1, <2>2, ComingKept
<1>4. ASSUME NEW h \in Handlers,
             \/ WriteProxy(h) \/ WriteSpid(h) \/ WriteRemote(h) \/ LeaveRemote(h)
             \/ KeepRemote(h) \/ WriteBackend(h)
      PROVE  UInv'
  BY <1>0, <1>4, WritesComing
<1>5. ASSUME NEW h \in Handlers, Dies(h) PROVE UInv'
  <2>1. failed'
    BY <1>5 DEF Dies
  <2>2. Named'
    BY <1>0, <1>5 DEF Dies, End, Named, UInv, TypeOK
  <2>. QED
    BY <1>0, <2>1, <2>2 DEF UInv, Coming
<1>6. ASSUME SatosaLoad PROVE UInv'
  <2>1. /\ disk' = disk /\ pc' = pc /\ seen' = seen /\ failed' = failed
        /\ live' = IF Whole(disk) THEN Loaded(disk) ELSE None
    BY <1>6 DEF SatosaLoad, local, hist
  <2>2. Whole(disk) => live' # None
    BY <1>0, <2>1, LoadedType, ImageAssumption DEF TypeOK
  <2>. QED
    BY <1>0, <2>1, <2>2 DEF UInv, Named, Coming, Whole
<1>7. ASSUME Restart PROVE UInv'
  <2>1. pc' = pc /\ seen' = seen /\ touched' /\ live' = live /\ failed' = failed
    BY <1>7 DEF Restart, local
  <2>2. CASE disk' = disk
    BY <1>0, <2>1, <2>2 DEF UInv, Named, Coming
  <2>3. CASE disk' # disk
    <3>1. PICK r \in Idps \cup {IF disk.remote = None THEN "placeholder" ELSE disk.remote} :
             disk' = [disk EXCEPT !.remote = r]
      BY <1>7, <2>3 DEF Restart
    <3>2. r # None
      BY NoneAssumption
    <3>3. /\ disk'.remote # None /\ disk'.proxy = disk.proxy
          /\ disk'.backend = disk.backend /\ disk'.settings = disk.settings
      BY <1>0, <3>1, <3>2 DEF TypeOK, Files
    <3>. QED
      BY <1>0, <2>1, <3>3 DEF UInv, Named, Coming
  <2>. QED
    BY <2>2, <2>3
<1>8. ASSUME UNCHANGED vars \/ \E h \in Handlers : SaveSettings(h) PROVE UInv'
  <2>1. /\ disk' = disk /\ pc' = pc /\ seen' = seen /\ failed' = failed
        /\ touched' = touched /\ live' = live
    BY <1>8 DEF vars, local, hist, SaveSettings
  <2>. QED
    BY <1>0, <2>1 DEF UInv, Named, Coming
<1>. QED
  BY <1>1, <1>2, <1>3, <1>4, <1>5, <1>6, <1>7, <1>8
     DEF Next, Request, Proceed, Commits

(* Requests that overlap as they may, the last of them leaves no file        *)
(* missing that the configuration names: SATOSA is up between requests       *)
(* while none died (generate_satosa_config, _ensure_remote_metadata).        *)
THEOREM UpBetweenRequests == Spec => []UpWhenQuiet
<1>1. Init => UInv
  BY InitType DEF Init, UInv, Named, Coming
<1>2. UInv => UpWhenQuiet
  BY DEF UInv, Coming, UpWhenQuiet, Quiet
<1>. QED
  BY <1>1, <1>2, UInvInductive, PTL DEF Spec
==============================================================================
