----------------------------- MODULE ConfigReload -----------------------------
(***************************************************************************)
(* The configuration on its way from the database to SATOSA.  Admin routes *)
(* commit a change, generate the files on the conf volume one after the    *)
(* other, and touch .reload; uWSGI then loads SATOSA from whatever files   *)
(* are there.  The generator waits for the database between its reads and  *)
(* for downloads between its writes, and two requests take no lock: their  *)
(* generations interleave with each other and with loads.  Every file is a *)
(* step, also where no await separates two of them: SATOSA is another      *)
(* process.  (That other requests come in between there too allows more    *)
(* than config-api does.)                                                  *)
(*                                                                         *)
(* The database is seen as the four things the files are built from, each  *)
(* with the versions a run gives it:                                       *)
(*     settings  the ente row; None is no proxy_hostname yet               *)
(*     idps      the test or eIDAS provider and its metadata; None is off  *)
(*     cie       the CIE configuration and its three keys; None is off or  *)
(*               incomplete (include_cie_oidc is false)                    *)
(*     clients   the enabled OIDC clients                                  *)
(***************************************************************************)
EXTENDS Naturals

CONSTANTS
    Settings, Idps, Cies, Clients,   \* the versions of each
    Uncached,                        \* those of Idps whose row holds no metadata
    None,                            \* none of them
    Handlers,                        \* requests that may be under way at once
    Faults                           \* TRUE: steps fail, processes restart

ASSUME NoneAssumption ==
    None \notin Settings \cup Idps \cup Cies \cup Clients \cup {"placeholder"}
ASSUME UncachedAssumption == Uncached \subseteq Idps
ASSUME FaultsAssumption == Faults \in BOOLEAN

VARIABLES
    db,       \* what is committed
    disk,     \* the files on the conf volume
    touched,  \* .reload was touched and SATOSA has not loaded since
    live,     \* what SATOSA loaded; None when the load failed
    pc,       \* what each request is about to do
    mine,     \* the parts its own session holds since it committed them
    seen,     \* the parts as it read them; None before
    (* history *)
    fresh,    \* requests since whose start nobody else changed anything
    owed,     \* a change was committed that no fresh generation carried on
    failed    \* a request died on its way

local == <<pc, mine, seen>>
hist  == <<fresh, owed, failed>>
vars  == <<db, disk, touched, live, local, hist>>

------------------------------------------------------------------------------
Parts == {"settings", "idps", "cie", "clients"}

Database == [settings : Settings \cup {None}, idps : Idps \cup {None},
             cie : Cies \cup {None}, clients : Clients \cup {None}]

Nothing == [settings |-> None, idps |-> None, cie |-> None, clients |-> None]

(* default_router.yaml (whether it knows CIE), oidc_clients.json, proxy.yaml *)
(* (whether it lists the CIE backend), spid_backend.yaml (its settings, and  *)
(* whether it names the file of the provider's metadata), that file, and     *)
(* cie_oidc_backend.yaml.                                                    *)
Files == [router : BOOLEAN, clients : Clients \cup {None}, proxy : BOOLEAN,
          settings : Settings \cup {None}, named : BOOLEAN,
          remote : Idps \cup {None, "placeholder"}, backend : Cies \cup {None}]

Image == [router : BOOLEAN, clients : Clients \cup {None},
          settings : Settings \cup {None},
          idps : Idps \cup {None, "placeholder"}, cie : Cies \cup {None}]

ASSUME ImageAssumption == None \notin Image

Pcs == {"idle", "keys", "settings", "idps", "cie", "router", "clients", "proxy",
        "spid", "remote", "backend", "touch"}

TypeOK ==
    /\ db \in Database
    /\ disk \in Files
    /\ touched \in BOOLEAN
    /\ live \in Image \cup {None}
    /\ pc \in [Handlers -> Pcs]
    /\ mine \in [Handlers -> SUBSET Parts]
    /\ seen \in [Handlers -> Database]
    /\ fresh \subseteq Handlers
    /\ owed \in BOOLEAN
    /\ failed \in BOOLEAN

(* An empty volume and database: SATOSA cannot load yet. *)
Init ==
    /\ db = Nothing
    /\ disk = [router |-> FALSE, clients |-> None, proxy |-> FALSE, settings |-> None,
               named |-> FALSE, remote |-> None, backend |-> None]
    /\ touched = FALSE
    /\ live = None
    /\ pc = [h \in Handlers |-> "idle"]
    /\ mine = [h \in Handlers |-> {}]
    /\ seen = [h \in Handlers |-> Nothing]
    /\ fresh = {}
    /\ owed = TRUE
    /\ failed = FALSE

(* Every file the configuration names is there. *)
Whole(d) ==
    /\ d.settings # None
    /\ d.named => d.remote # None
    /\ d.proxy => d.backend # None

Loaded(d) == [router |-> d.router, clients |-> d.clients, settings |-> d.settings,
              idps |-> IF d.named THEN d.remote ELSE None,
              cie |-> IF d.proxy THEN d.backend ELSE None]

(* What SATOSA should run with. *)
Wanted == [router |-> db.cie # None, clients |-> db.clients, settings |-> db.settings,
           idps |-> db.idps, cie |-> db.cie]

------------------------------------------------------------------------------
Move(h, next) == pc' = [pc EXCEPT ![h] = next]

End(h) ==
    /\ pc' = [pc EXCEPT ![h] = "idle"]
    /\ mine' = [mine EXCEPT ![h] = {}]
    /\ seen' = [seen EXCEPT ![h] = Nothing]

(* What a session holds of d that committed the parts P: these, and the       *)
(* clients, which generate_and_write selects first.                          *)
Held(P, d) ==
    [settings |-> IF "settings" \in P THEN d.settings ELSE None,
     idps     |-> IF "idps" \in P THEN d.idps ELSE None,
     cie      |-> IF "cie" \in P THEN d.cie ELSE None,
     clients  |-> d.clients]

(* A request that changes the parts P commits d and goes on. *)
Commit(h, P, d, next) ==
    /\ db' = d
    /\ pc' = [pc EXCEPT ![h] = next]
    /\ mine' = [mine EXCEPT ![h] = P]
    /\ seen' = [seen EXCEPT ![h] = Held(P, d)]
    /\ fresh' = {h}
    /\ owed' = TRUE
    /\ UNCHANGED <<disk, touched, live, failed>>

(* Most routes: commit, then generate and touch. *)
Change(h, P, d) == pc[h] = "idle" /\ Commit(h, P, d, "settings")

(* settings_save only commits. *)
SaveSettings(h) ==
    /\ pc[h] = "idle"
    /\ \E s \in Settings : db' = [db EXCEPT !.settings = s]
    /\ fresh' = {}
    /\ owed' = TRUE
    /\ UNCHANGED <<disk, touched, live, local, failed>>

EditClient(h) ==
    \E c \in Clients : Change(h, {"clients"}, [db EXCEPT !.clients = c])

ToggleIdp(h) ==
    \E i \in Idps \cup {None} :
        /\ i = None <=> db.idps # None
        /\ Change(h, {"idps"}, [db EXCEPT !.idps = i])

(* The watcher, or the admin, found other metadata than those in the table    *)
(* (or a page that is none, and stored it all the same).                     *)
RefreshMetadata(h) ==
    \E i \in Idps \ {db.idps} :
        /\ db.idps # None
        /\ Change(h, {"idps"}, [db EXCEPT !.idps = i])

(* Both tables in one transaction. *)
ToggleEidas(h) ==
    \E s \in Settings, i \in Idps \cup {None} :
        /\ db.settings # None
        /\ Change(h, {"settings", "idps"}, [db EXCEPT !.settings = s, !.idps = i])

ToggleLegal(h) ==
    \E s \in Settings :
        /\ db.settings # None
        /\ Change(h, {"settings"}, [db EXCEPT !.settings = s])

SaveCie(h) ==
    \E k \in Cies \cup {None} : Change(h, {"cie"}, [db EXCEPT !.cie = k])

(* A backup replaces every table. *)
Import(h) == \E d \in Database : Change(h, Parts, d)

(* cie_generate_all: the references and the old keys go ... *)
DropKeys(h) ==
    /\ pc[h] = "idle"
    /\ Commit(h, {"cie"}, [db EXCEPT !.cie = None], "keys")

(* ... and a later commit brings the new ones. *)
NewKeys(h) ==
    /\ pc[h] = "keys"
    /\ \E k \in Cies \cup {None} : Commit(h, {"cie"}, [db EXCEPT !.cie = k], "settings")

(* cie_delete_jwk: a key in use goes; a load, and nothing is generated. *)
DeleteKey(h) ==
    /\ pc[h] = "idle"
    /\ db' = [db EXCEPT !.cie = None]
    /\ Move(h, "touch")
    /\ fresh' = {}
    /\ owed' = TRUE
    /\ UNCHANGED <<disk, touched, live, mine, seen, failed>>

(* cie_generate_jwk: one more key, not yet in use; a load. *)
NewKey(h) ==
    /\ pc[h] = "idle"
    /\ Move(h, "touch")
    /\ fresh' = fresh \ {h}
    /\ UNCHANGED <<db, disk, touched, live, mine, seen, owed, failed>>

(* The start of config-api, metadata_regenerate: nothing to commit. *)
Regenerate(h) ==
    /\ pc[h] = "idle"
    /\ Move(h, "settings")
    /\ seen' = [seen EXCEPT ![h] = Held({}, db)]
    /\ fresh' = fresh \cup {h}
    /\ UNCHANGED <<db, disk, touched, live, mine, owed, failed>>

------------------------------------------------------------------------------
(* generate_satosa_config.  The session does not refresh a row it holds.    *)
Read(h, p, r, next) ==
    /\ pc[h] = p
    /\ seen' = [seen EXCEPT ![h] = r]
    /\ Move(h, next)
    /\ UNCHANGED <<db, disk, touched, live, mine, hist>>

ReadSettings(h) ==
    /\ db.settings # None
    /\ Read(h, "settings",
            IF "settings" \in mine[h] THEN seen[h]
              ELSE [seen[h] EXCEPT !.settings = db.settings],
            "idps")

(* Without a proxy_hostname nothing is generated. *)
NoHostname(h) ==
    /\ pc[h] = "settings"
    /\ db.settings = None
    /\ Move(h, "touch")
    /\ fresh' = fresh \ {h}
    /\ UNCHANGED <<db, disk, touched, live, mine, seen, owed, failed>>

(* The query finds the rows enabled now; those held keep their content. *)
ReadIdps(h) ==
    \E i \in {db.idps} \cup IF "idps" \in mine[h] THEN {seen[h].idps} ELSE {} :
        Read(h, "idps", [seen[h] EXCEPT !.idps = i], "cie")

(* The keys are looked up by id: those of the held row may be gone. *)
ReadCie(h) ==
    \E k \in IF "cie" \in mine[h]
                THEN {seen[h].cie, IF db.cie = seen[h].cie THEN db.cie ELSE None}
                ELSE {db.cie} :
        Read(h, "cie", [seen[h] EXCEPT !.cie = k], "router")

(* One file.  A request that is not fresh may put an older version back. *)
Write(h, p, d, next) ==
    /\ pc[h] = p
    /\ disk' = d
    /\ Move(h, next)
    /\ fresh' = IF h \in fresh THEN fresh ELSE {}
    /\ owed' = (owed \/ h \notin fresh)
    /\ UNCHANGED <<db, touched, live, mine, seen, failed>>

WriteRouter(h) ==
    Write(h, "router", [disk EXCEPT !.router = seen[h].cie # None], "clients")

(* Selected again: the rows held keep their content. *)
WriteClients(h) ==
    \E c \in {seen[h].clients, db.clients} :
        Write(h, "clients", [disk EXCEPT !.clients = c], "proxy")

(* Mutant: the condition is not brought to a bool. *)
WriteProxyUncast(h) ==
    Write(h, "proxy", [disk EXCEPT !.proxy = seen[h].cie], "spid")

WriteProxy(h) ==
    Write(h, "proxy", [disk EXCEPT !.proxy = seen[h].cie # None], "spid")

WriteSpid(h) ==
    Write(h, "spid", [disk EXCEPT !.settings = seen[h].settings, !.named = seen[h].idps # None],
          IF seen[h].idps # None THEN "remote" ELSE "backend")

(* Mutant: the file is written only when it is missing. *)
WriteRemoteMissing(h) ==
    Write(h, "remote", [disk EXCEPT !.remote = IF @ = None THEN seen[h].idps ELSE @], "backend")

(* From the table, or downloaded when the row holds no metadata. *)
WriteRemote(h) ==
    Write(h, "remote", [disk EXCEPT !.remote = seen[h].idps], "backend")

(* None in the row, and <alias>.xml.url has its URL (an earlier generation    *)
(* wrote the file): it is left as it is, the container's download included.   *)
LeaveRemote(h) ==
    /\ pc[h] = "remote"
    /\ seen[h].idps \in Uncached
    /\ disk.remote \in Idps
    /\ Move(h, "backend")
    /\ fresh' = IF disk.remote = seen[h].idps THEN fresh ELSE {}
    /\ owed' = (owed \/ disk.remote # seen[h].idps)
    /\ UNCHANGED <<db, disk, touched, live, mine, seen, failed>>

(* Mutant: a failed download leaves no file behind. *)
KeepRemoteMissing(h) ==
    /\ Faults
    /\ pc[h] = "remote" /\ seen[h].idps \in Uncached
    /\ Move(h, "backend")
    /\ fresh' = {}
    /\ owed' = TRUE
    /\ UNCHANGED <<db, disk, touched, live, mine, seen, failed>>

(* The download failed: the old file, or one without any provider. *)
KeepRemote(h) ==
    /\ Faults
    /\ pc[h] = "remote" /\ seen[h].idps \in Uncached
    /\ disk' = [disk EXCEPT !.remote = IF @ = None THEN "placeholder" ELSE @]
    /\ Move(h, "backend")
    /\ fresh' = {}
    /\ owed' = TRUE
    /\ UNCHANGED <<db, touched, live, mine, seen, failed>>

(* cie_oidc_backend.yaml stays as it is when CIE is off. *)
WriteBackend(h) ==
    Write(h, "backend",
          [disk EXCEPT !.backend = IF seen[h].cie = None THEN @ ELSE seen[h].cie], "touch")

(* reload_satosa.  A fresh generation has brought everything to the volume. *)
Touch(h) ==
    /\ pc[h] = "touch"
    /\ touched' = TRUE
    /\ End(h)
    /\ owed' = (owed /\ h \notin fresh)
    /\ fresh' = fresh \ {h}
    /\ UNCHANGED <<db, disk, live, failed>>

------------------------------------------------------------------------------
(* A step raises or config-api dies.  (A certificate route generates without *)
(* touching: the same.)                                                      *)
Dies(h) ==
    /\ Faults
    /\ pc[h] # "idle"
    /\ End(h)
    /\ fresh' = fresh \ {h}
    /\ failed' = TRUE
    /\ UNCHANGED <<db, disk, touched, live, owed>>

(* uWSGI loads SATOSA once, from the files as they are. *)
SatosaLoad ==
    /\ touched
    /\ touched' = FALSE
    /\ live' = IF Whole(disk) THEN Loaded(disk) ELSE None
    /\ UNCHANGED <<db, disk, local, hist>>

(* The SATOSA container starts: it downloads the metadata of the provider    *)
(* that spid_backend.yaml names (without that file, of all of them) itself,  *)
(* whatever the table has, and touches .reload.                              *)
Restart ==
    /\ Faults
    /\ \/ /\ disk.named \/ disk.settings = None
          /\ \E r \in Idps \cup {IF disk.remote = None THEN "placeholder" ELSE disk.remote} :
                disk' = [disk EXCEPT !.remote = r]
       \/ ~disk.named /\ disk.settings # None /\ UNCHANGED disk
    /\ touched' = TRUE
    /\ fresh' = IF disk' = disk THEN fresh ELSE {}
    /\ owed' = (owed \/ disk' # disk)
    /\ UNCHANGED <<db, live, local, failed>>

Request(h) ==
    \/ SaveSettings(h) \/ EditClient(h) \/ ToggleIdp(h) \/ RefreshMetadata(h)
    \/ ToggleEidas(h) \/ ToggleLegal(h) \/ SaveCie(h) \/ Import(h)
    \/ DropKeys(h) \/ DeleteKey(h) \/ NewKey(h) \/ Regenerate(h)

Proceed(h) ==
    \/ NewKeys(h) \/ ReadSettings(h) \/ NoHostname(h) \/ ReadIdps(h) \/ ReadCie(h)
    \/ WriteRouter(h) \/ WriteClients(h) \/ WriteProxy(h) \/ WriteSpid(h)
    \/ WriteRemote(h) \/ LeaveRemote(h) \/ KeepRemote(h) \/ WriteBackend(h) \/ Touch(h)

Next ==
    \/ \E h \in Handlers : Request(h) \/ Proceed(h) \/ Dies(h)
    \/ SatosaLoad \/ Restart

Spec == Init /\ [][Next]_vars

------------------------------------------------------------------------------
Quiet == ~touched /\ \A h \in Handlers : pc[h] = "idle"

(* SATOSA runs with what the database holds once a generation went through   *)
(* to its end and nobody else committed, or wrote older versions, since it   *)
(* began - whatever other requests, crashes and failed downloads left on the *)
(* volume before, and however many loads met it half written.  (A provider   *)
(* without metadata in its row may be left with an older file.)              *)
Settles == ~touched /\ ~owed => live = Wanted

(* While no request dies SATOSA is up between requests, even when their      *)
(* generations overlapped: the last of them completes every file it names.   *)
UpWhenQuiet == Quiet /\ ~failed /\ disk.settings # None => live # None

(* A reload never takes SATOSA down: "ricarica i worker gracefully (zero      *)
(* downtime)" and, of the metadata files, "così SATOSA ricarica senza         *)
(* FileNotFoundError".                                                        *)
StaysUp == [][live # None => live' # None]_vars
==============================================================================
