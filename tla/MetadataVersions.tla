--------------------------- MODULE MetadataVersions ---------------------------
(***************************************************************************)
(* The history of the SPID SP metadata, the "Esposto" badge, and the        *)
(* document SATOSA really serves.                                          *)
(*                                                                         *)
(* Three parties share no lock: the config-api request handlers (asyncio   *)
(* coroutines with a database session each), the conf volume, and SATOSA,   *)
(* which loads the configuration when it is reloaded and reports the        *)
(* metadata it built with a POST that nobody repeats.  A handler gives up   *)
(* control at every await: one step per database round trip.               *)
(*                                                                         *)
(* A generated document is determined by the settings it was built from     *)
(* (its hash is taken before the signature), so it is named by them.       *)
(***************************************************************************)
EXTENDS Integers, FiniteSetsExt

CONSTANTS
    Settings,  \* values of the eIDAS and legal-entity toggles
    Uploads,   \* documents an administrator may upload
    None,      \* no document, no settings
    Handlers,  \* request handlers of config-api
    Scenarios, \* what a behaviour may hold besides: sets of Events
    MaxRows,   \* bound: rows ever inserted
    MaxCrowded \* bound: the same where requests overlap

(* Requests to config-api overlap; SATOSA restarts, reports are lost, handlers *)
(* die, generation fails; versions are uploaded, validated or deleted.         *)
Events == {"overlaps", "faults", "uploads", "validations", "deletions"}

ASSUME ScenariosAssumption == Scenarios \subseteq SUBSET Events
ASSUME NoneAssumption == None \notin Settings \cup Uploads
ASSUME DocsAssumption == Settings \cap Uploads = {}
ASSUME HandlersAssumption == IsFiniteSet(Handlers)
ASSUME MaxRowsAssumption == MaxRows \in Nat \ {0} /\ MaxCrowded \in 0..MaxRows

VARIABLES
    rows,      \* spid_metadata_version, by id; None where there is no row
    nextId,    \* the id the next insert gets
    settings,  \* the toggles in ente_settings
    conf,      \* the toggles in spid_backend.yaml on the volume
    override,  \* content of spid_sp_metadata_override.xml, or None
    touched,   \* .reload was touched and SATOSA has not reloaded since
    live,      \* the document SATOSA built at its last load
    report,    \* the snapshot POST SATOSA has sent and no handler accepted
    req,       \* the request each handler serves
    scenario,  \* which of Scenarios it is
    (* history *)
    marred,    \* something happened that the badge does not survive
    clashed,   \* requests overlapped by another that touches the badge
    hurried    \* the toggles changed before SATOSA had reported the last ones

db   == <<rows, nextId, settings>>
vol  == <<conf, override, touched>>
hist == <<marred, clashed, hurried>>
vars == <<db, vol, live, report, req, hist, scenario>>

------------------------------------------------------------------------------
Ids  == 1..MaxRows
Docs == Settings \cup Uploads

Row == [src : {"generated", "uploaded"}, doc : Docs, conf : Settings \cup {None},
        exposed : BOOLEAN, validated : BOOLEAN, at : Nat]

ASSUME NoRowAssumption == None \notin Row

Rows       == {i \in Ids : rows[i] # None}
Generated  == {i \in Rows : rows[i].src = "generated"}
Exposed    == {i \in Rows : rows[i].exposed}

(* ORDER BY id DESC LIMIT 1, over the generated rows; 0 when there is none *)
LastById == IF Generated = {} THEN 0 ELSE Max(Generated)

LastDoc == IF LastById = 0 THEN None ELSE rows[LastById].doc

(* ORDER BY created_at DESC, id DESC: created_at is the start of the         *)
(* inserting transaction, which need not be the order of the ids.           *)
LastByDate ==
    IF Generated = {} THEN 0
    ELSE CHOOSE i \in Generated :
            \A j \in Generated :
               rows[j].at < rows[i].at \/ (rows[j].at = rows[i].at /\ j <= i)

(* The time of a transaction that begins now, later than every one recorded. *)
Now == 1 + Max({0} \cup {rows[i].at : i \in Rows} \cup {req[h].at : h \in Handlers})

(* What /spidSaml2/metadata answers (_metadata_endpoint) *)
Served == IF override # None THEN override ELSE live

Pcs == {"idle", "sn_insert", "sn_clear", "ex_latest", "ex_all", "ex_commit",
        "ex_file", "ex_restore", "va_all", "va_commit", "upload", "write", "reload", "delete"}

(* What a request has read: the version, its document and toggles, the last   *)
(* version and whether it is exposed, the flags of the rows seen.             *)
Requests == [pc : Pcs, row : 0..MaxRows, doc : Docs \cup {None}, conf : Settings \cup {None},
             latest : 0..MaxRows, live : BOOLEAN, at : Nat,
             seen : UNION {[is -> BOOLEAN] : is \in SUBSET Ids}]

NothingSeen == [i \in {} |-> FALSE]

NoRequest == [pc |-> "idle", row |-> 0, doc |-> None, conf |-> None,
              latest |-> 0, live |-> FALSE, at |-> 0, seen |-> NothingSeen]

TypeOK ==
    /\ rows \in [Ids -> Row \cup {None}]
    /\ nextId \in 1..MaxRows + 1
    /\ settings \in Settings /\ conf \in Settings
    /\ override \in Docs \cup {None}
    /\ touched \in BOOLEAN
    /\ live \in Settings
    /\ report \in Settings \cup {None}
    /\ req \in [Handlers -> Requests]
    /\ marred \in BOOLEAN
    /\ clashed \subseteq Handlers
    /\ hurried \in BOOLEAN
    /\ scenario \in Scenarios

(* First boot: generated with the stored toggles, loaded, reported. *)
Init ==
    /\ rows = [i \in Ids |-> None]
    /\ nextId = 1
    /\ settings \in Settings
    /\ conf = settings
    /\ override = None
    /\ touched = FALSE
    /\ live = settings
    /\ report = settings
    /\ req = [h \in Handlers |-> NoRequest]
    /\ marred = FALSE
    /\ clashed = {}
    /\ hurried = FALSE
    /\ scenario \in Scenarios

------------------------------------------------------------------------------
Busy == {h \in Handlers : req[h].pc # "idle"}
CanStart(h) == req[h].pc = "idle" /\ (Busy # {} => "overlaps" \in scenario)

(* Requests that give the badge, take it, or rely on it *)
Badge == {"sn_insert", "sn_clear", "ex_latest", "ex_all", "ex_commit", "ex_file",
          "ex_restore", "delete"}

Meets(others, h) ==
    /\ clashed' = clashed \cup others \cup {g \in {h} : others # {}}
    /\ marred' = (marred \/ others # {})

Begin(h, r) ==
    /\ req' = [req EXCEPT ![h] = r]
    /\ Meets({g \in Handlers : {req[g].pc, r.pc} \subseteq Badge}, h)

(* What a request keeps is what its next steps use. *)
Continue(h, r) == req' = [req EXCEPT ![h] = r] /\ UNCHANGED clashed
Move(h, label) == Continue(h, [req[h] EXCEPT !.pc = label, !.seen = NothingSeen])
Done(h) == req' = [req EXCEPT ![h] = NoRequest] /\ clashed' = clashed \ {h}

(* The last toggles are on the volume, loaded and reported. *)
Settled ==
    /\ ~touched /\ report = None
    /\ \A h \in Handlers : req[h].pc \notin {"write", "reload", "sn_insert"}

Insert(row) ==
    /\ nextId <= IF "overlaps" \in scenario THEN MaxCrowded ELSE MaxRows
    /\ rows' = [rows EXCEPT ![nextId] = row]
    /\ nextId' = nextId + 1

(* The flags of the rows `is`.  SQLAlchemy loads an object once per session:  *)
(* a later SELECT does not refresh a flag the request has already seen.      *)
See(h, flag, is) ==
    [i \in is |->
        IF i \in DOMAIN req[h].seen THEN req[h].seen[i] ELSE rows[i][flag]]

(* v.flag = (v.id == version_id) over all rows, then commit: it UPDATEs only *)
(* the rows of the last SELECT whose flag differs from the one seen, and     *)
(* fails as a whole when one of them is gone.  A version deleted before that *)
(* SELECT is not among them: the others lose the flag, none gets it.         *)
CommitFlag(h, flag, next) ==
    LET v == req[h].row
        changed == {i \in DOMAIN req[h].seen : req[h].seen[i] # (i = v)}
    IN  IF changed \subseteq Rows
          THEN /\ rows' = [i \in Ids |-> IF i \in changed
                                          THEN [rows[i] EXCEPT ![flag] = (i = v)]
                                          ELSE rows[i]]
               /\ next
          ELSE Done(h) /\ UNCHANGED rows

------------------------------------------------------------------------------
(* log_metadata_snapshot: SELECT the last generated row.  The same document  *)
(* again is not a new version.                                               *)
SnapshotKnown(h) ==
    /\ CanStart(h) /\ report # None
    /\ LastDoc = report
    /\ report' = None
    /\ LET met == {g \in Handlers : req[g].pc \in Badge}
       IN  clashed' = clashed \cup met /\ marred' = (marred \/ met # {})
    /\ UNCHANGED <<db, vol, live, req, hurried>>

SnapshotNew(h) ==
    /\ CanStart(h) /\ report # None
    /\ LastDoc # report
    /\ Begin(h, [NoRequest EXCEPT
          !.pc = "sn_insert", !.doc = report, !.row = LastById, !.at = Now,
          !.live = LastById # 0 /\ rows[LastById].exposed])
    /\ report' = None
    /\ UNCHANGED <<db, vol, live, hurried>>

(* Mutant: the badge is taken from the last version and not given on. *)
SnapshotInsertUnexposed(h) ==
    /\ req[h].pc = "sn_insert"
    /\ Insert([src |-> "generated", doc |-> req[h].doc, conf |-> settings,
               exposed |-> req[h].row = 0, validated |-> FALSE, at |-> req[h].at])
    /\ IF req[h].live THEN Move(h, "sn_clear") ELSE Done(h)
    /\ marred' = (marred \/ (req[h].row = 0 /\ Exposed # {}))
    /\ UNCHANGED <<settings, vol, live, report, hurried>>

(* Read the toggles, INSERT, commit. *)
SnapshotInsert(h) ==
    /\ req[h].pc = "sn_insert"
    /\ Insert([src |-> "generated", doc |-> req[h].doc, conf |-> settings,
               exposed |-> req[h].row = 0 \/ req[h].live, validated |-> FALSE,
               at |-> req[h].at])
    /\ IF req[h].live THEN Move(h, "sn_clear") ELSE Done(h)
    /\ marred' = (marred \/ (req[h].row = 0 /\ Exposed # {}))
    /\ UNCHANGED <<settings, vol, live, report, hurried>>

(* The second commit: last_row.is_exposed = False. *)
SnapshotClear(h) ==
    /\ req[h].pc = "sn_clear"
    /\ rows' = IF req[h].row \in Rows
                 THEN [rows EXCEPT ![req[h].row].exposed = FALSE] ELSE rows
    /\ Done(h)
    /\ UNCHANGED <<nextId, settings, vol, live, report, marred, hurried>>

------------------------------------------------------------------------------
(* metadata_expose: SELECT the version, the latest generated one, all rows. *)
ExposeStart(h, v) ==
    /\ CanStart(h)
    /\ v \in Rows
    /\ Begin(h, [NoRequest EXCEPT
          !.pc = "ex_latest", !.row = v, !.doc = rows[v].doc, !.conf = rows[v].conf,
          !.seen = [i \in {v} |-> rows[v].exposed]])
    /\ UNCHANGED <<db, vol, live, report, hurried>>

ExposeLatest(h) ==
    /\ req[h].pc = "ex_latest"
    /\ req' = [req EXCEPT ![h].pc = "ex_all",
                          ![h].latest = LastByDate,
                          ![h].seen = See(h, "exposed", DOMAIN req[h].seen
                                                 \cup (Generated \cap {LastByDate}))]
    /\ UNCHANGED <<db, vol, live, report, hist>>

ExposeAll(h) ==
    /\ req[h].pc = "ex_all"
    /\ req' = [req EXCEPT ![h].pc = "ex_commit", ![h].seen = See(h, "exposed", Rows)]
    /\ UNCHANGED <<db, vol, live, report, hist>>

ExposeCommit(h) ==
    /\ req[h].pc = "ex_commit"
    /\ CommitFlag(h, "exposed", Move(h, "ex_file"))
    /\ UNCHANGED <<nextId, settings, vol, live, report, marred, hurried>>

(* An expose that no other overlaps and that meets an up-to-date history     *)
(* mends what went wrong before.                                             *)
Mends(h) == h \notin clashed /\ LastDoc = live /\ req[h].latest = LastById /\ report = None

(* Mutant: exposing the newest version leaves the old override in place. *)
ExposeFileKeeps(h) ==
    /\ req[h].pc = "ex_file"
    /\ override' = IF req[h].latest = req[h].row THEN override ELSE req[h].doc
    /\ Continue(h, [NoRequest EXCEPT !.pc = "ex_restore", !.conf = req[h].conf])
    /\ marred' = (marred /\ ~Mends(h))
    /\ UNCHANGED <<db, conf, touched, live, report, hurried>>

(* Mutant: the override holds the id of the version, not its document. *)
ExposeFileId(h) ==
    /\ req[h].pc = "ex_file"
    /\ override' = IF req[h].latest = req[h].row THEN None ELSE req[h].row
    /\ Continue(h, [NoRequest EXCEPT !.pc = "ex_restore", !.conf = req[h].conf])
    /\ marred' = (marred /\ ~Mends(h))
    /\ UNCHANGED <<db, conf, touched, live, report, hurried>>

(* The newest generated version needs no override; any other is written to   *)
(* it with an atomic replace.                                                *)
ExposeFile(h) ==
    /\ req[h].pc = "ex_file"
    /\ override' = IF req[h].latest = req[h].row THEN None ELSE req[h].doc
    /\ Continue(h, [NoRequest EXCEPT !.pc = "ex_restore", !.conf = req[h].conf])
    /\ marred' = (marred /\ ~Mends(h))
    /\ UNCHANGED <<db, conf, touched, live, report, hurried>>

(* "Esponi" also restores the toggles the version was stored with. *)
ExposeRestore(h) ==
    /\ req[h].pc = "ex_restore"
    /\ IF req[h].conf \notin {None, settings}
         THEN settings' = req[h].conf /\ hurried' = ~Settled /\ Move(h, "write")
         ELSE Done(h) /\ UNCHANGED <<settings, hurried>>
    /\ UNCHANGED <<rows, nextId, vol, live, report, marred>>

------------------------------------------------------------------------------
(* Mutant: the generator reads the toggles before they are set. *)
ToggleStale(h, c) ==
    /\ CanStart(h)
    /\ c # settings
    /\ settings' = c
    /\ hurried' = ~Settled
    /\ Begin(h, [NoRequest EXCEPT !.pc = "write", !.conf = settings])
    /\ UNCHANGED <<rows, nextId, vol, live, report>>

(* An admin route, or the import of a backup, commits new toggles, then      *)
(* generates and reloads.  The generator finds the settings object the       *)
(* session already holds.                                                    *)
Toggle(h, c) ==
    /\ CanStart(h)
    /\ c # settings
    /\ settings' = c
    /\ hurried' = ~Settled
    /\ Begin(h, [NoRequest EXCEPT !.pc = "write", !.conf = c])
    /\ UNCHANGED <<rows, nextId, vol, live, report>>

(* metadata_regenerate *)
Regenerate(h) ==
    /\ CanStart(h)
    /\ hurried' = (hurried /\ ~Settled)
    /\ Begin(h, [NoRequest EXCEPT !.pc = "write", !.conf = settings])
    /\ UNCHANGED <<db, vol, live, report>>

(* generate_and_write, then reload_satosa *)
Write(h) ==
    /\ req[h].pc = "write"
    /\ conf' = req[h].conf
    /\ Continue(h, [NoRequest EXCEPT !.pc = "reload"])
    /\ UNCHANGED <<db, override, touched, live, report, marred, hurried>>

Reload(h) ==
    /\ req[h].pc = "reload"
    /\ touched' = TRUE
    /\ Done(h)
    /\ UNCHANGED <<db, conf, override, live, report, marred, hurried>>

(* metadata_upload: look for a duplicate, then INSERT. *)
UploadCheck(h, d) ==
    /\ "uploads" \in scenario
    /\ CanStart(h)
    /\ ~\E i \in Rows : rows[i].src = "uploaded" /\ rows[i].doc = d
    /\ Begin(h, [NoRequest EXCEPT !.pc = "upload", !.doc = d])
    /\ UNCHANGED <<db, vol, live, report, hurried>>

UploadInsert(h) ==
    /\ req[h].pc = "upload"
    /\ Insert([src |-> "uploaded", doc |-> req[h].doc, conf |-> None, exposed |-> FALSE,
               validated |-> FALSE, at |-> 0])
    /\ Done(h)
    /\ UNCHANGED <<settings, vol, live, report, marred, hurried>>

(* metadata_validate *)
ValidateStart(h, v) ==
    /\ "validations" \in scenario
    /\ CanStart(h)
    /\ v \in Rows
    /\ Begin(h, [NoRequest EXCEPT
          !.pc = "va_all", !.row = v, !.seen = [i \in {v} |-> rows[v].validated]])
    /\ UNCHANGED <<db, vol, live, report, hurried>>

ValidateAll(h) ==
    /\ req[h].pc = "va_all"
    /\ req' = [req EXCEPT ![h].pc = "va_commit", ![h].seen = See(h, "validated", Rows)]
    /\ UNCHANGED <<db, vol, live, report, hist>>

ValidateCommit(h) ==
    /\ req[h].pc = "va_commit"
    /\ CommitFlag(h, "validated", Done(h))
    /\ UNCHANGED <<nextId, settings, vol, live, report, marred, hurried>>

(* Mutant: only validated versions are kept. *)
DeleteCheckValidated(h, v) ==
    /\ "deletions" \in scenario
    /\ CanStart(h)
    /\ v \in Rows /\ ~rows[v].validated
    /\ Begin(h, [NoRequest EXCEPT !.pc = "delete", !.row = v])
    /\ UNCHANGED <<db, vol, live, report, hurried>>

(* metadata_delete: check, then delete in a later round trip. *)
DeleteCheck(h, v) ==
    /\ "deletions" \in scenario
    /\ CanStart(h)
    /\ v \in Rows /\ ~rows[v].exposed /\ ~rows[v].validated
    /\ Begin(h, [NoRequest EXCEPT !.pc = "delete", !.row = v])
    /\ UNCHANGED <<db, vol, live, report, hurried>>

DeleteCommit(h) ==
    /\ req[h].pc = "delete"
    /\ rows' = [rows EXCEPT ![req[h].row] = None]
    /\ marred' = (marred \/ req[h].row = LastById)
    /\ Done(h)
    /\ UNCHANGED <<nextId, settings, vol, live, report, hurried>>

------------------------------------------------------------------------------
(* SATOSA loads: uWSGI loads the application once and forks its workers, so  *)
(* every load builds one document and reports it once.                       *)
SatosaLoads ==
    /\ report = None
    /\ live' = conf
    /\ report' = conf
    /\ touched' = FALSE
    /\ UNCHANGED <<db, conf, override, req, marred, clashed>>

SatosaLoad ==
    /\ touched
    /\ SatosaLoads
    /\ UNCHANGED hurried

(* The container starts again, also while new toggles are being generated. *)
SatosaRestart ==
    /\ "faults" \in scenario
    /\ SatosaLoads
    /\ hurried' = (hurried \/ \E h \in Handlers : req[h].pc = "write")

(* The POST times out or config-api is down; nobody sends it again. *)
LoseReport ==
    /\ "faults" \in scenario
    /\ report # None
    /\ report' = None
    /\ marred' = TRUE
    /\ UNCHANGED <<db, vol, live, req, clashed, hurried>>

(* config-api dies, or the database or the volume refuses a step. *)
Kill(h) ==
    /\ "faults" \in scenario
    /\ req[h].pc # "idle"
    /\ Done(h)
    /\ marred' = (marred \/ req[h].pc \in {"sn_insert", "sn_clear", "ex_file"})
    /\ hurried' = (hurried \/ req[h].pc \in {"write", "reload"})
    /\ UNCHANGED <<db, vol, live, report>>

Request(h) ==
    \/ SnapshotKnown(h) \/ SnapshotNew(h)
    \/ \E v \in Ids : ExposeStart(h, v) \/ ValidateStart(h, v) \/ DeleteCheck(h, v)
    \/ \E c \in Settings : Toggle(h, c)
    \/ \E d \in Uploads : UploadCheck(h, d)
    \/ Regenerate(h)

Proceed(h) ==
    \/ SnapshotInsert(h) \/ SnapshotClear(h)
    \/ ExposeLatest(h) \/ ExposeAll(h) \/ ExposeCommit(h)
    \/ ExposeFile(h) \/ ExposeRestore(h)
    \/ UploadInsert(h) \/ ValidateAll(h) \/ ValidateCommit(h)
    \/ Write(h) \/ Reload(h) \/ DeleteCommit(h)

Next ==
    /\ \/ \E h \in Handlers : Request(h) \/ Proceed(h) \/ Kill(h)
       \/ SatosaLoad \/ SatosaRestart \/ LoseReport
    /\ UNCHANGED scenario

Spec == Init /\ [][Next]_vars

------------------------------------------------------------------------------
(* Nothing is under way between the database, the volume and SATOSA. *)
Quiet == Busy = {} /\ report = None

(* The badge tells the truth: once nothing is under way, exactly one version *)
(* is exposed and it is the document SATOSA serves - after any sequence of   *)
(* toggles, uploads, exposures and reloads that did not mar it.              *)
BadgeHonest ==
    Quiet /\ ~marred
      => \E i \in Rows : Exposed = {i} /\ rows[i].doc = Served

(* The same without that proviso, for requests that do not overlap and do not     *)
(* fail: the comment in log_metadata_snapshot on the badge.                  *)
BadgeNeverLies ==
    Quiet /\ Exposed # {} => \E i \in Exposed : rows[i].doc = Served

(* A step of a request that another one overlapped *)
Clashing == \E h \in clashed : req'[h] # req[h]

(* A version on the badge is not deleted from under it ("Impossibile         *)
(* eliminare una versione esposta o validata"), unless the deletion was       *)
(* checked before an overlapping request exposed it.                         *)
ExposedNotDeleted ==
    [][\A i \in Exposed : rows'[i] # None \/ Clashing]_vars

(* The history never loses its badge, also when a request dies between the  *)
(* commit that gives it to one version and the one that takes it from       *)
(* another, or between the database and the override file: only requests    *)
(* that overlap can take it away.                                           *)
BadgeKept == [][Exposed # {} => Exposed' # {} \/ Clashing]_vars

(* The toggles stored with a version, which its exposure will restore, are   *)
(* those it was built from, though they are read when its report arrives:     *)
(* unless they were changed while the last ones were on their way to SATOSA   *)
(* or never reached it.                                                       *)
TogglesHonest ==
    [][\A i \in Generated' \ Rows : rows'[i].conf = rows'[i].doc \/ hurried]_vars
=============================================================================
