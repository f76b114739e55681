------------------------------- MODULE SpidCerts -------------------------------
(***************************************************************************)
(* The SPID certificates: the rows of spid_cert and their is_active flag,  *)
(* the certificate and key files on the conf volume, and the pair SATOSA   *)
(* loaded.  A certificate is generated or activated in the database first  *)
(* and written to the volume afterwards, one file at a time; SATOSA reads  *)
(* the files when it is reloaded, which neither route asks for.  A backup  *)
(* import replaces every row by the bundle's certificate, or by none, then *)
(* writes the files and asks for a reload.                                 *)
(*                                                                         *)
(* Requests are coroutines with a database session each: one step per      *)
(* statement, one per file.  A request writes the flags that differ from   *)
(* those it read, and fails as a whole when such a row is gone.  The id of *)
(* a row stands for its content.                                           *)
(***************************************************************************)
EXTENDS FiniteSets

CONSTANTS
    Certs,     \* certificates with their keys; an id is used once (a bound)
    None,      \* no file yet; no certificate in a bundle
    Handlers   \* requests that may be under way at once

ASSUME NoneAssumption == None \notin Certs

VARIABLES
    rows,     \* the certificates in spid_cert
    active,   \* those with is_active
    drawn,    \* the ids used so far
    disk,     \* spid_sp_cert.pem and spid_sp_key.pem
    loaded,   \* the pair SATOSA read at its last load
    touched,  \* .reload was touched and SATOSA has not reloaded since
    pc,       \* what each request is about to do
    cert,     \* the certificate it is about
    seen,     \* the rows it read
    on,       \* those it read as active
    importing, \* the requests that are imports of a backup
    (* history *)
    asked,      \* a reload was asked for since the active one changed
    alone,      \* the request that has had no other beside it
    overlapped, \* two requests have overlapped
    failed      \* a request died, or the volume refused a write

store == <<rows, active, drawn>>
local == <<pc, cert, seen, on, importing>>
past  == <<overlapped, failed>>
hist  == <<asked, alone, past>>
vars  == <<store, disk, loaded, touched, local, hist>>

------------------------------------------------------------------------------
Pcs == {"idle", "insert", "all", "flags", "cert", "key", "delete", "import", "select", "reload"}

Pair == [cert : Certs \cup {None}, key : Certs \cup {None}]

Both(c) == [cert |-> c, key |-> c]

TypeOK ==
    /\ rows \subseteq drawn /\ active \subseteq rows /\ drawn \subseteq Certs
    /\ disk \in Pair /\ loaded \in Pair
    /\ touched \in BOOLEAN /\ asked \in BOOLEAN
    /\ pc \in [Handlers -> Pcs]
    /\ cert \in [Handlers -> Certs \cup {None}]
    /\ seen \in [Handlers -> SUBSET Certs]
    /\ on \in [Handlers -> SUBSET Certs]
    /\ importing \subseteq Handlers
    /\ alone \subseteq Handlers
    /\ overlapped \in BOOLEAN /\ failed \in BOOLEAN

Init ==
    /\ rows = {} /\ active = {} /\ drawn = {}
    /\ disk = Both(None)
    /\ loaded = Both(None)
    /\ touched = FALSE
    /\ pc = [h \in Handlers |-> "idle"]
    /\ cert = [h \in Handlers |-> None]
    /\ seen = [h \in Handlers |-> {}]
    /\ on = [h \in Handlers |-> {}]
    /\ importing = {}
    /\ asked = FALSE
    /\ alone = {}
    /\ overlapped = FALSE
    /\ failed = FALSE

Quiet == \A h \in Handlers : pc[h] = "idle"

(* A request on certificate c that read the rows s, those in a as active. *)
Become(h, next, c, s, a) ==
    /\ pc' = [pc EXCEPT ![h] = next]
    /\ cert' = [cert EXCEPT ![h] = c]
    /\ seen' = [seen EXCEPT ![h] = s]
    /\ on' = [on EXCEPT ![h] = a]
    /\ importing' = CASE next = "import" -> importing \cup {h}
                      [] next = "idle"   -> importing \ {h}
                      [] OTHER           -> importing

(* It begins. *)
Start(h, next, c, s, a) ==
    /\ pc[h] = "idle"
    /\ Become(h, next, c, s, a)
    /\ alone' = IF Quiet THEN {h} ELSE {}
    /\ overlapped' = (overlapped \/ ~Quiet)

Goto(h, next) == Become(h, next, cert[h], {}, {})

End(h) == Become(h, "idle", None, {}, {})

(* The rows that an import under way has deleted and keeps locked: whoever   *)
(* changes one waits, and finds it gone.                                     *)
Locked == UNION {seen[g] : g \in {g \in Handlers : pc[g] = "import"}}

Changeable(s) == s \subseteq rows \ Locked

------------------------------------------------------------------------------
(* certs_generate: a new pair; the existing rows. *)
GenerateRead(h) ==
    /\ \E c \in Certs \ drawn :
          /\ drawn' = drawn \cup {c}
          /\ Start(h, "insert", c, rows, active)
    /\ UNCHANGED <<rows, active, disk, loaded, touched, asked, failed>>

(* Mutant: the other rows keep their flag. *)
GenerateKeepsOld(h) ==
    /\ pc[h] = "insert"
    /\ Changeable(on[h])
    /\ rows' = rows \cup {cert[h]}
    /\ active' = active \cup {cert[h]}
    /\ asked' = FALSE
    /\ Goto(h, "cert")
    /\ UNCHANGED <<alone, past, drawn, disk, loaded, touched>>

(* Mutant: the new certificate is flagged and not stored. *)
GenerateUnstored(h) ==
    /\ pc[h] = "insert"
    /\ Changeable(on[h])
    /\ active' = (active \ on[h]) \cup {cert[h]}
    /\ asked' = FALSE
    /\ Goto(h, "cert")
    /\ UNCHANGED <<alone, past, rows, drawn, disk, loaded, touched>>

(* is_active = False on them, INSERT, commit. *)
GenerateCommit(h) ==
    /\ pc[h] = "insert"
    /\ Changeable(on[h])
    /\ rows' = rows \cup {cert[h]}
    /\ active' = (active \ on[h]) \cup {cert[h]}
    /\ asked' = FALSE
    /\ Goto(h, "cert")
    /\ UNCHANGED <<alone, past, drawn, disk, loaded, touched>>

------------------------------------------------------------------------------
(* certs_activate: the row of the certificate ... *)
ActivateRead(h, c) ==
    /\ c \in rows
    /\ Start(h, "all", c, {c}, {c} \cap active)
    /\ UNCHANGED <<store, disk, loaded, touched, asked, failed>>

(* ... and all rows; the one read before keeps the flag it had. *)
ActivateReadAll(h) ==
    /\ pc[h] = "all"
    /\ Become(h, "flags", cert[h], rows, rows \cap (on[h] \cup (active \ {cert[h]})))
    /\ UNCHANGED <<store, disk, loaded, touched, hist>>

(* The rows that get the flag and those that lose it. *)
Raised(h) == (seen[h] \cap {cert[h]}) \ on[h]

(* Mutant: no row loses it. *)
LoweredNone(h) == {}

Lowered(h) == on[h] \ {cert[h]}

(* Mutant: the certificate is activated in the database alone. *)
ActivateUnwritten(h) ==
    /\ pc[h] = "flags"
    /\ Changeable(Raised(h) \cup Lowered(h))
    /\ active' = (active \ Lowered(h)) \cup Raised(h)
    /\ asked' = FALSE
    /\ End(h)
    /\ UNCHANGED <<alone, past, rows, drawn, disk, loaded, touched>>

(* c.is_active = (c.id == cert_id) on all of them, commit. *)
ActivateCommit(h) ==
    /\ pc[h] = "flags"
    /\ Changeable(Raised(h) \cup Lowered(h))
    /\ active' = (active \ Lowered(h)) \cup Raised(h)
    /\ asked' = FALSE
    /\ Goto(h, "cert")
    /\ UNCHANGED <<alone, past, rows, drawn, disk, loaded, touched>>

(* Nothing is committed: a row to be changed was deleted since, or the       *)
(* database refuses what is inserted (a restored row took the number that    *)
(* its sequence gives next; a bundle of another version).                    *)
CommitFails(h) ==
    /\ \/ pc[h] \in {"insert", "import"}
       \/ pc[h] = "flags" /\ ~Changeable(Raised(h) \cup Lowered(h))
    /\ End(h)
    /\ UNCHANGED <<store, disk, loaded, touched, hist>>

------------------------------------------------------------------------------
(* backup_import: every row is deleted, for the certificate of the bundle,   *)
(* one stored earlier or another installation's, if it has any ...           *)
ImportDelete(h) ==
    /\ \E c \in ({None} \cup Certs) \ {cert[g] : g \in {g \in Handlers : pc[g] = "insert"}} :
          /\ drawn' = drawn \cup ({c} \ {None})
          /\ Start(h, "import", c, rows, {})
    /\ UNCHANGED <<rows, active, disk, loaded, touched, asked, failed>>

Bundled(h) == {cert[h]} \ {None}

(* ... which becomes the active one, whatever flag it had.  Rows committed    *)
(* since the delete stay.                                                    *)
ImportCommit(h) ==
    /\ pc[h] = "import"
    /\ Bundled(h) \cap (rows \ seen[h]) = {}
    /\ rows' = (rows \ seen[h]) \cup Bundled(h)
    /\ active' = (active \ seen[h]) \cup Bundled(h)
    /\ asked' = FALSE
    /\ Goto(h, "select")
    /\ UNCHANGED <<alone, past, drawn, disk, loaded, touched>>

(* A certificate that is active now is read again for its files. *)
ImportSelect(h) ==
    /\ pc[h] = "select"
    /\ \/ \E c \in active : Become(h, "cert", c, {}, {})
       \/ active = {} /\ Become(h, "reload", None, {}, {})
    /\ UNCHANGED <<store, disk, loaded, touched, hist>>

(* The volume refuses a file: the import goes on to the reload. *)
ImportUnwritten(h) ==
    /\ h \in importing
    /\ pc[h] \in {"select", "cert", "key"}
    /\ Become(h, "reload", None, {}, {})
    /\ failed' = TRUE
    /\ UNCHANGED <<store, disk, loaded, touched, asked, alone, overlapped>>

------------------------------------------------------------------------------
(* write_spid_cert: one file, then the other.  generate_and_write follows    *)
(* and writes neither; an import goes on to the reload.                      *)
WriteCert(h) ==
    /\ pc[h] = "cert"
    /\ disk' = [disk EXCEPT !.cert = cert[h]]
    /\ Goto(h, "key")
    /\ UNCHANGED <<store, loaded, touched, hist>>

(* Mutant: the key on the volume stays. *)
WriteKeyKept(h) ==
    /\ pc[h] = "key"
    /\ disk' = [disk EXCEPT !.key = IF disk.key = None THEN cert[h] ELSE disk.key]
    /\ IF h \in importing THEN Goto(h, "reload") ELSE End(h)
    /\ UNCHANGED <<store, loaded, touched, hist>>

WriteKey(h) ==
    /\ pc[h] = "key"
    /\ disk' = [disk EXCEPT !.key = cert[h]]
    /\ IF h \in importing THEN Goto(h, "reload") ELSE End(h)
    /\ UNCHANGED <<store, loaded, touched, hist>>

(* Mutant: any certificate may be deleted. *)
DeleteAny(h, c) ==
    /\ c \in rows
    /\ Start(h, "delete", c, {}, {})
    /\ UNCHANGED <<store, disk, loaded, touched, asked, failed>>

(* certs_delete: check, then DELETE in a later round trip. *)
DeleteRead(h, c) ==
    /\ c \in rows \ active
    /\ Start(h, "delete", c, {}, {})
    /\ UNCHANGED <<store, disk, loaded, touched, asked, failed>>

DeleteCommit(h) ==
    /\ pc[h] = "delete"
    /\ rows' = rows \ ({cert[h]} \ Locked)
    /\ active' = active \ ({cert[h]} \ Locked)
    /\ End(h)
    /\ UNCHANGED <<drawn, disk, loaded, touched, hist>>

(* metadata_regenerate: generate_and_write, then reload_satosa. *)
Regenerate(h) ==
    /\ Start(h, "reload", None, {}, {})
    /\ UNCHANGED <<store, disk, loaded, touched, asked, failed>>

Reload(h) ==
    /\ pc[h] = "reload"
    /\ touched' = TRUE
    /\ asked' = TRUE
    /\ End(h)
    /\ UNCHANGED <<alone, past, store, disk, loaded>>

(* A request dies, or a file is refused to the other routes, or the           *)
(* configuration cannot be generated: the error is swallowed.                *)
Dies(h) ==
    /\ pc[h] # "idle"
    /\ End(h)
    /\ failed' = TRUE
    /\ UNCHANGED <<store, disk, loaded, touched, asked, alone, overlapped>>

------------------------------------------------------------------------------
(* Any other route, or the watcher, reloads SATOSA. *)
OtherReload ==
    /\ touched' = TRUE
    /\ UNCHANGED <<store, disk, loaded, local, hist>>

SatosaLoad ==
    /\ touched
    /\ loaded' = disk
    /\ touched' = FALSE
    /\ UNCHANGED <<store, disk, local, hist>>

Proceed(h) ==
    \/ GenerateCommit(h) \/ ActivateReadAll(h) \/ ActivateCommit(h) \/ CommitFails(h)
    \/ ImportCommit(h) \/ ImportSelect(h)
    \/ WriteCert(h) \/ WriteKey(h) \/ DeleteCommit(h) \/ Reload(h)

Next ==
    \/ \E h \in Handlers :
          \/ GenerateRead(h) \/ ImportDelete(h) \/ Regenerate(h)
          \/ Proceed(h) \/ ImportUnwritten(h) \/ Dies(h)
          \/ \E c \in Certs : ActivateRead(h, c) \/ DeleteRead(h, c)
    \/ OtherReload
    \/ SatosaLoad

Spec == Init /\ [][Next]_vars

------------------------------------------------------------------------------
(* One certificate is active at a time ("Un solo SpidCert.is_active = True   *)
(* alla volta"): nothing in the database enforces it, only the order in      *)
(* which generate, activate and import rewrite the flags.  Requests that     *)
(* overlap break it; deaths half-way do not.                                 *)
OneActive == ~overlapped => \A c, d \in active : c = d

(* SPID loses its last active certificate only to a request that another has *)
(* overlapped (a delete whose check is stale, say) or to a backup without    *)
(* one, whatever overlaps and deaths went before: no sequence of requests    *)
(* takes it away one after the other.                                        *)
ActiveKept ==
    [][active # {} /\ active' = {}
          => \E h \in Handlers :
                /\ pc'[h] # pc[h]
                /\ h \in alone => pc[h] = "import" /\ cert[h] = None]_vars

(* Between requests the files are those of the active certificate, until     *)
(* requests overlap or fail.                                                 *)
FilesFollow == ~overlapped /\ ~failed /\ Quiet => \A c \in active : disk = Both(c)

(* metadata_regenerate gives "uno snapshot di metadata fresco firmato con il *)
(* certificato attivo corrente": once SATOSA has reloaded it has the pair of *)
(* the active certificate, unless another was activated since - until        *)
(* requests overlap or fail.                                                 *)
RegenerateSigns ==
    ~overlapped /\ ~failed /\ asked /\ ~touched => \A c \in active : loaded = Both(c)

(* Whatever overlapping requests or deaths left behind, generating,          *)
(* activating or restoring a certificate with no other request beside it     *)
(* makes it the only active one and the one on the volume.                   *)
Mends ==
    [][\A h \in alone : pc[h] = "key" /\ disk'.key = cert[h]
          => active' = {cert[h]} /\ disk' = Both(cert[h])]_vars
==============================================================================
