------------------------------ MODULE EidasNode -------------------------------
(***************************************************************************)
(* eIDAS on or off, and which of the two nodes serves it.                  *)
(*                                                                         *)
(* The choice is stored twice: as columns of ente_settings, from which the *)
(* SP metadata is built (ficep_enable), and as the `enabled` flags of the  *)
(* rows eidas-qa and eidas-prod of spid_idps, from which the discovery     *)
(* page and ficep_entity_id are.  POST /admin/eidas/toggle writes both;    *)
(* POST /admin/metadata/{id}/expose restores the columns alone, the toggle *)
(* of /admin/idps flips one row alone, and the import of a backup replaces *)
(* settings and rows by the bundle's (which has both rows: the seeder adds *)
(* them).                                                                  *)
(*                                                                         *)
(* A request holds what it read in memory.  Its session writes an object   *)
(* when the next SELECT flushes it, only the columns that differ from what *)
(* was read, and the row stays locked until the commit (READ COMMITTED):   *)
(* another request still reads the committed row, and its UPDATE waits.    *)
(***************************************************************************)
CONSTANT EidasRequests   \* requests under way at most

VARIABLES
    eset,    \* the committed columns of ente_settings
    enode,   \* the committed `enabled` of the two rows
    ereq,    \* the requests
    (* history *)
    ealone,  \* requests that no other has overlapped so far
    eapart   \* what was written to one of the two places alone

eidasVars == <<eset, enode, ereq, ealone, eapart>>

------------------------------------------------------------------------------
Nodes    == {"qa", "prod"}
Toggles  == [on : BOOLEAN, env : Nodes]
Columns  == {"on", "env"}

(* A request: the toggles it wants, or the row it flips; the columns and rows *)
(* that differ from what it read.  An import: the toggles and the rows that   *)
(* are on in the bundle.                                                      *)
EidasIdle == [pc |-> "idle", want |-> [on |-> FALSE, env |-> "prod"], node |-> "prod",
              cols |-> {}, nodes |-> {}]
EidasReqs == [pc : {"idle", "qa", "prod", "save", "restore", "flip", "import"}, want : Toggles,
              node : Nodes, cols : SUBSET Columns, nodes : SUBSET Nodes]

(* The flag of a row that agrees with the toggles *)
Wanted(t, n) == t.on /\ t.env = n

EidasTypeOK ==
    /\ eset \in Toggles
    /\ enode \in [Nodes -> BOOLEAN]
    /\ ereq \in [EidasRequests -> EidasReqs]
    /\ ealone \subseteq EidasRequests
    /\ eapart \in {"no", "settings", "rows"}

(* seed_spid_idps and the defaults of ente_settings *)
EidasInit ==
    /\ eset = [on |-> FALSE, env |-> "prod"]
    /\ enode = [n \in Nodes |-> FALSE]
    /\ ereq = [r \in EidasRequests |-> EidasIdle]
    /\ ealone = {}
    /\ eapart = "no"

------------------------------------------------------------------------------
EidasBusy == {r \in EidasRequests : ereq[r].pc # "idle"}

EidasBegin(r, q) ==
    /\ ereq[r].pc = "idle"
    /\ ereq' = [ereq EXCEPT ![r] = q]
    /\ ealone' = IF EidasBusy = {} THEN {r} ELSE {}
    /\ UNCHANGED <<eset, enode, eapart>>

EidasEnd(r) ==
    /\ ereq' = [ereq EXCEPT ![r] = EidasIdle]
    /\ ealone' = ealone \ {r}

(* The columns of `want` that are not what the request reads now *)
Differing(want) == {c \in Columns : eset[c] # want[c]}

(* Rows an unfinished request has written: the settings are flushed by the    *)
(* SELECT of eidas-qa, that row by the SELECT of eidas-prod; an import has    *)
(* deleted them all.  Whoever waited for a deleted row aborts, a later UPDATE *)
(* finds the new one.                                                         *)
SettingsFree(r) ==
    \A q \in EidasRequests \ {r} :
       /\ ereq[q].pc # "import"
       /\ ereq[q].pc \in {"prod", "save"} => ereq[q].cols = {}
NodeFree(r, n) ==
    \A q \in EidasRequests \ {r} :
       /\ ereq[q].pc # "import"
       /\ n = "qa" /\ ereq[q].pc = "save" => "qa" \notin ereq[q].nodes

(* eidas_toggle reads the settings and sets them. *)
EidasToggle(r, want) ==
    EidasBegin(r, [EidasIdle EXCEPT !.pc = "qa", !.want = want, !.cols = Differing(want)])

(* Mutant: a node is switched on, the other is not switched off. *)
EidasReadNodeOn(r, n) ==
    /\ ereq' = [ereq EXCEPT
          ![r].pc = IF n = "qa" THEN "prod" ELSE "save",
          ![r].nodes = IF ~enode[n] /\ Wanted(ereq[r].want, n) THEN @ \cup {n} ELSE @]
    /\ UNCHANGED <<eset, enode, ealone, eapart>>

(* It reads a row and sets its flag, after the flush of what it set before. *)
EidasReadNode(r, n) ==
    /\ ereq' = [ereq EXCEPT
          ![r].pc = IF n = "qa" THEN "prod" ELSE "save",
          ![r].nodes = IF enode[n] # Wanted(ereq[r].want, n) THEN @ \cup {n} ELSE @]
    /\ UNCHANGED <<eset, enode, ealone, eapart>>

EidasReadQa(r) ==
    /\ ereq[r].pc = "qa"
    /\ ereq[r].cols # {} => SettingsFree(r)
    /\ EidasReadNode(r, "qa")

EidasReadProd(r) ==
    /\ ereq[r].pc = "prod"
    /\ "qa" \in ereq[r].nodes => NodeFree(r, "qa")
    /\ EidasReadNode(r, "prod")

(* What is flushed: the columns that differ *)
StoredToggles(q) == [c \in Columns |-> IF c \in q.cols THEN q.want[c] ELSE eset[c]]

(* The commit writes what differed; alone, it leaves everything agreeing. *)
EidasSave(r) ==
    /\ ereq[r].pc = "save"
    /\ "prod" \in ereq[r].nodes => NodeFree(r, "prod")
    /\ eset' = StoredToggles(ereq[r])
    /\ enode' = [n \in Nodes |-> IF n \in ereq[r].nodes THEN Wanted(ereq[r].want, n)
                                 ELSE enode[n]]
    /\ EidasEnd(r)
    /\ eapart' = IF r \in ealone THEN "no" ELSE "rows"

(* metadata_expose, once the badge and the file are written: the toggles that *)
(* the version carries are read, compared and stored.                         *)
RestoreToggles(r, want) ==
    EidasBegin(r, [EidasIdle EXCEPT !.pc = "restore", !.want = want, !.cols = Differing(want)])

RestoreSave(r) ==
    /\ ereq[r].pc = "restore"
    /\ ereq[r].cols # {} => SettingsFree(r)
    /\ eset' = StoredToggles(ereq[r])
    /\ EidasEnd(r)
    /\ eapart' = IF eapart = "no" /\ ereq[r].cols # {} THEN "settings" ELSE eapart
    /\ UNCHANGED enode

(* idps_toggle of one of the two rows *)
FlipNode(r, n) ==
    EidasBegin(r, [EidasIdle EXCEPT !.pc = "flip", !.node = n, !.want.on = ~enode[n]])

FlipSave(r) ==
    /\ ereq[r].pc = "flip"
    /\ NodeFree(r, ereq[r].node)
    /\ enode' = [enode EXCEPT ![ereq[r].node] = ereq[r].want.on]
    /\ EidasEnd(r)
    /\ eapart' = "rows"
    /\ UNCHANGED eset

(* backup_import deletes the settings and the rows ... *)
EidasImport(r, want, on) ==
    /\ SettingsFree(r)
    /\ \A n \in Nodes : NodeFree(r, n)
    /\ EidasBegin(r, [EidasIdle EXCEPT !.pc = "import", !.want = want, !.nodes = on])

(* ... and inserts those of the bundle, which agree if they did at the export. *)
ImportSave(r) ==
    /\ ereq[r].pc = "import"
    /\ eset' = ereq[r].want
    /\ enode' = [n \in Nodes |-> n \in ereq[r].nodes]
    /\ EidasEnd(r)
    /\ eapart' = IF ereq[r].nodes = {n \in Nodes : Wanted(ereq[r].want, n)} THEN "no"
                 ELSE "rows"

(* The request dies, its transaction is rolled back. *)
EidasAbort(r) ==
    /\ ereq[r].pc # "idle"
    /\ EidasEnd(r)
    /\ UNCHANGED <<eset, enode, eapart>>

EidasNext ==
    \E r \in EidasRequests :
       \/ \E t \in Toggles : EidasToggle(r, t) \/ RestoreToggles(r, t)
       \/ \E t \in Toggles, on \in SUBSET Nodes : EidasImport(r, t, on)
       \/ \E n \in Nodes : FlipNode(r, n)
       \/ EidasReadQa(r) \/ EidasReadProd(r) \/ EidasSave(r)
       \/ RestoreSave(r) \/ FlipSave(r) \/ ImportSave(r) \/ EidasAbort(r)

EidasSpec == EidasInit /\ [][EidasNext]_eidasVars

------------------------------------------------------------------------------
(* What the generator makes of the two places: ficep_enable, and the node of *)
(* ficep_entity_id and of the button on the discovery page.                  *)
FicepEnable == eset.on
FicepNodes  == {n \in Nodes : enode[n]}

(* The SP metadata announces eIDAS exactly when the discovery page offers    *)
(* it, through the node of the chosen environment: only an expose, a toggle  *)
(* of a row, overlapping requests or a backup of parted ones part the two,   *)
(* and the next eIDAS toggle that runs alone mends them, or the import of a  *)
(* backup in which they agree.  An expose parts them without ever having     *)
(* both nodes on.                                                            *)
EidasAgree ==
    /\ eapart = "no" => FicepNodes = IF FicepEnable THEN {eset.env} ELSE {}
    /\ eapart # "rows" => FicepNodes # Nodes
==============================================================================
