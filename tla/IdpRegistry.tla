----------------------------- MODULE IdpRegistry ------------------------------
(***************************************************************************)
(* The rows of spid_idps that users are offered: the two test providers,   *)
(* of which one at a time may be on, and the providers of the AgID         *)
(* registry, inserted and updated by a synchronisation (an admin's, or the *)
(* scheduler's every six hours) and switched by toggles and enable-all.    *)
(* The import of a backup replaces them all by the bundle's (which has the *)
(* test rows: the seeder adds them).                                       *)
(*                                                                         *)
(* As in EidasNode a request holds the rows it read, its session flushes   *)
(* what it changed before the next SELECT, and an UPDATE keeps its row     *)
(* locked until the commit while others still read the committed one.      *)
(***************************************************************************)
CONSTANTS
    Idps,         \* providers of the AgID registry
    IdpRequests   \* requests under way at most

Tests == {"spid-demo", "spid-validator"}

ASSUME IdpsAssumption == Idps \cap Tests = {}

VARIABLES
    agid,    \* what the registry says of each provider
    iin,     \* providers that have a row
    ion,     \* rows that are `enabled`
    ioff,    \* rows that are `registry_disabled`
    ireq,    \* the requests
    (* history *)
    iclash,  \* requests overlapped by one that touches what they read
    iraced   \* the test rows were last written by a toggle that was overlapped, or
             \* by an import that had both on

idpTable == <<iin, ion, ioff>>
idpVars  == <<agid, idpTable, ireq, iclash, iraced>>

------------------------------------------------------------------------------
Other  == [t \in Tests |-> IF t = "spid-demo" THEN "spid-validator" ELSE "spid-demo"]
Listed == [Idps -> {"absent", "active", "disabled"}]

Active(list)   == {i \in Idps : list[i] = "active"}
Disabled(list) == {i \in Idps : list[i] = "disabled"}

(* A request: the rows it will switch on and off; for a synchronisation the  *)
(* list it fetched, the providers in it without a row, and those whose       *)
(* registry_disabled differs.  An import: the rows it deleted (off), those of *)
(* the bundle (fresh), the enabled (on) and registry_disabled ones (marks).  *)
IdpIdle == [pc |-> "idle", on |-> {}, off |-> {}, list |-> [i \in Idps |-> "absent"],
            fresh |-> {}, marks |-> {}]
IdpReqs == [pc : {"idle", "other", "test", "toggle", "all", "select", "sync", "import"},
            on : SUBSET (Tests \cup Idps), off : SUBSET (Tests \cup Idps),
            list : Listed, fresh : SUBSET Idps, marks : SUBSET Idps]

Testing == {"other", "test"}
Syncing == {"select", "sync"}

IdpTypeOK ==
    /\ agid \in Listed
    /\ iin \subseteq Idps
    /\ ion \subseteq Tests \cup iin
    /\ ioff \subseteq iin
    /\ ireq \in [IdpRequests -> IdpReqs]
    /\ iclash \subseteq IdpRequests
    /\ iraced \in BOOLEAN

(* seed_spid_idps: the test rows exist and are off; the registry's come with *)
(* the first synchronisation.                                                *)
IdpInit ==
    /\ agid \in Listed
    /\ iin = {} /\ ion = {} /\ ioff = {}
    /\ ireq = [r \in IdpRequests |-> IdpIdle]
    /\ iclash = {}
    /\ iraced = FALSE

------------------------------------------------------------------------------
(* Two test toggles write the same flags; a synchronisation what enable-all  *)
(* reads and what another synchronisation inserts; an import everything.     *)
Touching(p, q) ==
    \/ p \in Testing /\ q \in Testing
    \/ p \in Syncing /\ q \in Syncing \cup {"all"}
    \/ p = "all" /\ q \in Syncing
    \/ p = "import" /\ q # "idle"
    \/ p # "idle" /\ q = "import"

IdpBegin(r, q) ==
    /\ ireq[r].pc = "idle"
    /\ ireq' = [ireq EXCEPT ![r] = q]
    /\ LET met == {p \in IdpRequests : Touching(q.pc, ireq[p].pc)}
       IN  iclash' = iclash \cup met \cup {p \in {r} : met # {}}
    /\ UNCHANGED <<agid, idpTable, iraced>>

IdpEnd(r) ==
    /\ ireq' = [ireq EXCEPT ![r] = IdpIdle]
    /\ iclash' = iclash \ {r}
    /\ UNCHANGED agid

(* The rows that an import of another request has deleted: whoever changes   *)
(* one waits, and aborts.                                                    *)
Locked(r) == UNION {ireq[p].off : p \in {p \in IdpRequests \ {r} : ireq[p].pc = "import"}}

(* A test row that no other request updated or deleted and has not committed: *)
(* a toggle does when it switched it on and then read the other row.         *)
TestFree(r, t) ==
    /\ t \notin Locked(r)
    /\ \A p \in IdpRequests \ {r} : ~(ireq[p].pc = "test" /\ t \in ireq[p].on)

(* idps_toggle of a test provider: off at once, on after a look at the other *)
ToggleTest(r, t) ==
    \/ /\ t \in ion
       /\ IdpBegin(r, [IdpIdle EXCEPT !.pc = "test", !.off = {t}])
    \/ /\ t \notin ion
       /\ IdpBegin(r, [IdpIdle EXCEPT !.pc = "other", !.on = {t}])

(* Mutant: the other one is left on. *)
ReadOtherKeeps(r, t) ==
    /\ ireq[r].pc = "other" /\ ireq[r].on = {t}
    /\ TestFree(r, t)
    /\ ireq' = [ireq EXCEPT ![r].pc = "test"]
    /\ UNCHANGED <<agid, idpTable, iclash, iraced>>

ReadOther(r, t) ==
    /\ ireq[r].pc = "other" /\ ireq[r].on = {t}
    /\ TestFree(r, t)
    /\ ireq' = [ireq EXCEPT ![r].pc = "test", ![r].off = {Other[t]} \cap ion]
    /\ UNCHANGED <<agid, idpTable, iclash, iraced>>

(* idps_toggle of a provider of the registry *)
ToggleIdp(r, i) ==
    /\ i \in iin
    /\ IdpBegin(r, [IdpIdle EXCEPT !.pc = "toggle", !.on = {i} \ ion, !.off = {i} \cap ion])

(* Mutant: every listed row. *)
EnableAllRows(r) ==
    IdpBegin(r, [IdpIdle EXCEPT !.pc = "all", !.on = iin \ ion])

(* idps_enable_all: the listed rows that AgID has not disabled *)
EnableAll(r) ==
    IdpBegin(r, [IdpIdle EXCEPT !.pc = "all", !.on = (iin \ ioff) \ ion])

CommitFlags(r) ==
    /\ ireq[r].pc \in {"test", "toggle", "all"}
    /\ \A t \in Tests \cap ireq[r].off : TestFree(r, t)
    /\ Idps \cap (ireq[r].on \cup ireq[r].off) \subseteq iin \ Locked(r)
    /\ ion' = (ion \cup ireq[r].on) \ ireq[r].off
    /\ IdpEnd(r)
    /\ iraced' = IF ireq[r].pc = "test" THEN r \in iclash ELSE iraced
    /\ UNCHANGED <<iin, ioff>>

(* sync_spid_idps_from_registry: the list arrives ... *)
FetchList(r) ==
    IdpBegin(r, [IdpIdle EXCEPT !.pc = "select", !.list = agid])

(* ... is compared with the table ... *)
SelectRows(r) ==
    /\ ireq[r].pc = "select"
    /\ LET list == ireq[r].list IN
       ireq' = [ireq EXCEPT
          ![r].pc = "sync",
          ![r].fresh = (Active(list) \cup Disabled(list)) \ iin,
          ![r].marks = (Active(list) \cap ioff) \cup ((Disabled(list) \cap iin) \ ioff)]
    /\ UNCHANGED <<agid, idpTable, iclash, iraced>>

(* Mutant: a provider that AgID disabled gets its mark without a row. *)
InsertedActive(q) == q.fresh \cap Active(q.list)

(* Every listed provider without a row gets one, also a disabled one. *)
Inserted(q) == q.fresh

(* ... and stored in one transaction: a new row is on unless AgID disabled   *)
(* it, `enabled` of the others is left alone.                                *)
CommitSync(r) ==
    /\ ireq[r].pc = "sync"
    /\ ireq[r].fresh \cap iin = {}
    /\ ireq[r].marks \subseteq iin \ Locked(r)
    /\ LET q == ireq[r] IN
       /\ iin' = iin \cup Inserted(q)
       /\ ion' = ion \cup (q.fresh \cap Active(q.list))
       /\ ioff' = (ioff \ (q.marks \cap Active(q.list)))
                     \cup ((q.fresh \cup q.marks) \cap Disabled(q.list))
    /\ IdpEnd(r)
    /\ UNCHANGED iraced

(* Another one inserted the same provider: its alias is unique, the whole    *)
(* transaction is rolled back.                                               *)
SyncRefused(r) ==
    /\ ireq[r].pc = "sync"
    /\ ireq[r].fresh \cap iin # {}
    /\ IdpEnd(r)
    /\ UNCHANGED <<idpTable, iraced>>

(* backup_import deletes all rows, for those of the bundle ... *)
IdpImport(r, fresh, on, marks) ==
    /\ \A t \in Tests : TestFree(r, t)
    /\ IdpBegin(r, [IdpIdle EXCEPT !.pc = "import", !.off = Tests \cup iin,
                                   !.fresh = fresh, !.on = on, !.marks = marks])

(* ... unless a synchronisation has inserted one of them since: the others   *)
(* it inserted stay.                                                         *)
CommitImport(r) ==
    /\ ireq[r].pc = "import"
    /\ LET q == ireq[r] IN
       /\ q.fresh \cap (iin \ q.off) = {}
       /\ iin' = (iin \ q.off) \cup q.fresh
       /\ ion' = (ion \ q.off) \cup q.on
       /\ ioff' = (ioff \ q.off) \cup q.marks
       /\ iraced' = (Tests \subseteq q.on)
    /\ IdpEnd(r)

(* The request dies, or waited for a row that is gone: its transaction is     *)
(* rolled back.                                                              *)
IdpAbort(r) ==
    /\ ireq[r].pc # "idle"
    /\ IdpEnd(r)
    /\ UNCHANGED <<idpTable, iraced>>

(* The registry lists, disables and drops providers. *)
AgidChanges ==
    /\ agid' \in Listed
    /\ UNCHANGED <<idpTable, ireq, iclash, iraced>>

IdpNext ==
    \/ \E r \in IdpRequests :
          \/ \E t \in Tests : ToggleTest(r, t) \/ ReadOther(r, t)
          \/ \E i \in Idps : ToggleIdp(r, i)
          \/ EnableAll(r) \/ CommitFlags(r)
          \/ FetchList(r) \/ SelectRows(r) \/ CommitSync(r) \/ SyncRefused(r)
          \/ \E fresh \in SUBSET Idps :
                \E on \in SUBSET (Tests \cup fresh), marks \in SUBSET fresh :
                   IdpImport(r, fresh, on, marks)
          \/ CommitImport(r) \/ IdpAbort(r)
    \/ AgidChanges

IdpSpec == IdpInit /\ [][IdpNext]_idpVars

------------------------------------------------------------------------------
(* The one test provider of the page /verifica (_get_test_idp raises when     *)
(* there are two): both are on only after a toggle that another toggle or an  *)
(* import overlapped, or by a backup with both on, until the next toggle that *)
(* runs alone, whatever else goes on.                                         *)
TestIdps        == Tests \cap ion
OneTestProvider == ~iraced => TestIdps # Tests

(* Request r, which ends in this step, switched row i on. *)
Ends(r)          == ireq[r].pc # "idle" /\ ireq'[r].pc = "idle"
SwitchedBy(r, i) == Ends(r) /\ i \in ireq[r].on
Imported(r)      == Ends(r) /\ ireq[r].pc = "import"

(* A synchronisation never moves the switch of a provider that has a row, and *)
(* what AgID disabled is switched on only by its own toggle, by an enable-all *)
(* that a synchronisation or an import overlapped, or by the import of a      *)
(* backup that had it on.                                                     *)
AdminDecides ==
    [][\A i \in iin :
          /\ i \in ion \ ion'
                => \E r \in IdpRequests :
                      \/ ireq[r].pc = "toggle" /\ ireq[r].off = {i}
                      \/ Imported(r)
          /\ i \in ion' \ ion
                => \E r \in IdpRequests :
                      /\ SwitchedBy(r, i)
                      /\ i \in ioff => ireq[r].pc \in {"toggle", "import"} \/ r \in iclash]_idpVars
==============================================================================
