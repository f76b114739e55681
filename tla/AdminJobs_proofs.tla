--------------------------- MODULE AdminJobs_proofs ---------------------------
(***************************************************************************)
(* Theorems about the eIDAS node, the IdP registry, the aggregate's watcher *)
(* and the retention job, for any number of requests, providers,            *)
(* publications and logins.                                                 *)
(*                                                                          *)
(* EidasInv: a request that no other overlapped holds exactly what differs  *)
(* from the two tables.  IdpInv: two requests that touch the same rows are  *)
(* marked, and an unmarked toggle of a test provider or enable-all holds the *)
(* table as it is.  AggInv: an aggregate that SATOSA has not loaded is still *)
(* in the hands of some activity, or of .reload, or owed.  RetInv: nothing  *)
(* is logged in the future, so that what a run has counted is what it will  *)
(* delete.  Composed carries these over to the four parts together.         *)
(***************************************************************************)
EXTENDS MCAdminJobs, TLAPS

------------------------------------------------------------------------------
(* What a request that is alone holds *)
Holds(r) ==
    LET q == ereq[r] IN
    /\ \A p \in EidasRequests \ {r} : ereq[p].pc = "idle"
    /\ q.pc \in {"qa", "prod", "save", "restore"} => q.cols = Differing(q.want)
    /\ q.pc = "qa" => q.nodes = {}
    /\ q.pc = "prod" => q.nodes = {n \in {"qa"} : enode[n] # Wanted(q.want, n)}
    /\ q.pc = "save" => q.nodes = {n \in Nodes : enode[n] # Wanted(q.want, n)}

EidasInv ==
    /\ EidasTypeOK
    /\ \A r \in ealone : Holds(r)
    /\ EidasAgree

LEMMA EidasInvInit == EidasInit => EidasInv
BY DEF EidasInit, EidasInv, EidasTypeOK, Toggles, EidasReqs, EidasIdle, Nodes, Columns,
   EidasAgree, FicepNodes, FicepEnable

LEMMA EidasBegins ==
  ASSUME EidasInv, NEW r \in EidasRequests, NEW q \in EidasReqs, EidasBegin(r, q),
         q.pc \in {"qa", "restore"} => q.cols = Differing(q.want),
         q.pc \in {"qa", "restore", "flip", "import"}, q.pc = "qa" => q.nodes = {}
  PROVE  EidasInv'
<1>. USE DEF EidasInv
<1>1. EidasTypeOK'
  BY DEF EidasBegin, EidasTypeOK
<1>2. EidasAgree'
  BY DEF EidasBegin, EidasAgree, FicepNodes, FicepEnable
<1>3. ASSUME NEW a \in ealone' PROVE Holds(a)'
  <2>1. /\ a = r /\ EidasBusy = {}
        /\ ereq'[r] = q /\ \A p \in EidasRequests \ {r} : ereq'[p] = ereq[p]
    BY <1>3 DEF EidasBegin, EidasTypeOK
  <2>2. Differing(q.want)' = Differing(q.want)
    BY DEF EidasBegin, Differing
  <2>. QED  BY <2>1, <2>2 DEF Holds, EidasBusy
<1>. QED  BY <1>1, <1>2, <1>3

LEMMA EidasInvInductive == EidasInv /\ [EidasNext]_eidasVars => EidasInv'
<1>. SUFFICES ASSUME EidasInv, [EidasNext]_eidasVars PROVE EidasInv'
  OBVIOUS
<1>. USE DEF EidasInv
<1>1. ASSUME NEW r \in EidasRequests, NEW t \in Toggles,
             EidasToggle(r, t) \/ RestoreToggles(r, t)
      PROVE  EidasInv'
  <2>. DEFINE a == [EidasIdle EXCEPT !.pc = "qa", !.want = t, !.cols = Differing(t)]
              b == [EidasIdle EXCEPT !.pc = "restore", !.want = t, !.cols = Differing(t)]
  <2>1. /\ a \in EidasReqs /\ a.pc = "qa" /\ a.want = t /\ a.cols = Differing(t) /\ a.nodes = {}
        /\ b \in EidasReqs /\ b.pc = "restore" /\ b.want = t /\ b.cols = Differing(t)
        /\ b.nodes = {}
    BY DEF EidasReqs, EidasIdle, Toggles, Nodes, Columns, Differing
  <2>2. EidasBegin(r, a) \/ EidasBegin(r, b)
    BY <1>1 DEF EidasToggle, RestoreToggles
  <2>. HIDE DEF a, b
  <2>. QED  BY <2>1, <2>2, EidasBegins
<1>2. ASSUME NEW r \in EidasRequests, NEW n \in Nodes, FlipNode(r, n) PROVE EidasInv'
  <2>. DEFINE a == [EidasIdle EXCEPT !.pc = "flip", !.node = n, !.want.on = ~enode[n]]
  <2>1. a \in EidasReqs /\ a.pc = "flip" /\ a.nodes = {}
    BY DEF EidasReqs, EidasIdle, Toggles, Nodes, Columns, EidasTypeOK
  <2>2. EidasBegin(r, a)
    BY <1>2 DEF FlipNode
  <2>. HIDE DEF a
  <2>. QED  BY <2>1, <2>2, EidasBegins
<1>3. ASSUME NEW r \in EidasRequests, EidasReadQa(r) \/ EidasReadProd(r) PROVE EidasInv'
  <2>. DEFINE n == IF ereq[r].pc = "qa" THEN "qa" ELSE "prod"
              q == [ereq[r] EXCEPT
                      !.pc = IF n = "qa" THEN "prod" ELSE "save",
                      !.nodes = IF enode[n] # Wanted(ereq[r].want, n)
                                THEN ereq[r].nodes \cup {n} ELSE ereq[r].nodes]
  <2>1. /\ ereq[r].pc \in {"qa", "prod"} /\ ereq[r] \in EidasReqs
        /\ ereq' = [ereq EXCEPT ![r] = q]
        /\ UNCHANGED <<eset, enode, ealone, eapart>>
    BY <1>3 DEF EidasReadQa, EidasReadProd, EidasReadNode, EidasTypeOK
  <2>2. /\ q \in EidasReqs /\ q.want = ereq[r].want /\ q.cols = ereq[r].cols
        /\ q.pc = IF n = "qa" THEN "prod" ELSE "save"
        /\ q.nodes = IF enode[n] # Wanted(ereq[r].want, n)
                     THEN ereq[r].nodes \cup {n} ELSE ereq[r].nodes
    BY <2>1 DEF EidasReqs, Nodes
  <2>3. n \in Nodes /\ (ereq[r].pc = "qa" <=> n = "qa") /\ (ereq[r].pc = "prod" <=> n = "prod")
    BY <2>1 DEF Nodes
  <2>. HIDE DEF q, n
  <2>4. EidasTypeOK' /\ EidasAgree'
    BY <2>1, <2>2 DEF EidasTypeOK, EidasAgree, FicepNodes, FicepEnable
  <2>5. ASSUME NEW a \in ealone' PROVE Holds(a)'
    <3>1. Holds(a) /\ a = r
      BY <2>1, <2>5 DEF Holds, EidasTypeOK
    <3>2. ereq'[r] = q /\ \A p \in EidasRequests \ {r} : ereq'[p] = ereq[p]
      BY <2>1 DEF EidasTypeOK
    <3>4. q.cols = {c \in Columns : eset'[c] # q.want[c]}
      BY <2>1, <2>2, <3>1 DEF Holds, Differing
    <3>5. q.pc = "prod" => q.nodes = {i \in {"qa"} : enode[i] # Wanted(q.want, i)}
      BY <2>1, <2>2, <2>3, <3>1 DEF Holds
    <3>6. q.pc = "save" => q.nodes = {i \in Nodes : enode[i] # Wanted(q.want, i)}
      BY <2>1, <2>2, <2>3, <3>1 DEF Holds, Nodes
    <3>7. \A p \in EidasRequests \ {r} : ereq'[p].pc = "idle"
      BY <3>1, <3>2 DEF Holds
    <3>8. q.pc \in {"prod", "save"}
      BY <2>2
    <3>. QED  BY <2>1, <3>1, <3>2, <3>4, <3>5, <3>6, <3>7, <3>8 DEF Holds, Wanted, Differing
  <2>. QED  BY <2>4, <2>5
<1>4. ASSUME NEW r \in EidasRequests, EidasEnd(r), ereq[r].pc # "idle", EidasTypeOK', EidasAgree'
      PROVE  EidasInv'
  <2>1. ealone' = {}
    <3>1. \A a \in ealone : a = r
      BY <1>4 DEF Holds, EidasTypeOK
    <3>. QED  BY <1>4, <3>1 DEF EidasEnd
  <2>. QED  BY <1>4, <2>1
<1>5. ASSUME NEW r \in EidasRequests, EidasSave(r) PROVE EidasInv'
  <2>1. EidasIdle \in EidasReqs /\ ereq[r] \in EidasReqs
    BY DEF EidasIdle, EidasReqs, Toggles, Nodes, EidasTypeOK
  <2>2. eset' \in Toggles /\ enode' \in [Nodes -> BOOLEAN]
    <3>1. enode' \in [Nodes -> BOOLEAN]
      BY <1>5, <2>1 DEF EidasSave, EidasTypeOK, Wanted, Toggles, EidasReqs, Nodes
    <3>2. eset' \in Toggles
      BY <1>5, <2>1 DEF EidasSave, EidasTypeOK, StoredToggles, Toggles, EidasReqs, Columns, Nodes
    <3>. QED  BY <3>1, <3>2
  <2>3. EidasTypeOK'
    BY <1>5, <2>1, <2>2 DEF EidasSave, EidasEnd, EidasTypeOK
  <2>4. ASSUME r \in ealone PROVE EidasAgree'
    <3>1. /\ ereq[r].cols = Differing(ereq[r].want)
          /\ ereq[r].nodes = {n \in Nodes : enode[n] # Wanted(ereq[r].want, n)}
      BY <1>5, <2>4 DEF EidasSave, Holds
    <3>2. eset'.on = ereq[r].want.on /\ eset'.env = ereq[r].want.env
      BY <1>5, <2>1, <3>1 DEF EidasSave, StoredToggles, Differing, Columns, EidasTypeOK, Toggles
    <3>3. \A n \in Nodes : enode'[n] <=> Wanted(ereq[r].want, n)
      <4>1. \A n \in Nodes : Wanted(ereq[r].want, n) \in BOOLEAN /\ enode[n] \in BOOLEAN
        BY <2>1 DEF Wanted, EidasReqs, Toggles, EidasTypeOK
      <4>. QED  BY <1>5, <3>1, <4>1 DEF EidasSave
    <3>4. FicepNodes' = IF FicepEnable' THEN {eset'.env} ELSE {}
      BY <2>2, <3>2, <3>3 DEF FicepNodes, FicepEnable, Wanted, Toggles
    <3>. QED  BY <3>4 DEF EidasAgree, Nodes
  <2>5. ASSUME r \notin ealone PROVE EidasAgree'
    BY <1>5, <2>5 DEF EidasSave, EidasAgree
  <2>. QED  BY <1>4, <1>5, <2>3, <2>4, <2>5 DEF EidasSave
<1>6. ASSUME NEW r \in EidasRequests, RestoreSave(r) PROVE EidasInv'
  <2>1. EidasIdle \in EidasReqs /\ ereq[r] \in EidasReqs
    BY DEF EidasIdle, EidasReqs, Toggles, Nodes, EidasTypeOK
  <2>2. eset' \in Toggles /\ (ereq[r].cols = {} => eset' = eset)
    BY <1>6, <2>1 DEF RestoreSave, EidasTypeOK, StoredToggles, Toggles, EidasReqs, Columns, Nodes
  <2>3. EidasTypeOK'
    BY <1>6, <2>1, <2>2 DEF RestoreSave, EidasEnd, EidasTypeOK
  <2>4. EidasAgree'
    BY <1>6, <2>2 DEF RestoreSave, EidasAgree, FicepNodes, FicepEnable, EidasTypeOK
  <2>. QED  BY <1>4, <1>6, <2>3, <2>4 DEF RestoreSave
<1>7. ASSUME NEW r \in EidasRequests, FlipSave(r) PROVE EidasInv'
  <2>1. EidasIdle \in EidasReqs /\ ereq[r] \in EidasReqs
    BY DEF EidasIdle, EidasReqs, Toggles, Nodes, EidasTypeOK
  <2>2. EidasTypeOK' /\ EidasAgree'
    BY <1>7, <2>1 DEF FlipSave, EidasEnd, EidasTypeOK, EidasReqs, Toggles, EidasAgree
  <2>. QED  BY <1>4, <1>7, <2>2 DEF FlipSave
<1>8. ASSUME NEW r \in EidasRequests, EidasAbort(r) PROVE EidasInv'
  <2>1. EidasIdle \in EidasReqs
    BY DEF EidasIdle, EidasReqs, Toggles, Nodes
  <2>2. EidasTypeOK' /\ EidasAgree'
    BY <1>8, <2>1 DEF EidasAbort, EidasEnd, EidasTypeOK, EidasAgree, FicepNodes, FicepEnable
  <2>. QED  BY <1>4, <1>8, <2>2 DEF EidasAbort
<1>9. ASSUME NEW r \in EidasRequests, NEW t \in Toggles, NEW on \in SUBSET Nodes,
             EidasImport(r, t, on)
      PROVE  EidasInv'
  <2>. DEFINE a == [EidasIdle EXCEPT !.pc = "import", !.want = t, !.nodes = on]
  <2>1. a \in EidasReqs /\ a.pc = "import"
    BY DEF EidasReqs, EidasIdle, Toggles, Nodes, Columns
  <2>2. EidasBegin(r, a)
    BY <1>9 DEF EidasImport
  <2>. HIDE DEF a
  <2>. QED  BY <2>1, <2>2, EidasBegins
<1>10. ASSUME NEW r \in EidasRequests, ImportSave(r) PROVE EidasInv'
  <2>1. EidasIdle \in EidasReqs /\ ereq[r] \in EidasReqs
    BY DEF EidasIdle, EidasReqs, Toggles, Nodes, EidasTypeOK
  <2>2. /\ eset' = ereq[r].want /\ enode' = [n \in Nodes |-> n \in ereq[r].nodes]
        /\ eapart' = IF ereq[r].nodes = {n \in Nodes : Wanted(ereq[r].want, n)} THEN "no"
                     ELSE "rows"
    BY <1>10 DEF ImportSave
  <2>3. ereq[r].want \in Toggles /\ ereq[r].nodes \subseteq Nodes
    BY <2>1 DEF EidasReqs
  <2>4. enode' \in [Nodes -> BOOLEAN] /\ FicepNodes' = ereq[r].nodes
    <3>. DEFINE N == ereq[r].nodes
    <3>1. N \subseteq Nodes /\ enode' = [n \in Nodes |-> n \in N]
      BY <2>2, <2>3
    <3>. HIDE DEF N
    <3>2. enode' \in [Nodes -> BOOLEAN]
      BY <3>1
    <3>3. \A n \in Nodes : enode'[n] <=> n \in N
      BY <3>1
    <3>4. FicepNodes' = N
      BY <3>1, <3>3 DEF FicepNodes
    <3>. QED  BY <3>2, <3>4 DEF N
  <2>5. EidasTypeOK'
    BY <1>10, <2>1, <2>2, <2>3, <2>4 DEF ImportSave, EidasEnd, EidasTypeOK
  <2>6. EidasAgree'
    BY <2>2, <2>3, <2>4 DEF EidasAgree, FicepEnable, Wanted, Toggles, Nodes
  <2>. QED  BY <1>4, <1>10, <2>5, <2>6 DEF ImportSave
<1>11. CASE UNCHANGED eidasVars
  BY <1>11 DEF eidasVars, EidasTypeOK, EidasAgree, FicepNodes, FicepEnable, Holds, Differing
<1>. QED  BY <1>1, <1>2, <1>3, <1>5, <1>6, <1>7, <1>8, <1>9, <1>10, <1>11 DEF EidasNext

(* The SP metadata announces eIDAS exactly when the discovery page offers it,    *)
(* through the chosen node, until an expose, a toggle of a row, requests that     *)
(* overlap or a parted backup part the two, and again after the next eIDAS toggle *)
(* that runs alone.                                                              *)
THEOREM EidasAgrees == EidasSpec => []EidasAgree
<1>1. EidasInv => EidasAgree
  BY DEF EidasInv
<1>. QED  BY <1>1, EidasInvInit, EidasInvInductive, PTL DEF EidasSpec
------------------------------------------------------------------------------
(* What each request may switch *)
Switches(q) ==
    /\ q.pc = "other" => \E t \in Tests : q.on = {t} /\ q.off = {}
    /\ q.pc = "test" => \E t \in Tests : \/ q.on = {} /\ q.off = {t}
                                         \/ q.on = {t} /\ q.off \subseteq {Other[t]}
    /\ q.pc = "toggle" => \E i \in Idps : q.on \subseteq {i} /\ q.off \subseteq {i}
    /\ q.pc = "all" => q.on \subseteq Idps /\ q.off = {}
    /\ q.pc = "import" => /\ Tests \subseteq q.off
                          /\ q.on \subseteq Tests \cup q.fresh /\ q.marks \subseteq q.fresh

(* What a request that was not overlapped goes by *)
Unraced(r) ==
    LET q == ireq[r] IN
    /\ \A p \in IdpRequests \ {r} : ~Touching(q.pc, ireq[p].pc)
    /\ q.pc = "test" => \A t \in q.on : q.off = {Other[t]} \cap ion
    /\ q.pc = "all" => q.on \cap ioff = {}

IdpInv ==
    /\ IdpTypeOK
    /\ \A r \in IdpRequests : Switches(ireq[r])
    /\ \A r \in IdpRequests \ iclash : Unraced(r)
    /\ OneTestProvider

LEMMA IdpIdleTyped == IdpIdle \in IdpReqs /\ IdpIdle.pc = "idle" /\ Switches(IdpIdle)
BY DEF IdpIdle, IdpReqs, Listed, Switches

LEMMA IdpInvInit == IdpInit => IdpInv
<1>. SUFFICES ASSUME IdpInit PROVE IdpInv
  OBVIOUS
<1>1. IdpTypeOK
  BY IdpIdleTyped DEF IdpInit, IdpTypeOK
<1>2. \A r \in IdpRequests : ireq[r] = IdpIdle
  BY DEF IdpInit
<1>3. \A r \in IdpRequests : Switches(ireq[r]) /\ Unraced(r)
  BY <1>2, IdpIdleTyped DEF Unraced, Touching, Testing, Syncing
<1>4. OneTestProvider
  BY DEF IdpInit, OneTestProvider, TestIdps, Tests
<1>. QED  BY <1>1, <1>3, <1>4 DEF IdpInv

LEMMA IdpBegins ==
  ASSUME IdpInv, NEW r \in IdpRequests, NEW q \in IdpReqs, IdpBegin(r, q), Switches(q),
         q.pc # "test" \/ q.on = {},
         q.pc = "all" => q.on \cap ioff = {}
  PROVE  IdpInv'
<1>. DEFINE met == {p \in IdpRequests : Touching(q.pc, ireq[p].pc)}
<1>. USE DEF IdpInv
<1>1. /\ ireq[r].pc = "idle" /\ ireq' = [ireq EXCEPT ![r] = q]
      /\ iclash' = iclash \cup met \cup {p \in {r} : met # {}}
      /\ UNCHANGED <<agid, iin, ion, ioff, iraced>>
  BY DEF IdpBegin, idpTable
<1>2. ireq'[r] = q /\ \A p \in IdpRequests \ {r} : ireq'[p] = ireq[p]
  BY <1>1 DEF IdpTypeOK
<1>3. IdpTypeOK' /\ OneTestProvider'
  BY <1>1 DEF IdpTypeOK, OneTestProvider, TestIdps
<1>4. \A p \in IdpRequests : Switches(ireq'[p])
  BY <1>2
<1>5. ASSUME NEW p \in IdpRequests \ iclash', p # r PROVE Unraced(p)'
  <2>1. p \notin iclash /\ ~Touching(q.pc, ireq[p].pc)
    BY <1>1, <1>5
  <2>2. ~Touching(ireq[p].pc, q.pc)
    BY <2>1 DEF Touching, Testing, Syncing
  <2>. QED  BY <1>1, <1>2, <1>5, <2>1, <2>2 DEF Unraced
<1>6. ASSUME r \notin iclash' PROVE Unraced(r)'
  <2>1. met = {}
    BY <1>1, <1>6
  <2>. QED  BY <1>1, <1>2, <2>1 DEF Unraced
<1>7. \A p \in IdpRequests : Switches(ireq[p])'
  BY <1>1, <1>4 DEF Switches
<1>. QED  BY <1>3, <1>5, <1>6, <1>7

(* A request goes on with the same rows, or ends. *)
Goes(r, q) ==
    /\ ireq' = [ireq EXCEPT ![r] = q]
    /\ iclash' = iclash \/ (q.pc = "idle" /\ iclash' = iclash \ {r})
    /\ UNCHANGED agid
    /\ iin' \subseteq Idps /\ ion' \subseteq Tests \cup iin'
    /\ ioff' \subseteq iin' /\ iraced' \in BOOLEAN
    /\ OneTestProvider'
    /\ \/ q.pc = "idle"
       \/ q.pc \in Testing /\ ireq[r].pc \in Testing
       \/ q.pc \in Syncing /\ ireq[r].pc \in Syncing
    /\ r \in iclash' \/ (q.pc = "test" => \A t \in q.on : q.off = {Other[t]} \cap ion')
    /\ ireq[r].pc \in Testing \cup {"import"} \/ Tests \cap ion' = Tests \cap ion
    /\ ireq[r].pc \in Syncing \cup {"import"} \/ ioff' = ioff

LEMMA IdpGoes ==
  ASSUME IdpInv, NEW r \in IdpRequests, NEW q \in IdpReqs, Goes(r, q), Switches(q)
  PROVE  IdpInv'
<1>. USE DEF IdpInv, Goes
<1>0. q.pc \notin {"toggle", "all"}
  BY DEF Testing, Syncing
<1>1. ireq'[r] = q /\ \A p \in IdpRequests \ {r} : ireq'[p] = ireq[p]
  BY DEF IdpTypeOK
<1>2. IdpTypeOK'
  BY DEF IdpTypeOK
<1>3. \A p \in IdpRequests : Switches(ireq[p])'
  BY <1>1 DEF Switches
<1>4. \A s : Touching(s, q.pc) => Touching(s, ireq[r].pc)
  BY DEF Touching, Testing, Syncing
<1>5. \A s : Touching(q.pc, s) => Touching(ireq[r].pc, s)
  BY DEF Touching, Testing, Syncing
<1>6. ASSUME NEW p \in IdpRequests \ iclash', p # r PROVE Unraced(p)'
  <2>1. Unraced(p) /\ ireq'[p] = ireq[p] /\ ~Touching(ireq[p].pc, ireq[r].pc)
    BY <1>1, <1>6 DEF Unraced
  <2>2. ireq[p].pc = "test" => Tests \cap ion' = Tests \cap ion
    BY <2>1 DEF Touching, Testing
  <2>3. ireq[p].pc = "all" => ioff' = ioff
    BY <2>1 DEF Touching, Testing, Syncing
  <2>4. \A s \in IdpRequests \ {p} : ~Touching(ireq[p].pc, ireq'[s].pc)
    BY <1>1, <1>4, <2>1 DEF Unraced
  <2>5. ASSUME ireq[p].pc = "test", NEW t \in ireq[p].on PROVE ireq[p].off = {Other[t]} \cap ion'
    <3>1. t \in Tests
      BY <2>5 DEF Switches
    <3>2. Other[t] \in Tests
      BY <3>1 DEF Other, Tests
    <3>. QED  BY <2>1, <2>2, <2>5, <3>2 DEF Unraced
  <2>. QED  BY <2>1, <2>3, <2>4, <2>5 DEF Unraced
<1>7. ASSUME r \notin iclash' PROVE Unraced(r)'
  <2>1. CASE q.pc = "idle"
    BY <1>1, <2>1 DEF Unraced, Touching, Testing, Syncing
  <2>2. CASE q.pc # "idle"
    BY <1>0, <1>1, <1>5, <1>7, <2>2 DEF Unraced
  <2>. QED  BY <2>1, <2>2
<1>. QED  BY <1>2, <1>3, <1>6, <1>7

LEMMA IdpInvInductive == IdpInv /\ [IdpNext]_idpVars => IdpInv'
<1>. SUFFICES ASSUME IdpInv, [IdpNext]_idpVars PROVE IdpInv'
  OBVIOUS
<1>0. \A r \in IdpRequests : ireq[r] \in IdpReqs /\ Switches(ireq[r])
  BY DEF IdpInv, IdpTypeOK
<1>t. IdpTypeOK
  BY DEF IdpInv
<1>1. ASSUME NEW r \in IdpRequests, NEW t \in Tests, ToggleTest(r, t) PROVE IdpInv'
  <2>. DEFINE a == [IdpIdle EXCEPT !.pc = "test", !.off = {t}]
              b == [IdpIdle EXCEPT !.pc = "other", !.on = {t}]
  <2>1. /\ a \in IdpReqs /\ a.pc = "test" /\ a.on = {} /\ a.off = {t}
        /\ b \in IdpReqs /\ b.pc = "other" /\ b.on = {t} /\ b.off = {}
    BY DEF IdpIdle, IdpReqs, Listed
  <2>2. IdpBegin(r, a) \/ IdpBegin(r, b)
    BY <1>1 DEF ToggleTest
  <2>. HIDE DEF a, b
  <2>. QED  BY <2>1, <2>2, IdpBegins DEF Switches
<1>2. ASSUME NEW r \in IdpRequests, NEW t \in Tests, ReadOther(r, t) PROVE IdpInv'
  <2>. DEFINE q == [ireq[r] EXCEPT !.pc = "test", !.off = {Other[t]} \cap ion]
  <2>1. /\ ireq[r].pc = "other" /\ ireq[r].on = {t} /\ ireq' = [ireq EXCEPT ![r] = q]
        /\ UNCHANGED <<agid, iin, ion, ioff, iclash, iraced>>
    BY <1>2 DEF ReadOther, idpTable
  <2>2. q \in IdpReqs /\ q.pc = "test" /\ q.on = {t} /\ q.off = {Other[t]} \cap ion
    BY <1>0, <1>t, <2>1 DEF IdpReqs, IdpTypeOK
  <2>. HIDE DEF q
  <2>3. Switches(q)
    BY <2>2 DEF Switches
  <2>4. (q.pc \in Testing /\ ireq[r].pc \in Testing) /\ ireq[r].pc \in Testing
    BY <2>1, <2>2 DEF Testing
  <2>5. \A i \in q.on : q.off = {Other[i]} \cap ion'
    BY <2>1, <2>2
  <2>6. /\ iin' \subseteq Idps /\ ion' \subseteq Tests \cup iin'
        /\ ioff' \subseteq iin' /\ iraced' \in BOOLEAN /\ OneTestProvider'
    BY <1>t, <2>1 DEF IdpInv, IdpTypeOK, OneTestProvider, TestIdps
  <2>7. q.pc \notin {"toggle", "all", "sync", "idle"} /\ ioff' = ioff
    BY <2>1, <2>2
  <2>8. Goes(r, q)
    BY <2>1, <2>2, <2>4, <2>5, <2>6, <2>7 DEF Goes
  <2>. QED  BY <2>2, <2>3, <2>8, IdpGoes
<1>3. ASSUME NEW r \in IdpRequests, NEW i \in Idps, ToggleIdp(r, i) PROVE IdpInv'
  <2>. DEFINE q == [IdpIdle EXCEPT !.pc = "toggle", !.on = {i} \ ion, !.off = {i} \cap ion]
  <2>1. q \in IdpReqs /\ q.pc = "toggle" /\ q.on = {i} \ ion /\ q.off = {i} \cap ion
    BY DEF IdpIdle, IdpReqs, Listed
  <2>2. IdpBegin(r, q)
    BY <1>3 DEF ToggleIdp
  <2>. HIDE DEF q
  <2>3. i \in iin
    BY <1>3 DEF ToggleIdp
  <2>. QED  BY <2>1, <2>2, <2>3, IdpBegins DEF Switches
<1>4. ASSUME NEW r \in IdpRequests, EnableAll(r) PROVE IdpInv'
  <2>. DEFINE q == [IdpIdle EXCEPT !.pc = "all", !.on = (iin \ ioff) \ ion]
  <2>1. q \in IdpReqs /\ q.pc = "all" /\ q.on = (iin \ ioff) \ ion /\ q.off = {}
    BY <1>t DEF IdpIdle, IdpReqs, Listed, IdpTypeOK
  <2>2. IdpBegin(r, q)
    BY <1>4 DEF EnableAll
  <2>. HIDE DEF q
  <2>3. Switches(q)
    BY <1>t, <2>1 DEF Switches, IdpTypeOK
  <2>. QED  BY <2>1, <2>2, <2>3, IdpBegins
<1>5. ASSUME NEW r \in IdpRequests, CommitFlags(r) PROVE IdpInv'
  <2>1. /\ ireq[r].pc \in {"test", "toggle", "all"}
        /\ ion' = (ion \cup ireq[r].on) \ ireq[r].off
        /\ ireq' = [ireq EXCEPT ![r] = IdpIdle] /\ iclash' = iclash \ {r}
        /\ UNCHANGED <<agid, iin, ioff>>
        /\ Idps \cap ireq[r].on \subseteq iin
        /\ iraced' = IF ireq[r].pc = "test" THEN r \in iclash ELSE iraced
    BY <1>5 DEF CommitFlags, IdpEnd
  <2>2. ASSUME ireq[r].pc # "test" PROVE Tests \cap ion' = Tests \cap ion
    BY <1>0, <2>1, <2>2, IdpsAssumption DEF Switches
  <2>3. ASSUME ireq[r].pc = "test", r \notin iclash PROVE Tests \cap ion' # Tests
    <3>1. PICK t \in Tests : \/ ireq[r].on = {} /\ ireq[r].off = {t}
                             \/ ireq[r].on = {t} /\ ireq[r].off \subseteq {Other[t]}
      BY <1>0, <2>3 DEF Switches
    <3>2. Other[t] \in Tests /\ Other[t] # t
      BY DEF Other, Tests
    <3>3. CASE ireq[r].on = {}
      BY <2>1, <3>1, <3>3
    <3>4. CASE ireq[r].on = {t}
      <4>1. ireq[r].off = {Other[t]} \cap ion
        BY <2>3, <3>4 DEF IdpInv, Unraced
      <4>. QED  BY <2>1, <3>2, <3>4, <4>1
    <3>. QED  BY <3>1, <3>3, <3>4
  <2>4. OneTestProvider'
    BY <2>1, <2>2, <2>3 DEF IdpInv, OneTestProvider, TestIdps
  <2>5. ion' \subseteq Tests \cup iin'
    <3>1. ireq[r].on \subseteq Tests \cup iin
      BY <1>0, <2>1 DEF IdpReqs
    <3>. QED  BY <1>t, <2>1, <3>1 DEF IdpTypeOK
  <2>6. iraced' \in BOOLEAN /\ (ireq[r].pc \in Testing \/ Tests \cap ion' = Tests \cap ion)
    <3>1. (r \in iclash) \in BOOLEAN
      OBVIOUS
    <3>2. iraced' \in BOOLEAN
      BY <1>t, <2>1, <3>1 DEF IdpTypeOK
    <3>. QED  BY <2>2, <3>2 DEF Testing
  <2>. QED  BY <1>t, <2>1, <2>4, <2>5, <2>6, IdpIdleTyped, IdpGoes DEF Goes, IdpTypeOK
<1>6. ASSUME NEW r \in IdpRequests, FetchList(r) PROVE IdpInv'
  <2>. DEFINE q == [IdpIdle EXCEPT !.pc = "select", !.list = agid]
  <2>1. q \in IdpReqs /\ q.pc = "select"
    BY <1>t DEF IdpIdle, IdpReqs, Listed, IdpTypeOK
  <2>2. IdpBegin(r, q)
    BY <1>6 DEF FetchList
  <2>. HIDE DEF q
  <2>. QED  BY <2>1, <2>2, IdpBegins DEF Switches
<1>7. ASSUME NEW r \in IdpRequests, SelectRows(r) PROVE IdpInv'
  <2>1. \E q \in IdpReqs :
           q.pc = "sync" /\ ireq' = [ireq EXCEPT ![r] = q]
    <3>. DEFINE list == ireq[r].list
                q == [ireq[r] EXCEPT
                        !.pc = "sync",
                        !.fresh = (Active(list) \cup Disabled(list)) \ iin,
                        !.marks = (Active(list) \cap ioff) \cup ((Disabled(list) \cap iin) \ ioff)]
    <3>1. q \in IdpReqs /\ q.pc = "sync"
      BY <1>0, <1>t DEF IdpReqs, IdpTypeOK, Active, Disabled
    <3>2. ireq' = [ireq EXCEPT ![r] = q]
      BY <1>7 DEF SelectRows
    <3>. QED  BY <3>1, <3>2
  <2>2. ireq[r].pc = "select" /\ UNCHANGED <<agid, iin, ion, ioff, iclash, iraced>>
    BY <1>7 DEF SelectRows, idpTable
  <2>3. PICK q \in IdpReqs :
           q.pc = "sync" /\ ireq' = [ireq EXCEPT ![r] = q]
    BY <2>1
  <2>4. (q.pc \in Syncing /\ ireq[r].pc \in Syncing) /\ Switches(q)
    BY <2>2, <2>3 DEF Syncing, Switches
  <2>5. /\ iin' \subseteq Idps /\ ion' \subseteq Tests \cup iin'
        /\ ioff' \subseteq iin' /\ iraced' \in BOOLEAN /\ OneTestProvider'
    BY <1>t, <2>2 DEF IdpInv, IdpTypeOK, OneTestProvider, TestIdps
  <2>6. q.pc \notin {"toggle", "all", "test"}
    BY <2>3
  <2>7. ireq[r].pc \in Syncing /\ Tests \cap ion' = Tests \cap ion
    BY <2>2 DEF Syncing
  <2>8. Goes(r, q)
    BY <2>2, <2>3, <2>4, <2>5, <2>6, <2>7 DEF Goes
  <2>. QED  BY <2>4, <2>8, IdpGoes
<1>8. ASSUME NEW r \in IdpRequests, CommitSync(r) PROVE IdpInv'
  <2>. DEFINE q == ireq[r]
  <2>1. /\ q.pc = "sync" /\ q.fresh \cap iin = {} /\ q.marks \subseteq iin
        /\ iin' = iin \cup q.fresh
        /\ ion' = ion \cup (q.fresh \cap Active(q.list))
        /\ ioff' = (ioff \ (q.marks \cap Active(q.list)))
                      \cup ((q.fresh \cup q.marks) \cap Disabled(q.list))
        /\ ireq' = [ireq EXCEPT ![r] = IdpIdle] /\ iclash' = iclash \ {r}
        /\ UNCHANGED <<agid, iraced>>
    BY <1>8 DEF CommitSync, IdpEnd, Inserted
  <2>2. /\ q.fresh \subseteq Idps /\ q.marks \subseteq Idps /\ Disabled(q.list) \subseteq Idps
        /\ q.pc \in Syncing /\ q.marks \subseteq iin
    BY <1>0, <2>1 DEF IdpReqs, Disabled, Syncing
  <2>3. /\ iin' \subseteq Idps /\ ion' \subseteq Tests \cup iin' /\ ioff' \subseteq iin'
        /\ iraced' \in BOOLEAN
    BY <1>t, <2>1, <2>2, IdpsAssumption DEF IdpTypeOK
  <2>4. Tests \cap ion' = Tests \cap ion
    BY <2>1, <2>2, IdpsAssumption
  <2>5. OneTestProvider'
    BY <2>1, <2>4 DEF IdpInv, OneTestProvider, TestIdps
  <2>. QED  BY <2>1, <2>2, <2>3, <2>4, <2>5, IdpIdleTyped, IdpGoes DEF Goes
<1>9. ASSUME NEW r \in IdpRequests, SyncRefused(r) \/ IdpAbort(r) PROVE IdpInv'
  <2>1. /\ ireq' = [ireq EXCEPT ![r] = IdpIdle] /\ iclash' = iclash \ {r}
        /\ UNCHANGED <<agid, iin, ion, ioff, iraced>>
    BY <1>9 DEF SyncRefused, IdpAbort, IdpEnd, idpTable
  <2>. QED
    BY <1>t, <2>1, IdpIdleTyped, IdpGoes DEF Goes, IdpInv, OneTestProvider, TestIdps, IdpTypeOK
<1>10. ASSUME NEW r \in IdpRequests, NEW fresh \in SUBSET Idps,
              NEW on \in SUBSET (Tests \cup fresh), NEW marks \in SUBSET fresh,
              IdpImport(r, fresh, on, marks)
       PROVE  IdpInv'
  <2>. DEFINE q == [IdpIdle EXCEPT !.pc = "import", !.off = Tests \cup iin,
                                  !.fresh = fresh, !.on = on, !.marks = marks]
  <2>1. /\ q \in IdpReqs /\ q.pc = "import" /\ q.off = Tests \cup iin
        /\ q.fresh = fresh /\ q.on = on /\ q.marks = marks
    BY <1>t DEF IdpIdle, IdpReqs, Listed, IdpTypeOK
  <2>2. IdpBegin(r, q)
    BY <1>10 DEF IdpImport
  <2>. HIDE DEF q
  <2>. QED  BY <2>1, <2>2, IdpBegins DEF Switches
<1>11. ASSUME NEW r \in IdpRequests, CommitImport(r) PROVE IdpInv'
  <2>. DEFINE q == ireq[r]
  <2>1. /\ q.pc = "import"
        /\ iin' = (iin \ q.off) \cup q.fresh
        /\ ion' = (ion \ q.off) \cup q.on
        /\ ioff' = (ioff \ q.off) \cup q.marks
        /\ iraced' = (Tests \subseteq q.on)
        /\ ireq' = [ireq EXCEPT ![r] = IdpIdle] /\ iclash' = iclash \ {r}
        /\ agid' = agid
    BY <1>11 DEF CommitImport, IdpEnd
  <2>2. /\ q.fresh \subseteq Idps /\ Tests \subseteq q.off
        /\ q.on \subseteq Tests \cup q.fresh /\ q.marks \subseteq q.fresh
    BY <1>0, <2>1 DEF IdpReqs, Switches
  <2>3. iin' \subseteq Idps /\ ion' \subseteq Tests \cup iin' /\ ioff' \subseteq iin'
    BY <1>t, <2>1, <2>2 DEF IdpTypeOK
  <2>4. iraced' \in BOOLEAN
    BY <2>1
  <2>5. OneTestProvider'
    <3>1. Tests \cap ion' = Tests \cap q.on
      BY <2>1, <2>2
    <3>. QED  BY <2>1, <3>1 DEF OneTestProvider, TestIdps
  <2>. QED  BY <2>1, <2>3, <2>4, <2>5, IdpIdleTyped, IdpGoes DEF Goes
<1>12. CASE AgidChanges \/ UNCHANGED idpVars
  <2>1. agid' \in Listed /\ UNCHANGED <<iin, ion, ioff, ireq, iclash, iraced>>
    BY <1>t, <1>12 DEF AgidChanges, idpVars, idpTable, IdpTypeOK
  <2>. QED
    BY <2>1 DEF IdpInv, IdpTypeOK, Switches, Unraced, OneTestProvider, TestIdps
<1>. QED  BY <1>1, <1>2, <1>3, <1>4, <1>5, <1>6, <1>7, <1>8, <1>9, <1>10, <1>11, <1>12
    DEF IdpNext

(* The test providers are never both on after a toggle of one of them that ran   *)
(* alone, whatever synchronisations and other toggles go on, but by a backup     *)
(* that has both on.                                                             *)
THEOREM OneTest == IdpSpec => []OneTestProvider
<1>1. IdpInv => OneTestProvider
  BY DEF IdpInv
<1>. QED  BY <1>1, IdpInvInit, IdpInvInductive, PTL DEF IdpSpec

(* Who switches a provider that has a row *)
LEMMA SwitchStep ==
  ASSUME IdpInv, [IdpNext]_idpVars, NEW i \in iin
  PROVE  /\ i \in ion \ ion' => \E r \in IdpRequests :
                                   \/ ireq[r].pc = "toggle" /\ ireq[r].off = {i}
                                   \/ Imported(r)
         /\ i \in ion' \ ion => \E r \in IdpRequests :
                                   /\ SwitchedBy(r, i)
                                   /\ i \in ioff => \/ ireq[r].pc \in {"toggle", "import"}
                                                   \/ r \in iclash
<1>t. /\ i \in Idps /\ i \notin Tests /\ IdpTypeOK
      /\ \A r \in IdpRequests : Switches(ireq[r])
  BY IdpsAssumption DEF IdpInv, IdpTypeOK
<1>1. ASSUME NEW r \in IdpRequests, CommitFlags(r)
      PROVE  /\ i \in ion \ ion' => ireq[r].pc = "toggle" /\ ireq[r].off = {i}
             /\ i \in ion' \ ion => /\ SwitchedBy(r, i)
                                    /\ i \in ioff => ireq[r].pc = "toggle" \/ r \in iclash
  <2>1. /\ ireq[r].pc \in {"test", "toggle", "all"}
        /\ ion' = (ion \cup ireq[r].on) \ ireq[r].off
        /\ ireq'[r].pc = "idle"
    BY <1>t, <1>1 DEF CommitFlags, IdpEnd, IdpTypeOK, IdpIdle
  <2>2. ireq[r].pc = "test" => i \notin ireq[r].on /\ i \notin ireq[r].off
    <3>1. \A t \in Tests : Other[t] \in Tests
      BY DEF Other, Tests
    <3>. QED  BY <1>t, <3>1 DEF Switches
  <2>3. i \in ion \ ion' => ireq[r].pc = "toggle" /\ ireq[r].off = {i}
    BY <1>t, <2>1, <2>2 DEF Switches
  <2>4. i \in ion' \ ion => SwitchedBy(r, i) /\ ireq[r].pc \in {"toggle", "all"}
    BY <2>1, <2>2 DEF SwitchedBy, Ends
  <2>5. i \in ireq[r].on /\ i \in ioff /\ ireq[r].pc = "all" => r \in iclash
    BY DEF IdpInv, Unraced
  <2>. QED  BY <2>3, <2>4, <2>5 DEF SwitchedBy, Ends
<1>2. ASSUME NEW r \in IdpRequests, CommitSync(r) PROVE i \in ion' <=> i \in ion
  BY <1>2 DEF CommitSync
<1>3. ASSUME NEW r \in IdpRequests,
             \/ \E t \in Tests : ToggleTest(r, t) \/ ReadOther(r, t)
             \/ \E j \in Idps : ToggleIdp(r, j)
             \/ EnableAll(r) \/ FetchList(r) \/ SelectRows(r) \/ SyncRefused(r) \/ IdpAbort(r)
             \/ \E fresh, on, marks : IdpImport(r, fresh, on, marks)
      PROVE  ion' = ion
  BY <1>3 DEF ToggleTest, ReadOther, ToggleIdp, EnableAll, FetchList, SelectRows, SyncRefused,
     IdpAbort, IdpImport, IdpBegin, idpTable
<1>4. ASSUME NEW r \in IdpRequests, CommitImport(r)
      PROVE  Imported(r) /\ (i \in ion' \ ion => SwitchedBy(r, i) /\ ireq[r].pc = "import")
  BY <1>t, <1>4 DEF CommitImport, IdpEnd, IdpTypeOK, IdpIdle, Imported, SwitchedBy, Ends
<1>5. CASE AgidChanges \/ UNCHANGED idpVars
  BY <1>5 DEF AgidChanges, idpVars, idpTable
<1>. QED  BY <1>1, <1>2, <1>3, <1>4, <1>5 DEF IdpNext

(* A synchronisation never moves the switch of a provider that has a row, and    *)
(* only its own toggle, a backup, or an enable-all that a synchronisation or an   *)
(* import overlapped, switches on one that AgID disabled.                        *)
THEOREM AdminsDecide == IdpSpec => AdminDecides
<1>1. IdpInv /\ [IdpNext]_idpVars
        => [\A i \in iin :
              /\ i \in ion \ ion'
                    => \E r \in IdpRequests :
                          \/ ireq[r].pc = "toggle" /\ ireq[r].off = {i}
                          \/ Imported(r)
              /\ i \in ion' \ ion
                    => \E r \in IdpRequests :
                          /\ SwitchedBy(r, i)
                          /\ i \in ioff
                                => ireq[r].pc \in {"toggle", "import"} \/ r \in iclash]_idpVars
  BY SwitchStep
<1>. QED  BY <1>1, IdpInvInit, IdpInvInductive, PTL DEF IdpSpec, AdminDecides

------------------------------------------------------------------------------
(* An activity that changed the file and has not reloaded SATOSA *)
Carries(a) == act[a].updated /\ act[a].pc \in {"sync", "providers", "generate"}

(* Who will load the aggregate, or owes it *)
Loading == loaded = agg \/ reload \/ owed \/ ~SatosaUp \/ \E a \in ConfigApi : Carries(a)

AggInv ==
    /\ AggTypeOK
    /\ \A a \in Activities : act[a].updated => Carries(a)
    /\ Loading
    /\ HashHonest

LEMMA AggInvInit == AggInit => AggInv
<1>. SUFFICES ASSUME AggInit PROVE AggInv
  OBVIOUS
<1>1. Idle \in Activity /\ ~Idle.updated
  BY DEF Idle, Activity
<1>2. AggTypeOK
  BY <1>1 DEF AggInit, AggTypeOK
<1>3. \A a \in Activities : ~act[a].updated
  BY <1>1 DEF AggInit
<1>. QED  BY <1>2, <1>3 DEF AggInit, AggInv, Loading, HashHonest

LEMMA Apart ==
  /\ Activities = ConfigApi \cup {"satosa"} /\ ConfigApi \subseteq Activities
  /\ "satosa" \in Activities /\ "satosa" \notin ConfigApi
  /\ "job" \in ConfigApi /\ "job" # "satosa" /\ "boot" \in ConfigApi
BY WatcherAssumption DEF ConfigApi, Activities

(* An activity that goes on with r: it carries no more than the step accounts for. *)
LEMMA AggGoes ==
  ASSUME AggInv, NEW a \in Activities, NEW r \in Activity, act' = [act EXCEPT ![a] = r],
         edition' \in Nat, agg' \in Nat, hash' \in Nat, loaded' \in Nat, mishaps' \in Nat,
         reload' \in BOOLEAN, owed' \in BOOLEAN, overtaken' \in BOOLEAN,
         HashHonest',
         r.updated => r.pc \in {"sync", "providers", "generate"},
         \/ loaded' = agg' \/ reload' \/ owed'
         \/ a = "satosa" /\ r.pc # "idle"
         \/ a # "satosa" /\ r.updated
         \/ /\ agg' = agg /\ loaded' = loaded /\ reload' = reload /\ owed' = owed
            /\ a = "satosa" => act[a].pc = "idle"
            /\ a # "satosa" => ~act[a].updated
  PROVE  AggInv'
<1>1. act'[a] = r /\ \A b \in Activities \ {a} : act'[b] = act[b]
  BY DEF AggInv, AggTypeOK
<1>2. AggTypeOK'
  BY DEF AggInv, AggTypeOK
<1>3. \A b \in Activities : act'[b].updated => Carries(b)'
  BY <1>1, Apart DEF AggInv, Carries
<1>4. Loading'
  <2>1. CASE loaded' = agg' \/ reload' \/ owed'
    BY <2>1 DEF Loading
  <2>2. CASE a = "satosa" /\ r.pc # "idle"
    BY <1>1, <2>2 DEF Loading, SatosaUp
  <2>3. CASE a # "satosa" /\ r.updated
    <3>1. a \in ConfigApi /\ act'[a].updated
      BY <1>1, <2>3, Apart
    <3>. QED  BY <1>3, <3>1, Apart DEF Loading
  <2>4. CASE /\ agg' = agg /\ loaded' = loaded /\ reload' = reload /\ owed' = owed
             /\ a = "satosa" => act[a].pc = "idle"
             /\ a # "satosa" => ~act[a].updated
    <3>1. CASE ~SatosaUp
      <4>1. a # "satosa" /\ act["satosa"].pc # "idle"
        BY <2>4, <3>1 DEF SatosaUp
      <4>. QED  BY <1>1, <4>1, Apart DEF Loading, SatosaUp
    <3>2. ASSUME NEW b \in ConfigApi, Carries(b) PROVE Loading'
      <4>1. b # a /\ act'[b] = act[b]
        BY <1>1, <2>4, <3>2, Apart DEF Carries
      <4>. QED  BY <3>2, <4>1 DEF Loading, Carries
    <3>3. CASE loaded = agg \/ reload \/ owed
      BY <2>4, <3>3 DEF Loading
    <3>. QED  BY <3>1, <3>2, <3>3 DEF AggInv, Loading
  <2>. QED  BY <2>1, <2>2, <2>3, <2>4
<1>5. \A b \in Activities : act[b].updated' => Carries(b)'
  BY <1>3
<1>. QED  BY <1>2, <1>4, <1>5 DEF AggInv

LEMMA AggInvInductive == AggInv /\ [AggNext]_aggVars => AggInv'
<1>. SUFFICES ASSUME AggInv, [AggNext]_aggVars PROVE AggInv'
  OBVIOUS
<1>t. /\ AggTypeOK /\ HashHonest
      /\ \A a \in Activities : act[a] \in Activity
      /\ \A a \in Activities : act[a].updated => act[a].pc \in {"sync", "providers", "generate"}
  BY DEF AggInv, AggTypeOK, Carries
<1>i. Idle \in Activity /\ ~Idle.updated /\ Idle.pc = "idle"
  BY DEF Idle, Activity
<1>f. ASSUME NEW a \in ConfigApi, NEW u \in BOOLEAN
      PROVE  \E r \in Activity :
                /\ Fetched(a, u) => act' = [act EXCEPT ![a] = r]
                /\ r.updated = u \/ (r = Idle /\ ~u)
                /\ r.updated => r.pc \in {"sync", "providers", "generate"}
  <2>1. AfterFetch(a, u) \in {"generate", "sync", "idle"} /\ (u => AfterFetch(a, u) # "idle")
    BY DEF AfterFetch
  <2>. DEFINE r == IF AfterFetch(a, u) = "idle" THEN Idle
                   ELSE [pc |-> AfterFetch(a, u), got |-> 0, updated |-> u]
  <2>2. r \in Activity
    BY <1>i, <2>1 DEF Activity
  <2>3. Fetched(a, u) => act' = [act EXCEPT ![a] = r]
    BY DEF Fetched
  <2>4. r.updated = u \/ (r = Idle /\ ~u)
    BY <2>1
  <2>5. r.updated => r.pc \in {"sync", "providers", "generate"}
    BY <1>i, <2>1
  <2>. QED  BY <2>2, <2>3, <2>4, <2>5
<1>1. CASE Publish \/ OtherChange \/ UNCHANGED aggVars
  <2>1. /\ edition' \in Nat /\ UNCHANGED <<agg, hash, loaded, act, owed, overtaken, mishaps>>
        /\ reload' = reload \/ reload' = TRUE
    BY <1>t, <1>1 DEF Publish, OtherChange, aggVars, volume, AggTypeOK
  <2>2. AggTypeOK' /\ HashHonest'
    BY <1>t, <2>1 DEF AggTypeOK, HashHonest
  <2>3. \A a \in Activities : Carries(a) <=> Carries(a)'
    BY <2>1 DEF Carries
  <2>4. Loading'
    BY <2>1, <2>3, Apart DEF AggInv, Loading, SatosaUp
  <2>5. \A a \in Activities : act'[a].updated => Carries(a)'
    BY <2>1, <2>3 DEF AggInv
  <2>. QED  BY <2>2, <2>4, <2>5 DEF AggInv
<1>2. ASSUME NEW a \in Activities, StartFetch(a) PROVE AggInv'
  <2>. DEFINE r == [act[a] EXCEPT !.pc = "fetch"]
  <2>1. /\ act[a].pc = "idle" /\ act' = [act EXCEPT ![a] = r] /\ a \in ConfigApi
        /\ UNCHANGED <<edition, agg, hash, reload, loaded, owed, overtaken, mishaps>>
    BY <1>2 DEF StartFetch, At, Go, volume, ConfigApi
  <2>2. r \in Activity /\ r.updated = act[a].updated /\ ~act[a].updated
    BY <1>t, <2>1 DEF Activity
  <2>. HIDE DEF r
  <2>. QED  BY <1>t, <2>1, <2>2, Apart, AggGoes DEF AggTypeOK, HashHonest
<1>3. ASSUME NEW a \in Activities, Download(a) PROVE AggInv'
  <2>. DEFINE r == [act[a] EXCEPT !.pc = "store", !.got = edition]
  <2>1. /\ act[a].pc = "fetch" /\ act' = [act EXCEPT ![a] = r]
        /\ UNCHANGED <<edition, agg, hash, reload, loaded, owed, overtaken, mishaps>>
    BY <1>3 DEF Download, At, volume
  <2>2. r \in Activity /\ r.pc = "store" /\ ~r.updated /\ ~act[a].updated
    BY <1>t, <2>1 DEF Activity, AggTypeOK
  <2>. HIDE DEF r
  <2>3. a = "satosa" => r.pc # "idle"
    BY <2>2
  <2>. QED  BY <1>t, <2>1, <2>2, <2>3, AggGoes DEF AggTypeOK, HashHonest
<1>4. ASSUME NEW a \in Activities, DownloadFails(a) PROVE AggInv'
  <2>1. /\ act[a].pc = "fetch" /\ ~act[a].updated /\ mishaps' \in Nat
        /\ UNCHANGED <<edition, agg, hash, reload, loaded, owed, overtaken>>
    BY <1>t, <1>4 DEF DownloadFails, At, Mishap, volume, AggTypeOK
  <2>2. CASE a = "satosa"
    <3>. DEFINE r == [act[a] EXCEPT !.pc = "generate"]
    <3>1. act' = [act EXCEPT ![a] = r]
      BY <1>4, <2>2 DEF DownloadFails, Go
    <3>2. r \in Activity /\ r.pc = "generate" /\ ~r.updated
      BY <1>t, <2>1 DEF Activity
    <3>. HIDE DEF r
    <3>3. r.pc # "idle"
      BY <3>2
    <3>. QED  BY <1>t, <2>1, <2>2, <3>1, <3>2, <3>3, AggGoes DEF AggTypeOK, HashHonest
  <2>3. CASE a # "satosa" /\ a \in AggRequests
    <3>1. act' = [act EXCEPT ![a] = Idle]
      BY <1>4, <2>3 DEF DownloadFails, Finish
    <3>. QED  BY <1>t, <1>i, <2>1, <2>3, <3>1, AggGoes DEF AggTypeOK, HashHonest
  <2>4. CASE a # "satosa" /\ a \notin AggRequests
    <3>1. a \in ConfigApi /\ Fetched(a, FALSE)
      BY <1>4, <2>4, Apart DEF DownloadFails
    <3>2. PICK r \in Activity : act' = [act EXCEPT ![a] = r] /\ ~r.updated
      BY <1>f, <1>i, <3>1
    <3>. QED  BY <1>t, <2>1, <2>4, <3>2, AggGoes DEF AggTypeOK, HashHonest
  <2>. QED  BY <2>2, <2>3, <2>4
<1>5. ASSUME NEW a \in Activities, Unchanged(a) PROVE AggInv'
  <2>1. /\ a \in ConfigApi /\ act[a].pc = "store" /\ ~act[a].updated /\ Fetched(a, FALSE)
        /\ UNCHANGED <<edition, agg, hash, reload, loaded, owed, overtaken, mishaps>>
    BY <1>t, <1>5 DEF Unchanged, At, volume
  <2>2. PICK r \in Activity : act' = [act EXCEPT ![a] = r] /\ ~r.updated
    BY <1>f, <1>i, <2>1
  <2>. QED  BY <1>t, <2>1, <2>2, Apart, AggGoes DEF AggTypeOK, HashHonest
<1>6. ASSUME NEW a \in Activities, Store(a) PROVE AggInv'
  <2>1. /\ a \in ConfigApi /\ Fetched(a, TRUE) /\ agg' = act[a].got /\ hash' = act[a].got
        /\ UNCHANGED <<edition, reload, loaded, owed, mishaps>> /\ overtaken' = FALSE
    BY <1>6 DEF Store
  <2>2. act[a].got \in Nat
    BY <1>t DEF Activity
  <2>3. PICK r \in Activity : /\ act' = [act EXCEPT ![a] = r] /\ r.updated
                              /\ r.pc \in {"sync", "providers", "generate"}
    BY <1>f, <2>1
  <2>4. HashHonest'
    BY <2>1, <2>2 DEF HashHonest
  <2>. QED  BY <1>t, <2>1, <2>2, <2>3, <2>4, Apart, AggGoes DEF AggTypeOK
<1>7. ASSUME NEW a \in Activities, Regenerated(a) PROVE AggInv'
  <2>1. /\ act' = [act EXCEPT ![a] = Idle] /\ reload' = TRUE
        /\ UNCHANGED <<edition, agg, hash, loaded, owed, overtaken, mishaps>>
    BY <1>7 DEF Regenerated, Finish, volume
  <2>. QED  BY <1>t, <1>i, <2>1, AggGoes DEF AggTypeOK, HashHonest
<1>8. ASSUME Sync \/ Providers(TRUE) \/ Providers(FALSE) PROVE AggInv'
  <2>1. /\ UNCHANGED <<edition, agg, hash, reload, loaded, owed, overtaken, mishaps>>
        /\ "job" \in Activities /\ "job" # "satosa"
    BY <1>8, Apart DEF Sync, Providers, volume
  <2>2. CASE \E pc \in {"providers", "generate"} : Go("job", pc)
    <3>1. PICK pc \in {"providers", "generate"} : Go("job", pc)
      BY <2>2
    <3>. DEFINE r == [act["job"] EXCEPT !.pc = pc]
    <3>2. act' = [act EXCEPT !["job"] = r]
      BY <3>1 DEF Go
    <3>3. r \in Activity /\ r.pc \in {"providers", "generate"} /\ r.updated = act["job"].updated
      BY <1>t, <2>1 DEF Activity
    <3>. HIDE DEF r
    <3>4. r.updated \/ ~act["job"].updated
      BY <1>t, <2>1, <3>3
    <3>. QED  BY <1>t, <2>1, <3>2, <3>3, <3>4, AggGoes DEF AggTypeOK, HashHonest
  <2>3. CASE ~(\E pc \in {"providers", "generate"} : Go("job", pc))
    <3>1. Finish("job") /\ ~act["job"].updated
      BY <1>8, <2>3 DEF Sync, Providers
    <3>2. act' = [act EXCEPT !["job"] = Idle]
      BY <3>1 DEF Finish
    <3>. QED  BY <1>t, <1>i, <2>1, <3>1, <3>2, AggGoes DEF AggTypeOK, HashHonest
  <2>. QED  BY <2>2, <2>3
<1>9. ASSUME NEW a \in Activities, Dies(a) PROVE AggInv'
  <2>1. /\ a \in ConfigApi /\ act' = [act EXCEPT ![a] = Idle] /\ mishaps' \in Nat
        /\ owed' = (owed \/ act[a].updated)
        /\ UNCHANGED <<edition, agg, hash, reload, loaded, overtaken>>
    BY <1>t, <1>9 DEF Dies, Finish, Mishap, volume, AggTypeOK, ConfigApi
  <2>2. act[a].updated \in BOOLEAN /\ owed' \in BOOLEAN
    BY <1>t, <2>1 DEF Activity, AggTypeOK
  <2>3. CASE owed'
    BY <1>t, <1>i, <2>1, <2>2, <2>3, AggGoes DEF AggTypeOK, HashHonest
  <2>4. CASE ~owed'
    <3>1. owed' = owed /\ ~act[a].updated
      BY <1>t, <2>1, <2>2, <2>4 DEF AggTypeOK
    <3>. QED  BY <1>t, <1>i, <2>1, <2>2, <3>1, Apart, AggGoes DEF AggTypeOK, HashHonest
  <2>. QED  BY <2>3, <2>4
<1>10. CASE Crash
  <2>. DEFINE stops(b) == IF b = "boot" THEN [Idle EXCEPT !.pc = "fetch"]
                          ELSE IF b \in ConfigApi THEN Idle ELSE act[b]
  <2>1. PICK stored \in BOOLEAN : /\ Restart(stored)
                                  /\ (agg' = agg /\ UNCHANGED <<hash, overtaken>>) \/ stored
    BY <1>10 DEF Crash, volume
  <2>2. /\ edition' = edition /\ reload' = reload /\ loaded' = loaded /\ mishaps' \in Nat
        /\ act' = [b \in Activities |-> stops(b)]
        /\ owed' = (owed \/ stored \/ \E b \in ConfigApi : act[b].updated)
    BY <1>t, <2>1 DEF Restart, Mishap, AggTypeOK
  <2>3. \A b \in Activities : /\ stops(b) \in Activity
                              /\ stops(b).updated => ~(b \in ConfigApi) /\ stops(b) = act[b]
    BY <1>t, <1>i, Apart DEF Activity, Idle
  <2>4. /\ agg' \in Nat /\ hash' \in Nat /\ overtaken' \in BOOLEAN /\ HashHonest'
    <3>1. CASE UNCHANGED <<volume, overtaken>>
      BY <1>t, <3>1 DEF AggTypeOK, HashHonest, volume
    <3>2. ASSUME NEW b \in ConfigApi, agg' = act[b].got, overtaken' = (act[b].got < hash),
                 hash' = hash
          PROVE  agg' \in Nat /\ hash' \in Nat /\ overtaken' \in BOOLEAN /\ HashHonest'
      <4>1. act[b].got \in Nat /\ hash \in Nat
        BY <1>t, Apart DEF Activity, AggTypeOK
      <4>2. overtaken' \in BOOLEAN
        BY <3>2
      <4>3. ASSUME ~overtaken' PROVE hash' <= agg'
        <5>1. ~(act[b].got < hash)
          BY <3>2, <4>3, Zenon
        <5>2. hash <= act[b].got
          BY <4>1, <5>1
        <5>. QED  BY <3>2, <5>2, Zenon
      <4>. QED  BY <3>2, <4>1, <4>2, <4>3 DEF HashHonest
    <3>. QED  BY <1>10, <3>1, <3>2 DEF Crash
  <2>5. AggTypeOK'
    BY <1>t, <2>2, <2>3, <2>4 DEF AggTypeOK
  <2>6. \A b \in Activities : act'[b].updated => Carries(b)'
    BY <1>t, <2>2, <2>3 DEF Carries
  <2>7. Loading'
    <3>1. CASE owed'
      BY <3>1 DEF Loading
    <3>2. CASE ~owed'
      <4>1. agg' = agg /\ \A b \in ConfigApi : ~act[b].updated
        BY <2>1, <2>2, <3>2
      <4>2. loaded = agg \/ reload \/ ~SatosaUp
        BY <2>2, <3>2, <4>1 DEF AggInv, Loading, Carries
      <4>3. act'["satosa"] = act["satosa"]
        BY <2>2, Apart
      <4>. QED  BY <2>2, <4>1, <4>2, <4>3 DEF Loading, SatosaUp
    <3>. QED  BY <3>1, <3>2
  <2>. QED  BY <2>4, <2>5, <2>6, <2>7 DEF AggInv
<1>11. CASE SatosaReload
  <2>1. /\ loaded' = agg /\ reload' = FALSE /\ owed' = FALSE
        /\ UNCHANGED <<edition, agg, hash, act, overtaken, mishaps>>
    BY <1>11 DEF SatosaReload, volume
  <2>2. AggTypeOK' /\ HashHonest'
    BY <1>t, <2>1 DEF AggTypeOK, HashHonest
  <2>3. \A a \in Activities : act'[a].updated => Carries(a)'
    BY <2>1 DEF AggInv, Carries
  <2>. QED  BY <2>1, <2>2, <2>3 DEF AggInv, Loading
<1>12. CASE SatosaStops
  <2>. DEFINE r == [act["satosa"] EXCEPT !.pc = "fetch"]
  <2>1. /\ act["satosa"].pc = "idle" /\ act' = [act EXCEPT !["satosa"] = r] /\ mishaps' \in Nat
        /\ UNCHANGED <<edition, agg, hash, reload, loaded, owed, overtaken>>
    BY <1>t, <1>12 DEF SatosaStops, SatosaUp, Go, Mishap, volume, AggTypeOK
  <2>2. r \in Activity /\ r.pc = "fetch" /\ ~r.updated
    BY <1>t, <2>1, Apart DEF Activity
  <2>. HIDE DEF r
  <2>3. r.pc # "idle"
    BY <2>2
  <2>. QED  BY <1>t, <2>1, <2>2, <2>3, Apart, AggGoes DEF AggTypeOK, HashHonest
<1>13. CASE SatosaStores
  <2>. DEFINE r == [act["satosa"] EXCEPT !.pc = "generate"]
  <2>1. /\ act["satosa"].pc = "store" /\ act' = [act EXCEPT !["satosa"] = r]
        /\ agg' = act["satosa"].got /\ overtaken' = (act["satosa"].got < hash)
        /\ UNCHANGED <<edition, hash, reload, loaded, owed, mishaps>>
    BY <1>13 DEF SatosaStores, At, Go
  <2>2. r \in Activity /\ r.pc = "generate" /\ ~r.updated
    BY <1>t, <2>1, Apart DEF Activity
  <2>3. act["satosa"].got \in Nat /\ hash \in Nat
    BY <1>t, Apart DEF Activity, AggTypeOK
  <2>4. overtaken' \in BOOLEAN
    BY <2>1
  <2>5. HashHonest'
    <3>1. ASSUME ~overtaken' PROVE hash' <= agg'
      <4>1. ~(act["satosa"].got < hash)
        BY <2>1, <3>1, Zenon
      <4>2. hash <= act["satosa"].got
        BY <2>3, <4>1
      <4>. QED  BY <2>1, <4>2, Zenon
    <3>. QED  BY <3>1 DEF HashHonest
  <2>. HIDE DEF r
  <2>6. r.pc # "idle"
    BY <2>2
  <2>. QED  BY <1>t, <2>1, <2>2, <2>3, <2>4, <2>5, <2>6, Apart, AggGoes DEF AggTypeOK
<1>14. CASE SatosaStarts
  <2>1. /\ act' = [act EXCEPT !["satosa"] = Idle] /\ loaded' = agg /\ reload' = FALSE
        /\ owed' = FALSE /\ UNCHANGED <<edition, agg, hash, overtaken, mishaps>>
    BY <1>14 DEF SatosaStarts, Finish, volume
  <2>. QED  BY <1>t, <1>i, <2>1, Apart, AggGoes DEF AggTypeOK, HashHonest
<1>. QED
  BY <1>1, <1>2, <1>3, <1>4, <1>5, <1>6, <1>7, <1>8, <1>9, <1>10, <1>11, <1>12, <1>13, <1>14
  DEF AggNext, Progress

LEMMA AggInvAlways == AggSpec => []AggInv
BY AggInvInit, AggInvInductive, PTL DEF AggSpec

(* For any number of requests, publications and failures: .spid-aggregate-hash *)
(* never vouches for an aggregate newer than the file, unless an older file    *)
(* was put over it.                                                            *)
THEOREM HashIsHonest == AggSpec => []HashHonest
<1>1. AggInv => HashHonest
  BY DEF AggInv
<1>. QED  BY <1>1, AggInvAlways, PTL

(* For any number of requests, publications and failures: when everything is   *)
(* at rest SATOSA uses the aggregate of the volume, unless a fetch that        *)
(* changed it died before its reload.                                          *)
THEOREM Loaded == AggSpec => []AggregateLoaded
<1>1. AggInv => AggregateLoaded
  <2>. SUFFICES ASSUME AggInv, \A a \in Activities : At(a, "idle"), ~reload, ~owed
                PROVE  loaded = agg
    BY DEF AggregateLoaded
  <2>1. SatosaUp /\ \A a \in ConfigApi : ~Carries(a)
    BY Apart DEF SatosaUp, At, Carries
  <2>. QED  BY <2>1 DEF AggInv, Loading
<1>. QED  BY <1>1, AggInvAlways, PTL

(* A fetch that finds nothing new skips no aggregate that SATOSA will not use: *)
(* it has loaded it or a newer one, or is about to.                            *)
SkippedIsLoaded ==
    [][\A a \in ConfigApi :
          Unchanged(a)
            => \/ loaded >= act[a].got
               \/ reload \/ ~SatosaUp \/ \E b \in ConfigApi : Carries(b)
               \/ owed \/ overtaken]_aggVars

(* For any number of requests, publications, failures and restarts: when         *)
(* fetch_spid_aggregate answers that the hash is unchanged, the aggregate it     *)
(* downloaded is loaded, or a reload of it is on its way, unless a fetch died     *)
(* before its reload or an older file was moved over.  With the scheduler's       *)
(* fairness this is why a rotated certificate reaches SATOSA.                     *)
THEOREM SkipsNothing == AggSpec => SkippedIsLoaded
<1>1. AggInv /\ [AggNext]_aggVars
        => [\A a \in ConfigApi :
              Unchanged(a)
                => \/ loaded >= act[a].got
                   \/ reload \/ ~SatosaUp \/ \E b \in ConfigApi : Carries(b)
                   \/ owed \/ overtaken]_aggVars
  <2>. SUFFICES ASSUME AggInv, NEW a \in ConfigApi, Unchanged(a), ~reload, SatosaUp,
                       ~(\E b \in ConfigApi : Carries(b)), ~owed, ~overtaken
                PROVE  loaded >= act[a].got
    OBVIOUS
  <2>1. loaded = agg /\ hash <= agg /\ act[a].got = hash
    BY DEF AggInv, Loading, HashHonest, Unchanged
  <2>2. loaded \in Nat /\ hash \in Nat /\ agg \in Nat
    BY DEF AggInv, AggTypeOK
  <2>. QED  BY <2>1, <2>2
<1>. QED  BY <1>1, AggInvAlways, PTL DEF AggSpec, SkippedIsLoaded

------------------------------------------------------------------------------
(* Nothing is logged in the future, and what a run has counted is still all *)
(* there is before its cutoff.                                              *)
RetInv ==
    /\ RetTypeOK
    /\ \A h \in Halves, g \in Groups : h > today => log[<<h, g>>] = 0
    /\ run.pc = "store"
         => /\ run.cutoff <= today
            /\ \A c \in Cells : run.cells[c] = Logged(log, c, run.cutoff - 1)
    /\ StatsAddUp

LEMMA MonthOfHalf ==
  ASSUME NEW h \in Halves
  PROVE  /\ Month(h) \in Months
         /\ h = 2 * Month(h) - 1 \/ h = 2 * Month(h)
BY RetentionAssumption DEF Month, Months, Halves

LEMMA CellType ==
  ASSUME NEW c \in Cells
  PROVE  c[1] \in Months /\ c[1] \in Int /\ c[2] \in Groups
BY DEF Cells, Months

LEMMA LoggedType ==
  ASSUME NEW l \in [Halves \X Groups -> Nat], NEW c \in Cells, NEW last \in Int
  PROVE  Logged(l, c, last) \in Nat
<1>1. ASSUME NEW h \in Int PROVE LoggedIn(l, h, c[2], last) \in Nat
  BY CellType DEF LoggedIn
<1>2. 2 * c[1] - 1 \in Int /\ 2 * c[1] \in Int
  BY CellType
<1>. QED  BY <1>1, <1>2 DEF Logged

(* Two logs that agree up to some half are counted alike up to it ... *)
LEMMA LoggedAlike ==
  ASSUME NEW l, NEW k, NEW c \in Cells, NEW last \in Int,
         \A h \in Halves : h <= last => k[<<h, c[2]>>] = l[<<h, c[2]>>]
  PROVE  Logged(l, c, last) = Logged(k, c, last)
BY CellType DEF Logged, LoggedIn

(* ... and halves without rows do not count. *)
LEMMA LoggedLonger ==
  ASSUME NEW l, NEW c \in Cells, NEW last \in Int, NEW longer \in Int, last <= longer,
         \A h \in Halves : h > last => l[<<h, c[2]>>] = 0
  PROVE  Logged(l, c, longer) = Logged(l, c, last)
<1>1. \A h \in Halves : h \in Int
  BY DEF Halves
<1>2. ASSUME NEW h \in Int PROVE LoggedIn(l, h, c[2], longer) = LoggedIn(l, h, c[2], last)
  BY <1>1 DEF LoggedIn
<1>3. 2 * c[1] - 1 \in Int /\ 2 * c[1] \in Int
  BY CellType
<1>. QED  BY <1>2, <1>3 DEF Logged

LEMMA RetInvInit == RetInit => RetInv
<1>. SUFFICES ASSUME RetInit PROVE RetInv
  OBVIOUS
<1>1. RetTypeOK
  BY RetentionAssumption DEF RetInit, RetTypeOK, Halves, Zero, NoRun
<1>2. \A c \in Cells : Logged(log, c, today) = 0
  BY CellType DEF RetInit, Logged, LoggedIn
<1>3. StatsAddUp
  BY <1>2 DEF RetInit, StatsAddUp, Zero
<1>. QED  BY <1>1, <1>3 DEF RetInit, RetInv, NoRun

LEMMA RetInvInductive == RetInv /\ [RetNext]_retVars => RetInv'
<1>. SUFFICES ASSUME RetInv, [RetNext]_retVars PROVE RetInv'
  OBVIOUS
<1>t. /\ RetTypeOK /\ StatsAddUp
      /\ today \in Int /\ run.cutoff \in Int /\ \A h \in Halves : h \in Int
      /\ \A c \in Cells : /\ counts[c] \in Nat /\ stats[c] \in Nat /\ logins[c] \in Nat
                          /\ run.cells[c] \in Nat
  BY DEF RetInv, RetTypeOK, Halves
<1>1. ASSUME NEW g \in Groups, LogAccess(g) PROVE RetInv'
  <2>. DEFINE m == <<Month(today), g>>
  <2>1. m \in Cells
    BY <1>t, MonthOfHalf DEF RetTypeOK, Cells
  <2>2. /\ log' = [log EXCEPT ![<<today, g>>] = @ + 1]
        /\ logins' = [logins EXCEPT ![m] = @ + 1]
        /\ UNCHANGED <<today, stats, counts, run>>
    BY <1>1 DEF LogAccess
  <2>3. RetTypeOK'
    BY <1>t, <2>1, <2>2 DEF RetTypeOK
  <2>4. \A h \in Halves, f \in Groups :
           log'[<<h, f>>] = IF h = today /\ f = g THEN log[<<h, f>>] + 1 ELSE log[<<h, f>>]
    BY <1>t, <2>2 DEF RetTypeOK
  <2>5. \A h \in Halves, f \in Groups : h > today' => log'[<<h, f>>] = 0
    BY <1>t, <2>2, <2>4 DEF RetInv
  <2>6. ASSUME run'.pc = "store", NEW c \in Cells
        PROVE  run'.cutoff <= today' /\ run'.cells[c] = Logged(log', c, run'.cutoff - 1)
    <3>1. run.cutoff <= today /\ run.cells[c] = Logged(log, c, run.cutoff - 1)
      BY <2>2, <2>6 DEF RetInv
    <3>2. Logged(log', c, run.cutoff - 1) = Logged(log, c, run.cutoff - 1)
      <4>1. run.cutoff - 1 \in Int /\ run.cutoff - 1 < today
        BY <1>t, <3>1
      <4>2. \A h \in Halves : h <= run.cutoff - 1 => log[<<h, c[2]>>] = log'[<<h, c[2]>>]
        BY <1>t, <2>4, <4>1, CellType
      <4>. QED  BY <4>1, <4>2, LoggedAlike
    <3>. QED  BY <2>2, <3>1, <3>2
  <2>7. ASSUME NEW c \in Cells
        PROVE  Logged(log', c, today) = IF c = m THEN Logged(log, c, today) + 1
                                        ELSE Logged(log, c, today)
    <3>1. c[1] \in Int /\ c[2] \in Groups /\ (c = m <=> c[1] = Month(today) /\ c[2] = g)
      BY CellType DEF Cells
    <3>2. /\ Month(today) \in Int
          /\ today = 2 * Month(today) - 1 \/ today = 2 * Month(today)
      BY <1>t, MonthOfHalf DEF RetTypeOK, Months
    <3>3. /\ \A h \in Halves : log[<<h, c[2]>>] \in Nat
          /\ today \in Halves
      BY <1>t, <3>1 DEF RetTypeOK
    <3>4. CASE c[2] # g
      BY <2>4, <3>1, <3>4 DEF Logged, LoggedIn
    <3>5. CASE c[2] = g
      <4>1. CASE c[1] = Month(today)
        BY <1>t, <2>4, <3>1, <3>2, <3>3, <3>5, <4>1 DEF Logged, LoggedIn
      <4>2. CASE c[1] # Month(today)
        BY <1>t, <2>4, <3>1, <3>2, <3>3, <3>5, <4>2 DEF Logged, LoggedIn
      <4>. QED  BY <4>1, <4>2
    <3>. QED  BY <3>4, <3>5
  <2>8. StatsAddUp'
    <3>. SUFFICES ASSUME NEW c \in Cells
                  PROVE  /\ counts'[c] + Logged(log', c, today') = logins'[c]
                         /\ c[2] \notin NullGroups => stats'[c] <= 1
      BY DEF StatsAddUp
    <3>1. counts[c] + Logged(log, c, today) = logins[c]
      BY <1>t DEF StatsAddUp
    <3>2. logins'[c] = IF c = m THEN logins[c] + 1 ELSE logins[c]
      BY <1>t, <2>2 DEF RetTypeOK
    <3>3. Logged(log, c, today) \in Nat
      BY <1>t, LoggedType DEF RetTypeOK
    <3>4. counts'[c] + Logged(log', c, today') = logins'[c]
      <4>1. counts'[c] = counts[c] /\ today' = today
        BY <2>2
      <4>2. Logged(log', c, today) = IF c = m THEN Logged(log, c, today) + 1
                                     ELSE Logged(log, c, today)
        BY <2>7
      <4>3. counts[c] \in Nat /\ logins[c] \in Nat
        BY <1>t
      <4>. HIDE DEF m, Logged
      <4>. QED  BY <3>1, <3>2, <3>3, <4>1, <4>2, <4>3
    <3>. QED  BY <1>t, <2>2, <3>4 DEF StatsAddUp
  <2>. QED  BY <2>3, <2>5, <2>6, <2>8, <2>2, <1>t DEF RetInv
<1>2. CASE HalfMonthPasses
  <2>1. today' = today + 1 /\ today' \in Halves /\ UNCHANGED <<log, stats, counts, run, logins>>
    BY <1>2, RetentionAssumption, <1>t DEF HalfMonthPasses, retTable, RetTypeOK, Halves
  <2>2. RetTypeOK'
    BY <1>t, <2>1 DEF RetTypeOK
  <2>3. ASSUME NEW c \in Cells PROVE Logged(log, c, today) = Logged(log, c, today')
    <3>1. today' \in Int /\ today <= today'
      BY <1>t, <2>1
    <3>2. \A h \in Halves : h > today => log[<<h, c[2]>>] = 0
      BY CellType DEF RetInv
    <3>. QED  BY <1>t, <3>1, <3>2, LoggedLonger
  <2>4. StatsAddUp'
    BY <1>t, <2>1, <2>3 DEF StatsAddUp
  <2>5. \A h \in Halves, g \in Groups : h > today' => log'[<<h, g>>] = 0
    BY <1>t, <2>1 DEF RetInv
  <2>6. run'.pc = "store"
          => /\ run'.cutoff <= today'
             /\ \A c \in Cells : run'.cells[c] = Logged(log', c, run'.cutoff - 1)
    BY <1>t, <2>1 DEF RetInv
  <2>. QED  BY <2>2, <2>4, <2>5, <2>6 DEF RetInv
<1>3. CASE CountOld
  <2>. DEFINE cutoff == today - Retained
  <2>1. /\ run' = [pc |-> "store", cutoff |-> cutoff,
                   cells |-> [c \in Cells |-> Logged(log, c, cutoff - 1)]]
        /\ UNCHANGED <<today, log, stats, counts, logins>>
    BY <1>3 DEF CountOld, retTable
  <2>2. cutoff \in Int /\ cutoff - 1 \in Int /\ cutoff <= today
    BY <1>t, RetentionAssumption
  <2>. HIDE DEF cutoff
  <2>3. RetTypeOK'
    BY <1>t, <2>1, <2>2, LoggedType DEF RetTypeOK
  <2>. QED  BY <1>t, <2>1, <2>2, <2>3 DEF RetInv, StatsAddUp
<1>4. CASE StoreCounts
  <2>1. /\ run.pc = "store" /\ run' = NoRun
        /\ UNCHANGED <<today, logins>>
        /\ stats' = [c \in Cells |->
                       IF run.cells[c] > 0 /\ ~Conflicts(c) THEN stats[c] + 1 ELSE stats[c]]
        /\ counts' = [c \in Cells |-> counts[c] + run.cells[c]]
        /\ log' = [e \in Halves \X Groups |-> IF e[1] < run.cutoff THEN 0 ELSE log[e]]
    BY <1>4 DEF StoreCounts
  <2>2. \A h \in Halves, g \in Groups :
           log'[<<h, g>>] = IF h < run.cutoff THEN 0 ELSE log[<<h, g>>]
    BY <2>1
  <2>3. RetTypeOK'
    <3>1. log' \in [Halves \X Groups -> Nat]
      BY <1>t, <2>1 DEF RetTypeOK
    <3>2. stats' \in [Cells -> Nat] /\ counts' \in [Cells -> Nat]
      BY <1>t, <2>1
    <3>3. NoRun \in [pc : {"idle", "store"}, cutoff : Int, cells : [Cells -> Nat]]
      BY DEF NoRun, Zero
    <3>. QED  BY <1>t, <2>1, <3>1, <3>2, <3>3 DEF RetTypeOK
  <2>4. \A h \in Halves, g \in Groups : h > today' => log'[<<h, g>>] = 0
    BY <2>1, <2>2 DEF RetInv
  <2>5. ASSUME NEW c \in Cells
        PROVE  Logged(log', c, today) + run.cells[c] = Logged(log, c, today)
    <3>1. run.cutoff <= today /\ run.cells[c] = Logged(log, c, run.cutoff - 1)
      BY <2>1 DEF RetInv
    <3>2. /\ c[1] \in Int /\ c[2] \in Groups
          /\ \A h \in Halves : log[<<h, c[2]>>] \in Nat
      BY <1>t, CellType DEF RetTypeOK
    <3>3. ASSUME NEW h \in Int
          PROVE  LoggedIn(log', h, c[2], today) + LoggedIn(log, h, c[2], run.cutoff - 1)
                    = LoggedIn(log, h, c[2], today)
      BY <1>t, <2>2, <3>1, <3>2 DEF LoggedIn
    <3>4. ASSUME NEW h \in Int
          PROVE  /\ LoggedIn(log', h, c[2], today) \in Nat
                 /\ LoggedIn(log, h, c[2], run.cutoff - 1) \in Nat
                 /\ LoggedIn(log, h, c[2], today) \in Nat
      BY <2>2, <3>2 DEF LoggedIn
    <3>5. 2 * c[1] - 1 \in Int /\ 2 * c[1] \in Int
      BY <3>2
    <3>. QED  BY <3>1, <3>3, <3>4, <3>5 DEF Logged
  <2>6. StatsAddUp'
    <3>. SUFFICES ASSUME NEW c \in Cells
                  PROVE  /\ counts'[c] + Logged(log', c, today') = logins'[c]
                         /\ c[2] \notin NullGroups => stats'[c] <= 1
      BY DEF StatsAddUp
    <3>1. counts[c] + Logged(log, c, today) = logins[c]
      BY <1>t DEF StatsAddUp
    <3>2. Logged(log, c, today) \in Nat /\ Logged(log', c, today) \in Nat
      BY <1>t, <2>3, LoggedType DEF RetTypeOK
    <3>3. counts'[c] + Logged(log', c, today') = logins'[c]
      <4>1. counts'[c] = counts[c] + run.cells[c] /\ logins'[c] = logins[c] /\ today' = today
        BY <2>1
      <4>2. Logged(log', c, today) + run.cells[c] = Logged(log, c, today)
        BY <2>5
      <4>. HIDE DEF Logged
      <4>. QED  BY <1>t, <3>1, <3>2, <4>1, <4>2
    <3>4. c[2] \notin NullGroups => stats'[c] <= 1
      BY <1>t, <2>1 DEF StatsAddUp, Conflicts
    <3>. QED  BY <3>3, <3>4
  <2>. QED  BY <2>1, <2>3, <2>4, <2>6 DEF RetInv, NoRun
<1>5. CASE RunFails
  <2>1. run' = NoRun /\ UNCHANGED <<today, log, stats, counts, logins>>
    BY <1>5 DEF RunFails, retTable
  <2>2. NoRun \in [pc : {"idle", "store"}, cutoff : Int, cells : [Cells -> Nat]]
    BY DEF NoRun, Zero
  <2>3. RetTypeOK'
    BY <1>t, <2>1, <2>2 DEF RetTypeOK
  <2>. QED  BY <1>t, <2>1, <2>3 DEF RetInv, NoRun, StatsAddUp
<1>6. CASE UNCHANGED retVars
  BY <1>t, <1>6 DEF retVars, retTable, RetInv, RetTypeOK, StatsAddUp
<1>. QED  BY <1>1, <1>2, <1>3, <1>4, <1>5, <1>6 DEF RetNext

LEMMA RetInvAlways == RetSpec => []RetInv
BY RetInvInit, RetInvInductive, PTL DEF RetSpec

(* For any groups, retention, rate of logins and failed runs: every login is  *)
(* counted once, in the log or in the monthly counts, and a group without     *)
(* NULL has one row of counts for a month.                                    *)
THEOREM CountedOnce == RetSpec => []StatsAddUp
<1>1. RetInv => StatsAddUp
  BY DEF RetInv
<1>. QED  BY <1>1, RetInvAlways, PTL

------------------------------------------------------------------------------
(* The composition: a step of one part is none of the others. *)
LEMMA StepsApart ==
  [Next]_jobsVars
    => [EidasNext]_eidasVars /\ [IdpNext]_idpVars /\ [AggNext]_aggVars /\ [RetNext]_retVars
BY DEF Next, jobsVars, In

(* What TLC explores as one specification is a behaviour of each of the four   *)
(* parts, so that their theorems are theorems about it.                        *)
THEOREM Composed == Spec => EidasSpec /\ IdpSpec /\ AggSpec /\ RetSpec
<1>1. Init => EidasInit /\ IdpInit /\ AggInit /\ RetInit
  BY DEF Init
<1>. QED  BY <1>1, StepsApart, PTL DEF Spec, EidasSpec, IdpSpec, AggSpec, RetSpec

(* Every variable of the four keeps its type, the counts of the log among them. *)
THEOREM JobsTypeCorrect == Spec => []JobsTypeOK
<1>1. EidasInv /\ IdpInv /\ AggInv /\ RetInv => JobsTypeOK
  BY DEF EidasInv, IdpInv, AggInv, RetInv, JobsTypeOK
<1>. QED  BY <1>1, Composed, EidasInvInit, EidasInvInductive, IdpInvInit, IdpInvInductive,
          AggInvAlways, RetInvAlways, PTL DEF EidasSpec, IdpSpec
==============================================================================
