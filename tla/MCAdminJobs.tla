----------------------------- MODULE MCAdminJobs ------------------------------
(***************************************************************************)
(* The eIDAS node, the IdP registry, the aggregate's watcher and the       *)
(* retention job for TLC.  The four share no variable, so one run explores *)
(* each with the others at rest: the sum of their states, not the product. *)
(***************************************************************************)
EXTENDS EidasNode, IdpRegistry, MetadataWatcher, Retention

VARIABLE part   \* the one that moves

jobsVars == <<eidasVars, idpVars, aggVars, retVars, part>>
In(p)    == part = p /\ UNCHANGED part

Init ==
    /\ part \in {"eidas", "idps", "aggregate", "retention"}
    /\ EidasInit /\ IdpInit /\ AggInit /\ RetInit
    /\ part # "idps" => agid = [i \in Idps |-> "absent"]

Next ==
    \/ In("eidas") /\ EidasNext /\ UNCHANGED <<idpVars, aggVars, retVars>>
    \/ In("idps") /\ IdpNext /\ UNCHANGED <<eidasVars, aggVars, retVars>>
    \/ In("aggregate") /\ AggNext /\ UNCHANGED <<eidasVars, idpVars, retVars>>
    \/ In("retention") /\ RetNext /\ UNCHANGED <<eidasVars, idpVars, aggVars>>

(* AggFairness, where the watcher is the part that moves *)
Fairness ==
    /\ WF_aggVars(In("aggregate") /\ StartFetch("job"))
    /\ \A a \in Activities : WF_aggVars(In("aggregate") /\ Progress(a))
    /\ WF_aggVars(In("aggregate") /\ SatosaReload)

Spec == Init /\ [][Next]_jobsVars /\ Fairness

------------------------------------------------------------------------------
(* Every variable of the four keeps its type. *)
JobsTypeOK == EidasTypeOK /\ IdpTypeOK /\ AggTypeOK /\ RetTypeOK
==============================================================================
