--------------------------- MODULE MetadataWatcher ----------------------------
(***************************************************************************)
(* The certificates of the SPID providers: AgID publishes them in an       *)
(* aggregate, config-api downloads it to the shared volume (at its start,  *)
(* every six hours, on request) and SATOSA loads it when it starts or when *)
(* .reload is touched.                                                     *)
(*                                                                         *)
(* config-api decides by .spid-aggregate-hash whether the aggregate has    *)
(* changed, and reloads SATOSA only if it has; the entrypoint of the       *)
(* SATOSA container replaces the file and leaves the hash alone.  An       *)
(* aggregate is the number of its publication, a hash that of the          *)
(* aggregate it was computed from.                                         *)
(***************************************************************************)
EXTENDS Integers

CONSTANTS
    AggRequests,  \* requests to refresh-aggregate under way at most
    Editions,     \* bound: aggregates published after the first
    Mishaps       \* bound: failures of the network, database or processes

ASSUME WatcherAssumption ==
    /\ Editions \in Nat /\ Mishaps \in Nat
    /\ AggRequests \cap {"boot", "job", "satosa"} = {}

VARIABLES
    edition,   \* the aggregate AgID publishes
    agg,       \* spid-entities-idps.xml
    hash,      \* .spid-aggregate-hash
    reload,    \* .reload was touched and SATOSA has not loaded since
    loaded,    \* the aggregate SATOSA has loaded
    act,       \* the activities that fetch the aggregate
    (* history *)
    owed,      \* a fetch changed the file and died before the reload
    overtaken, \* an older file was put over a newer one, not its hash
    mishaps    \* failures so far

volume  == <<agg, hash>>
aggVars == <<edition, volume, reload, loaded, act, owed, overtaken, mishaps>>

------------------------------------------------------------------------------
(* The activities: the lifespan of config-api, the scheduler's job, requests  *)
(* to refresh-aggregate, and the SATOSA container's entrypoint.               *)
ConfigApi  == {"boot", "job"} \cup AggRequests
Activities == ConfigApi \cup {"satosa"}

(* Where one is, the aggregate it downloaded, and whether it changed the file *)
Activity == [pc : {"idle", "down", "fetch", "store", "sync", "providers", "generate"},
             got : Nat, updated : BOOLEAN]
Idle     == [pc |-> "idle", got |-> 0, updated |-> FALSE]
Up       == act["boot"].pc = "idle"
SatosaUp == act["satosa"].pc = "idle"

AggTypeOK ==
    /\ edition \in Nat /\ agg \in Nat /\ hash \in Nat /\ loaded \in Nat /\ mishaps \in Nat
    /\ act \in [Activities -> Activity]
    /\ reload \in BOOLEAN /\ owed \in BOOLEAN /\ overtaken \in BOOLEAN

(* A running system with the first aggregate *)
AggInit ==
    /\ edition = 0 /\ agg = 0 /\ hash = 0 /\ loaded = 0 /\ mishaps = 0
    /\ act = [a \in Activities |-> Idle]
    /\ reload = FALSE /\ owed = FALSE /\ overtaken = FALSE

------------------------------------------------------------------------------
At(a, pc)    == act[a].pc = pc
Go(a, pc)    == act' = [act EXCEPT ![a].pc = pc]
Finish(a)    == act' = [act EXCEPT ![a] = Idle]
Mishap       == mishaps < Mishaps /\ mishaps' = mishaps + 1

(* AgID rotates a certificate. *)
Publish ==
    /\ edition < Editions
    /\ edition' = edition + 1
    /\ UNCHANGED <<volume, reload, loaded, act, owed, overtaken, mishaps>>

(* The scheduler starts its job, unless it still runs; an admin's request. *)
StartFetch(a) ==
    /\ a \in {"job"} \cup AggRequests
    /\ Up /\ At(a, "idle")
    /\ Go(a, "fetch")
    /\ UNCHANGED <<edition, volume, reload, loaded, owed, overtaken, mishaps>>

(* fetch_spid_aggregate and the entrypoint: the answer of AgID *)
Download(a) ==
    /\ At(a, "fetch")
    /\ act' = [act EXCEPT ![a].pc = "store", ![a].got = edition]
    /\ UNCHANGED <<edition, volume, reload, loaded, owed, overtaken, mishaps>>

(* Mutant: a request stores the aggregate and does not reload. *)
AfterFetchIdle(a, updated) ==
    CASE a = "boot" -> "generate"
      [] a = "job" -> "sync"
      [] OTHER -> "idle"

(* What follows the fetch *)
AfterFetch(a, updated) ==
    CASE a = "boot" -> "generate"
      [] a = "job" -> "sync"
      [] OTHER -> IF updated THEN "generate" ELSE "idle"

Fetched(a, updated) ==
    act' = [act EXCEPT ![a] = IF AfterFetch(a, updated) = "idle" THEN Idle
                              ELSE [pc |-> AfterFetch(a, updated), got |-> 0,
                                    updated |-> updated]]

(* AgID cannot be reached: the file is kept, SATOSA starts with it. *)
DownloadFails(a) ==
    /\ At(a, "fetch")
    /\ Mishap
    /\ IF a = "satosa" THEN Go(a, "generate")
       ELSE IF a \in AggRequests THEN Finish(a) ELSE Fetched(a, FALSE)
    /\ UNCHANGED <<edition, volume, reload, loaded, owed, overtaken>>

(* The rest of fetch_spid_aggregate, without an await: compare the hash,     *)
(* write the file, then the hash.                                            *)
Unchanged(a) ==
    /\ a \in ConfigApi /\ At(a, "store")
    /\ act[a].got = hash
    /\ Fetched(a, FALSE)
    /\ UNCHANGED <<edition, volume, reload, loaded, owed, overtaken, mishaps>>

Store(a) ==
    /\ a \in ConfigApi /\ At(a, "store")
    /\ act[a].got # hash
    /\ agg' = act[a].got
    /\ hash' = act[a].got
    /\ overtaken' = FALSE
    /\ Fetched(a, TRUE)
    /\ UNCHANGED <<edition, reload, loaded, owed, mishaps>>

(* run_metadata_watcher: the registry's synchronisation.  When it cannot be  *)
(* reached the job goes on; when its commit is refused (IdpRegistry), the    *)
(* session can no longer be used and the job dies at its next query.         *)
Sync ==
    /\ At("job", "sync")
    /\ Go("job", "providers")
    /\ UNCHANGED <<edition, volume, reload, loaded, owed, overtaken, mishaps>>

(* Mutant: what the aggregate's fetch returned is ignored. *)
ProvidersOnly(changed) ==
    /\ At("job", "providers")
    /\ IF changed THEN Go("job", "generate") ELSE Finish("job")
    /\ UNCHANGED <<edition, volume, reload, loaded, owed, overtaken, mishaps>>

(* fetch_all_enabled: nothing to do, or SATOSA is to be reloaded because some *)
(* provider's own metadata changed, or the aggregate did.                     *)
Providers(changed) ==
    /\ At("job", "providers")
    /\ IF changed \/ act["job"].updated THEN Go("job", "generate") ELSE Finish("job")
    /\ UNCHANGED <<edition, volume, reload, loaded, owed, overtaken, mishaps>>

(* generate_and_write and reload_satosa *)
Regenerated(a) ==
    /\ a \in ConfigApi /\ At(a, "generate")
    /\ reload' = TRUE
    /\ Finish(a)
    /\ UNCHANGED <<edition, volume, loaded, owed, overtaken, mishaps>>

(* An error of the database, or in the generator: the job dies, a request    *)
(* and the start of config-api go on without the reload.                     *)
Dies(a) ==
    /\ \/ a = "job" /\ act[a].pc \in {"sync", "providers"}
       \/ a \in ConfigApi /\ At(a, "generate")
    /\ Mishap
    /\ Finish(a)
    /\ owed' = (owed \/ act[a].updated)
    /\ UNCHANGED <<edition, volume, reload, loaded, overtaken>>

(* config-api restarts: whatever it was doing is gone, also between the two   *)
(* writes of Store.                                                           *)
Restart(stored) ==
    /\ Mishap
    /\ act' = [a \in Activities |->
                 IF a = "boot" THEN [Idle EXCEPT !.pc = "fetch"]
                 ELSE IF a \in ConfigApi THEN Idle ELSE act[a]]
    /\ owed' = (owed \/ stored \/ \E a \in ConfigApi : act[a].updated)
    /\ UNCHANGED <<edition, reload, loaded>>

(* Mutant: the hash is written before the file. *)
CrashHashFirst ==
    \/ /\ Restart(FALSE)
       /\ UNCHANGED <<volume, overtaken>>
    \/ \E a \in ConfigApi :
          /\ At(a, "store") /\ act[a].got # hash
          /\ hash' = act[a].got
          /\ Restart(TRUE)
          /\ UNCHANGED <<agg, overtaken>>

Crash ==
    \/ /\ Restart(FALSE)
       /\ UNCHANGED <<volume, overtaken>>
    \/ \E a \in ConfigApi :
          /\ At(a, "store") /\ act[a].got # hash
          /\ agg' = act[a].got
          /\ overtaken' = (act[a].got < hash)
          /\ Restart(TRUE)
          /\ UNCHANGED hash

(* Any other change the admin saves is generated and loaded. *)
OtherChange ==
    /\ Up
    /\ reload' = TRUE
    /\ UNCHANGED <<edition, volume, loaded, act, owed, overtaken, mishaps>>

(* SATOSA's workers start again when .reload is touched ... *)
SatosaReload ==
    /\ SatosaUp /\ reload
    /\ reload' = FALSE
    /\ owed' = FALSE
    /\ loaded' = agg
    /\ UNCHANGED <<edition, volume, act, overtaken, mishaps>>

(* ... or the whole container does. *)
SatosaStops ==
    /\ SatosaUp
    /\ Mishap
    /\ Go("satosa", "fetch")
    /\ UNCHANGED <<edition, volume, reload, loaded, owed, overtaken>>

(* entrypoint.sh moves its download over the file. *)
SatosaStores ==
    /\ At("satosa", "store")
    /\ agg' = act["satosa"].got
    /\ overtaken' = (act["satosa"].got < hash)
    /\ Go("satosa", "generate")
    /\ UNCHANGED <<edition, hash, reload, loaded, owed, mishaps>>

SatosaStarts ==
    /\ At("satosa", "generate")
    /\ Finish("satosa")
    /\ reload' = FALSE
    /\ owed' = FALSE
    /\ loaded' = agg
    /\ UNCHANGED <<edition, volume, overtaken, mishaps>>

Progress(a) ==
    \/ Download(a) \/ Unchanged(a) \/ Store(a) \/ Regenerated(a)
    \/ a = "job" /\ (Sync \/ Providers(TRUE) \/ Providers(FALSE))
    \/ a = "satosa" /\ (SatosaStores \/ SatosaStarts)

AggNext ==
    \/ Publish
    \/ \E a \in Activities : StartFetch(a) \/ Progress(a) \/ DownloadFails(a) \/ Dies(a)
    \/ Crash \/ OtherChange
    \/ SatosaReload \/ SatosaStops

AggSpec == AggInit /\ [][AggNext]_aggVars

(* The scheduler starts its job again and again (cron, every six hours), what *)
(* was started goes on, and uWSGI sees the touched file.  Nothing else is     *)
(* owed: no admin helps, and only finitely many mishaps happen.               *)
AggFairness ==
    /\ WF_aggVars(StartFetch("job"))
    /\ \A a \in Activities : WF_aggVars(Progress(a))
    /\ WF_aggVars(SatosaReload)

AggFairSpec == AggSpec /\ AggFairness

------------------------------------------------------------------------------
(* The stored hash never vouches for an aggregate newer than the one on the  *)
(* volume, also when config-api dies between the two writes: what it makes   *)
(* fetch_spid_aggregate skip is there, unless an older download was moved    *)
(* over it.                                                                  *)
HashHonest == ~overtaken => hash <= agg

(* When nothing is under way and no reload is due, SATOSA uses the aggregate *)
(* on the volume, unless the fetch that changed it died before its reload.   *)
AggregateLoaded ==
    (\A a \in Activities : At(a, "idle")) /\ ~reload /\ ~owed => loaded = agg

(* A rotated certificate reaches SATOSA by the scheduler alone, unless a      *)
(* fetch died after it stored the hash or an older file was moved over.       *)
RotationReachesSatosa ==
    \A v \in 1..Editions : edition = v ~> (loaded >= v \/ owed \/ overtaken)
==============================================================================
