# pa-sso-proxy, in TLA+

pa-sso-proxy lets public administrations offer SPID and CIE logins to their
OIDC clients. It is a SATOSA proxy (two uWSGI workers) with a configuration
service beside it (`config-api`, one asyncio process), a PostgreSQL database,
a Redis without persistence, and a volume, `/satosa-conf`, over which
config-api hands SATOSA its files. This directory models the parts where
several of these act on the same state, checks them with TLC and proves the
central properties with TLAPS.

    tlc -workers 2 -config ConfigReload_settles.cfg MCConfigReload
    tlapm ConfigReload_proofs.tla

`PROJECT.json` ties every definition to the source lines it models, every
property to a mutant that breaks it, and every hazard to its properties.

## 1. The system

| component | state | operations | shared with |
|---|---|---|---|
| CIE login session (`redis_storage.py`, `authorization_endpoint.py`, `authorization_callback_endpoint.py`) | three Redis keys per login: the document, the pointer from `state`, the single-use marker | create; consume (TTL, SET NX, GET, SET); update; look again | two workers that may serve the same `state`, Redis expiry and restart, harakiri |
| SPID metadata versions (`internal.py`, `routes/metadata.py`, `spidsaml2.py`) | table of versions with the flags *exposed* and *validated*, the toggles of `ente_settings`, the override file | snapshot report, expose, validate, upload, delete, regenerate | config-api requests, SATOSA's load and its report, the volume |
| SPID certificates (`routes/certs.py`, `spid_cert_writer.py`) | table with *is_active*, two files on the volume | generate, activate, delete, import of a backup | the same |
| Configuration generator and reload (`satosa_generator.py`, `satosa_config_generator.py`, `satosa_reload.py`, `entrypoint.sh`) | the files on the volume, `.reload` | generate, touch, load, container start | every admin route, the watcher, uWSGI |
| OIDC clients, legal-entity toggle, CIE keys, backup | their tables | routes that commit, generate and touch | the generator |
| IdP registry (`spid_seeder.py`, `routes/idps.py`) and eIDAS toggle (`routes/eidas.py`) | rows of `spid_idps` (*enabled*, *registry_disabled*), the eIDAS columns of `ente_settings` | synchronise, toggle, enable all, eIDAS on/off, import of a backup | overlapping requests, the scheduler, the expose that restores toggles |
| Metadata watcher (`metadata_watcher.py`, `entrypoint.sh`) | the aggregate of the providers' certificates and its hash on the volume | download, compare, store, generate, reload | AgID, the start of config-api and of the SATOSA container, admins |
| Access log and retention (`internal.py`, `metadata_watcher.py`) | `access_log`, `access_stats_monthly` | insert; count, delete once a month | the scheduler, logins |
| Admin login (`main.py`, `rate_limiter.py`, `admin_2fa.py`, `login_2fa.py`) | `login_attempts`, the row of `admin_totp` | password, code, enrolment, reset | overlapping requests, the clock, the operator |
| SPID SAML flow (`spidsaml2.py`) | the cookie of the browser, nothing on the server | choice of a provider, its answer, errors | the tabs of a browser, each with its copy of the cookie |
| Language choice (`i18n.py`) | per request | a pure function | none |
| CIE federation endpoints | none: documents signed from the configuration | GET | none |
| Pages, test client, migrations, scripts | – | – | – |

What is hard here is not any one handler but what lies between its awaits.
config-api takes no locks: every `await` is a place where another request runs,
with rows it read before kept in its SQLAlchemy session
(`expire_on_commit=False`) and written back by column. Most routes do three
things in turn - commit, generate, touch - of which each can fail, be overtaken
or be swallowed. SATOSA loads whatever files are there when it notices a touch.
In SATOSA two workers talk to Redis one command at a time, under a marker that
has a life of its own.

What makes each component correct:

* session: handed out once; never reopened; "already used" is never said of a
  session nobody used; without failures the marker leads to a login.
* metadata versions: the version with the badge is the document SATOSA serves;
  the badge is never lost or deleted.
* certificates: one active; no sequence of requests takes the last one away, short
  of a backup that has none; the volume and SATOSA follow it; whatever went
  wrong, one more activation mends it.
* generator: an undisturbed generation brings SATOSA to what the database holds;
  SATOSA is up when nothing is under way.
* registry: one test provider at a time; a synchronisation never moves an
  admin's switch, only the admin's own toggle or backup does; what the SP metadata says of eIDAS is what the discovery page
  offers.
* watcher: a rotated certificate reaches SATOSA without anybody's help; the hash
  never vouches for a file that is not there.
* retention: every login is counted once.
* rate limit: overlapping requests exceed it by a known amount; a ban ends, and
  lasts as announced.
* second factor: a code counts once; the confirmed secret is one the admin has.
* SAML flow: an answer completes one login, and only the newest AuthnRequest's
  does; a company's login is not served by eIDAS.

## 2. The modules

| module | what it models | with |
|---|---|---|
| `OneTimeLogin` | abstract: a login is drawn, redeemed at most once, answered at most once | |
| `CieSession` | the Redis store and both endpoints, one Redis command per step | `MCCieSession`, `CieSession_proofs` |
| `MetadataVersions` | the history, the badge, the override and what SATOSA serves | `MCMetadataVersions`, `MetadataVersions_proofs` |
| `SpidCerts` | the certificates, their files and what SATOSA loaded | `MCSpidCerts`, `SpidCerts_proofs` |
| `ConfigReload` | from the database over the files to SATOSA | `MCConfigReload`, `ConfigReload_proofs` |
| `LoginLimiter` | failed attempts and bans of one address | `MCLoginLimiter`, `LoginLimiter_proofs` |
| `AdminTotp` | the single row of the second factor | `MCAdminTotp`, `AdminTotp_proofs` |
| `SamlFlow` | SPID and eIDAS logins of one browser | `MCSamlFlow`, `SamlFlow_proofs` |
| `EidasNode` | the two places the eIDAS choice is stored in | `MCAdminJobs`, `AdminJobs_proofs` |
| `IdpRegistry` | the rows of `spid_idps` under toggles and synchronisations | `MCAdminJobs`, `AdminJobs_proofs` |
| `MetadataWatcher` | the aggregate from AgID to SATOSA, with its hash | `MCAdminJobs`, `AdminJobs_proofs` |
| `Retention` | the access log and its monthly counts | `MCAdminJobs`, `AdminJobs_proofs` |

### CieSession

`sessLeft`, `ptrLeft`, `usedLeft` are the lives of the three keys in half
seconds (Redis answers TTL rounded to seconds, so a second is too coarse);
`pc`, `st`, `ttl`, `doc`, `budget` are the request of each worker. `ReadTtl`,
`WinMarker`/`LoseMarker`, `ReadOpen`/`ReadClosed`, `StoreDocument` are the
commands of `consume_session`; `Redeem`, `FetchUser`, `Login` the rest of the
callback; `Fail`, `Kill` (harakiri, reload) and `RedisRestart` the failures.
The checks on tokens and attributes are one nondeterministic failure. A session
named by `state`: `state` and id are random and drawn together. `lapsed`
records that a marker was set for less time than its request may run.

### MetadataVersions

`rows`, `settings` are the database, `conf`, `override`, `touched` the volume,
`live` the document SATOSA built, `report` its unacknowledged POST, `req` the
request of each handler. A generated document is named by the toggles it was
built from (its hash is taken before the signature). uWSGI loads the
application once and forks, so a load reports once. `See` and `CommitFlag` are
the ORM's identity map and its UPDATE of changed columns; `at` is `created_at`,
the start of the transaction, which orders the rows for an expose while a
snapshot orders them by id. A backup replaces the settings and none of the
versions, so its import is a `Toggle`.

Requests overlap in the scenarios that say so. Three history variables carry the
provisos: `marred` is what the badge does not survive (an overlap, a lost report,
a request killed half-way, a first snapshot beside an exposed upload, the
deletion of the newest version), and an expose that runs alone on an up-to-date
history clears it, so `BadgeHonest` also says that an expose mends; `clashed` are
the requests under way that another one overlapped, both touching the badge;
`hurried` says that the toggles were changed while the last ones were still on
their way to SATOSA, or never got there.

### EidasNode, IdpRegistry, MetadataWatcher, Retention

The first two have the same shape: a request holds the rows it read, its session
flushes what it changed before the next SELECT (autoflush), an UPDATE writes only
what differs from what was read and keeps the row locked until the commit, while
others still read the committed row (READ COMMITTED). `eset`/`enode` are the eIDAS
columns of the settings and the flags of the rows `eidas-qa` and `eidas-prod`; the
SP metadata is built from the first (`FicepEnable`), the discovery page and
`ficep_entity_id` from the second (`FicepNodes`). The import of a backup replaces
the settings and all rows in one transaction: what its DELETE has locked others
wait for and find gone (`SettingsFree`, `NodeFree`, `Locked`), and what it restores is
any bundle, whose columns and rows may be parted and whose test providers may
both be on. In `IdpRegistry` `iin`, `ion`,
`ioff` are the rows, the enabled ones and those AgID disabled; a synchronisation
is `FetchList`, `SelectRows` and `CommitSync`, or `SyncRefused` when another one
inserted the same alias. The production rows of the first seed are rows like the
registry's and stay disabled until they are listed; they are left out.

In `MetadataWatcher` an aggregate is the number of its publication. `fetch_spid_aggregate`
has one await, the download: comparison and both writes follow without a switch of
coroutine, so `Store` is one step and only a crash comes between the writes
(`Crash`). `owed` records that a fetch which changed the file died before the
reload, `overtaken` that an older download (of the container, or of a fetch that
crashed before the hash) was put over a newer file; `mishaps` bounds the
failures. In `Retention` time passes in halves of a month, because the cutoff is a
number of days and falls inside one; `stats` counts the rows a group has for a
month, `counts` what they add up to. A month has two halves, so what a log holds of
a month (`Logged`) is the sum of two cells, without a recursive sum; `PerHalf` bounds
the rows of a group in half a month.

The four share no variable with each other. `MCAdminJobs` therefore explores their
sum, not their product: `part` is the one that moves, and each property constrains
the states of its part alone. That this loses nothing is proved (`Composed`).

### SpidCerts

`rows`/`active` are the table, `disk` and `loaded` the pair of files and the
pair SATOSA read. `GenerateRead`/`GenerateCommit`,
`ActivateRead`/`ActivateReadAll`/`ActivateCommit`, `DeleteRead`/`DeleteCommit`
are the database statements, `WriteCert` and `WriteKey` the files. The import of
a backup deletes every row (`ImportDelete`), inserts the certificate of the bundle
as the active one, or none (`ImportCommit`), reads an active one again for its files
(`ImportSelect`) and asks for a reload, also when the volume refused a file
(`ImportUnwritten`); `importing` are these requests. A restored row brings its
number, which the sequence of the table does not know: a later insert may be
refused (`CommitFails`). The id of a certificate stands for its content.
`overlapped` and `failed` record that two requests overlapped and that one
died or a file was refused; `alone` is the request that has had no other beside it.

### ConfigReload

`db` has the four things the files are built from, as versions; `disk` the six
files whose presence or agreement matters to SATOSA; `mine` and `seen` what the
session of a request holds since it committed it and what it has read. The
routes are `SaveSettings` … `Regenerate`; the generator is `ReadSettings` …
`WriteBackend`; `Touch`, `SatosaLoad`, `Restart` follow. `Uncached` are the lists of
providers with a row that holds no metadata: their file has to be downloaded
(`WriteRemote`, or `KeepRemote` when that fails), or stays as it is when the URL is
the one of the last download (`LeaveRemote`); the others come from the rows. One test or eIDAS
provider stands for all. The files SATOSA can start without (locales, the
list of providers of the disco page) and those it does not read from there are
left out, as is a YAML file cut off in mid-write. Routes that rewrite a part
and a route of the certificates that generates without touching are the
corresponding route, or a request that dies before its touch. Between
`proxy.yaml` and the remote metadata the code does not await: only SATOSA can
come in between there, the model lets other requests in too, which allows more.
`fresh` are the requests since whose start nobody else changed anything, `owed`
says that a commit was not yet carried by such a request.

### LoginLimiter and AdminTotp

Ages of attempts are in minutes; the time of an attempt is that of its
transaction's start. `ban` is the ban last announced. In `AdminTotp` a request
holds the row it read (`saw`) and an UPDATE writes only its columns. Codes of
different secrets or steps are assumed to differ; the pending cookie only takes
requests away and is left out; `SESSION_SECRET` is not changed back. `mode`
says how the program is used in a behaviour: one request at a time or
overlapping, with or without resets and changes of the key.

### SamlFlow

The generated configuration allows unsolicited responses, so
`outstanding_queries` is never used and the cookie is the only memory of a
login. `jar` is the cookie in the browser, `flight` the request each tab waits
for, with its copy of the cookie; a response replaces the whole cookie or is
lost. `Authorized` is SATOSA's frontend, which adds the OIDC request to the
cookie (external); `Ask`/`NotAsked` are `authn_request`, `Complete`, `Lost` and
`Refuse` are `authn_response` with `handle_error`. An AuthnRequest has its id
for its relay state as well: the two are written together, and `req_args` is
read only when the relay state matched. Whether the frontend drops the rest of
the cookie after a login is not in this repository, so both happen. Logins with
CIE, the level asked for, ACS indices and error texts are left out. `raced`
records that two requests of the browser overlapped; `again` and `newest` are
followed until then.

## 3. What TLC checks

| run | instance | properties | shows |
|---|---|---|---|
| cie_safety | 1 login, 2 workers, life 2 s, 1.5 s per request, with and without faults | `SingleUse` `UsedMeansConsumed` `TokensOnlyIfConsumed` `NeverReopened` `ImplementsOneTimeLogin` `MarkerLeadsToLogin` | two callbacks at once, kills, restarts and expiry at any point; without failures a consumed session is not a locked-out user |
| cie_marker | the same | **`OnlyFirstCallerWins`** | finding 1 |
| metadata | 2 settings, 1 upload, 2 handlers, 3 rows, 2 where they overlap | `BadgeHonest` `ExposedNotDeleted` `BadgeKept` `TogglesHonest` | four scenarios: requests that overlap with deletions or with uploads; one at a time with faults, or with validations |
| metadata_badge | 4 rows, no faults | **`BadgeNeverLies`** | finding 2 |
| certs | 3 certificates, 2 requests | `OneActive` `ActiveKept` `FilesFollow` `RegenerateSigns` `Mends` | overlaps, deaths, loads and imports, with and without a certificate, at any point |
| config_settles | 2 lists of providers (1 uncached), 1 version of each other part, 1 request, faults | `Settles` `UpWhenQuiet` | every route, a load or restart between any two files |
| config_down | 1 of each, no faults | **`StaysUp`** | finding 4 |
| limiter | 2 requests, limit 2, 4 rows, ban longer than the window | `FailuresBounded` `BanEnds` | the check and the record are not atomic |
| limiter_ban | 1 request, ban longer than the window | **`BanLasts`** | finding 3 |
| totp | 2 requests, 3 secrets, 3 steps | `NotLockedOut` `CodeOnce` `StepForward` | both modes: serial with resets, overlapping without |
| jobs | 2 eIDAS requests; 1 provider, 2 requests; 3 aggregates, 1 request, 2 mishaps; 2 groups (1 with NULL), 5 half months, 1 row per group and half | `EidasAgree`; `OneTestProvider` `AdminDecides`; `HashHonest` `AggregateLoaded` `RotationReachesSatosa`; `StatsAddUp` | the four parts of `MCAdminJobs`, backups included |
| saml | 2 tabs, 2 logins (1 of a company), 2 AuthnRequests | `CodeOnce` `NewestOnly` `LegalServed` | answers sent again, old pages, lost responses, overlaps |

Properties in bold are violated, as expected; every other run passes and
checks its type invariant as well.

**The bounds.** Two workers or requests are what the races need (one of each
sort suffices for a lost update); where theorems exist they hold for any
number. Two half seconds of slack reach every order of expiry, marker and
harakiri. Two settings and three rows let a document return after another one
and let a version be exposed, pinned and deleted. Three certificates: one
active, one to activate, one to generate. Three secrets: enrolled, replaced,
replaced again. Two tabs, logins and AuthnRequests: an old and a new one. In
`ConfigReload` the run has one request at a time, and two versions of the part
with the most ways to reach its file; TLC also
explored overlapping requests on smaller instances, and the theorems cover them.
Two rows are what two overlapping requests of `MetadataVersions` fight over: each
may expose, delete or replace one of them. Three aggregates: the one loaded, one
that is on its way and one that overtakes it; two mishaps: one in each of
config-api and SATOSA, or a failure during the recovery from another. Five half
months let a month be counted in two runs and a run fail in between; one row per
group and half is enough to lose or to count twice, and the theorem has any number.
Deadlock is checked except for the two runs of `MetadataVersions`, where the
bound on rows stops the insertion of a snapshot, and for `jobs`, where the last
half month and the last publication do.

**Fairness.** `CieSession`: a worker that serves a request goes on with it (a
uWSGI worker runs it to its end or is killed; the liveness property is about the
behaviours without failures, the provider's and uWSGI's). `LoginLimiter`: time
passes. `MetadataWatcher`: the scheduler starts its job again and again (cron,
every six hours, `max_instances` one), what was started goes on (asyncio and the
container's start), and uWSGI sees the touched file; a behaviour has finitely many
mishaps, and none is assumed away. Nobody has to send a request, and no failure
has to happen or stay away, anywhere.

## 4. What is proved

All theorems have the form `Spec => …` for every value of the constants under
the assumptions the modules name (lifetimes positive, `None` none of the
values, and the like).

* **CieSession.** `TypeCorrect`, `RedeemedOnce`, `UsedIsTrue`, `StaysUsed`,
  `LoginsAreWon`, `LapsesOnlyLate`, `MarkerNotOrphaned` and `Implements`, for any logins,
  workers and lifetimes, with or without faults. The invariant: whoever holds an unlapsed marker lives longer than its own request,
  so between SET NX and the last SET no other request can win; a session that
  was handed out has a used document or a live marker; only a request that holds
  the session has tokens, and it holds it once. `Implements` maps every
  step to one of `OneTimeLogin` or to a stutter. `LapsesOnlyLate` says how far the
  proviso of `SingleUse` reaches: the TTL a claim holds bounds the life of a session
  that is still open (`EndKnown`), so a marker lapses on one only in its last
  `Harakiri` half seconds, and one more for the rounding. `MarkerNotOrphaned` is the
  safety half of `MarkerLeadsToLogin`: without failures, and as long as the session lives, a
  marker belongs to a request that still claims or redeems. Its invariant (`HeldInv`)
  needs that a consumed session has its login or a redeemer (`WinnerUp`): a
  request whose claim finds the session used leaves it to that one.
* **SpidCerts.** `TypeCorrect` always; `SerialOneActive`
  until requests overlap, deaths included: what a request has read is still so
  when it commits. `LastActiveKept` whatever overlaps and deaths went before: a
  request that no other overlaps commits what it read (`MInv`), so it leaves an
  active certificate where one was, unless it imports a backup without one. `SerialFilesFollow`, `SerialRegenerateSigns` until they
  overlap or fail: between the commit and the last file the volume lags behind
  and an earlier touch no longer counts. `AloneMends`, from `MInv` as
  well: from any rows and files, such a request reads and writes all that is active.
* **ConfigReload.** `TypeCorrect`; `GenerationSettles`: what a fresh request has
  read is committed, what it has written is on the volume, so that when it
  touches `.reload` the volume holds all of it (`Current`, `Written`,
  `Carried`); any write by a request that is not fresh ends the freshness of
  the others, and a file left as it is counts only when it is the
  one wanted (`LeftKeeps`). `UpBetweenRequests`: a file that is named and missing is about to
  be written by some request, and a load that failed is about to be repeated
  (`Coming`). Both with any number of overlapping requests, failed downloads and
  restarts; the first with deaths too.
* **LoginLimiter.** `TypeCorrect`; `Bounded`: the failures in the window that are
  younger than a ban and the requests about to record one are together at most
  Max + Handlers - 1, because a request begins only below the limit or when the
  last attempt, and so every other, is older than a ban. No relation of the limits
  is assumed: they come from the environment. `BoundedInWindow`: with a ban longer
  than the window, the default, these are all the failures that are counted.
  `BanIsKept`: only the clock and a login admitted before lift a ban, not a late
  record, although its row may lie in the past and it deletes old rows: those that
  count, and the last one, are younger than the window, and so than `Keep`.
* **AdminTotp.** `TypeCorrect`; `KeepsTheKey`, `CountsOnce`, `GoesForward`. Two
  invariants: without resets there is one readable secret, in the table and in
  all memories; without overlaps the memory is the table, and the last step
  bounds every accepted code of the secret.

* **SamlFlow.** `TypeCorrect`; `AnsweredOnce` and `AnsweredNewest` until requests
  of the browser overlap: there is one cookie, and the relay state in it is that
  of the newest AuthnRequest, still unanswered (`Alone`). `CompaniesServed`
  whatever overlaps: every copy of the cookie pairs an AuthnRequest with the
  login it was made for or with one that began later (`Pairs`). `CompletesOwn`
  follows: whatever overlaps, an answer never completes an earlier login.
* **MetadataVersions.** `TypeCorrect` and four chains, each with its own
  invariant. `ExposedStays` and `BadgeStays`: a request nobody overlapped
  sees the badges as they are, so a deletion it commits is of a version without
  one (`BInv`). `BadgeTrue`: while nothing is marred the only badge is on the
  newest generated version or on the pinned one, and the override, the pending
  touch and the report under way say which of the two SATOSA serves (`HInv`, on
  top of `CInv`: what an expose has still to write is what separates the rows from
  that state). `TogglesStay`: a report not yet stored was built from the
  toggles of now, unless they were hurried (`TInv`).
* **EidasNode, IdpRegistry, MetadataWatcher, Retention.** Each theorem is about the
  part's own specification; `Composed` shows that `MCAdminJobs` implements all four,
  so that they hold of what TLC explores, and `JobsTypeCorrect` puts the four types
  together. `EidasAgrees`: a
  request alone holds exactly what differs from columns and rows (`EidasInv`).
  `OneTest`, `AdminsDecide`: two requests on the same rows are marked, an
  unmarked toggle of a test provider holds the table as it is (`IdpInv`). Both with
  imports of any backups at any point.
  `HashIsHonest`, `Loaded`: an aggregate SATOSA has not loaded is in the hands of
  an activity that will reload, or of `.reload`, or owed (`AggInv`). `SkipsNothing`,
  from the same invariant, is the safety half of `RotationReachesSatosa`: a fetch
  that stops because the hash is unchanged leaves nothing behind. `CountedOnce`:
  nothing is logged in the future, so that between the SELECT of a run and its
  DELETE the rows before the cutoff are the rows counted (`RetInv`), and what a
  transaction moves from the log to the counts is the same number.

Only model-checked: the three liveness properties (`MarkerLeadsToLogin`, `BanEnds`,
`RotationReachesSatosa`), since liveness under fairness is out of the prover's
reach. Every invariant and every action property of a passing run is proved; the
refinement of `OneTimeLogin` is proved and checked.

## 5. Where code and documentation differ

Each is a run with the counterexample.

1. `cie_marker` - the single-use marker gets the session's TTL in whole
   seconds, as Redis rounds it; a callback that stalls between its TTL and SET
   commands at the end of a session leaves a marker that dies before the
   session: a second caller gets it.
2. `metadata_badge` - after the newest generated version is deleted while an
   older one is pinned, the next snapshot takes the badge from the pinned one
   though the override goes on serving it.
3. `limiter_ban` - with the default values (window 10 minutes, ban 15) a ban
   ends when the attempts leave the window.
4. `config_down` - the files that name a backend or a metadata file are written
   before these; a load asked for by another request in between fails.

Further limits found while modelling, which the properties above carry as
provisos: two certificates generated or activated at once stay both active; a
certificate activated between the check of a deletion and its DELETE is deleted
while it is active (`certs.py:102`); a backup without a certificate leaves SPID without an active one; a backup made
while settings and eIDAS rows were parted, or both test providers on, restores
them so; a file of remote metadata is kept while its URL is the last one
downloaded, whoever wrote it since; two exposes
at once may leave two badges; a version exposed while it is being deleted is
deleted; a first snapshot is exposed even if an upload already is; the toggles
stored with a version are read when its report arrives, so toggles changed
quickly are stored with the wrong document; an expose restores the eIDAS columns
of the settings and not the provider rows, though `metadata.py:104-110` speaks of a
complete rollback, so metadata and discovery page part until the next eIDAS toggle,
as they do when the plain toggle of `/admin/idps` flips an eIDAS row; two toggles of
the test providers at once leave both on and `/verifica` fails; when two
synchronisations insert the same provider the second is rolled back, and the
scheduler's job dies with it, also when it had an aggregate to load; a fetch that
dies after it stored the hash is not repeated until another publication or another
reload; the container may leave an older aggregate under a newer hash until the next
publication; a month has several rows of counts for a group with NULLs; of two codes accepted
at once the older step may be stored last; two enrolments right after a change
of `SESSION_SECRET` may overwrite the confirmed secret; a certificate that is
activated is not loaded until something else asks for a reload; a CIE key that
is deleted is loaded without being generated, so SATOSA keeps it; `settings_save`
generates nothing; when tabs overlap an older relay state can come back into
the cookie, and an answer then completes two logins; a login that begins while
the provider of another is at work is completed by that provider's answer - a
company's login, too, by an eIDAS one.

## 6. What is not modelled, and the plan

| order | module | about |
|---|---|---|
| done | `CieSession`, `MetadataVersions`, `SpidCerts`, `ConfigReload`, `LoginLimiter`, `AdminTotp`, `SamlFlow` | the core |
| done | `IdpRegistry`, `EidasNode`, `MetadataWatcher`, `Retention` | what admins and the scheduler do to the registry, the aggregate and the log |
| next | `EidasNode` in `MetadataVersions` | the toggles of a version as pairs of columns and rows: today each module has its own half of the expose |

Left out for good: the language choice (a pure function of one request: query,
cookie and Accept-Language); rendering, pages and exports, which only read; the
federation documents (pure functions of the configuration); cryptography, XML and
YAML; migrations; developer scripts. Message handling of SAML is pysaml2's, of OIDC
pyop's; both are outside this repository.
