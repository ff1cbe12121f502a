# SQ-BI: models and proofs

SQ-BI answers business questions on a company's databases. An administrator
connects a data source, scans it, mounts a *domain pack* (standard fields,
metrics, terms), maps the pack's standard fields to physical columns, tests the
mapping and switches the deployment on; users then ask, explore, save assets and
export results. The backend is Python: a FastAPI service (`services/runtime`), an
export service (`services/export`), a semantic product repository
(`services/semantic`) and shared data classes (`packages/contracts`).

Nearly everything hard about it comes from one fact: **request handlers run in a
thread pool, state lives in several SQLite files, and every store locks one
method at a time**. No lock and no transaction spans a handler. A handler is
therefore a sequence of store calls between which other handlers run and
after any of which the process may end. The models take exactly these calls as
their actions.

## 1. Inventory

### Deployment lifecycle — partly
* *Source:* `api.py` (handlers from `admin_create_deployment` to
  `admin_deactivate_deployment`), `mounting_pipeline.py`, `field_mapping_store.py`.
* *State:* mapping rows per deployment and field (never deleted while the
  deployment exists, a confirmation inserts a row under a fresh `mapping_id`), open
  mapping requests, `last_smoke_passed`, `is_active`; the bound semantic space
  in another file.
* *Operations:* mount (seed the pack's own mappings, match, ask), prepare a
  remap, confirm a mapping, smoke test, activate, deactivate.
* *Hard:* a confirmation is up to seven store calls, any of which may raise (the
  handler answers 500, nothing is undone) or be the last before the process ends, and
  is then tried again; readiness is computed from several stores and then the flag is
  set without a condition; a smoke test's verdict is written long after the mappings
  were read.
* *Correct when:* an active deployment has every required field mapped; a recorded
  smoke pass is about the columns in use; activation only when ready; a changed
  mapping that was acknowledged took the deployment offline; a request whose
  confirmation was acknowledged is not answered again.

### Semantic profile: scans, snapshots, spaces — modelled
* *Source:* `semantic_profile_store.py`, `semantic_discovery.py`, the scan and space
  handlers of `api.py`.
* *State:* scan jobs and snapshots, each with a phase; a snapshot's catalog and suggested
  spaces; managed spaces with fields and kept versions.
* *Operations:* a scan in a background thread; create, extend, adjust, refresh, publish
  and delete a space.
* *Hard:* job and snapshot are marked one after the other; the scan raises anywhere,
  also in the handler that marks it failed; a connector's query has no time limit;
  `start_scan` writes `pending` after it has submitted the scan; the newest
  snapshot wins whatever its phase; suggestions are confirmed in a later request.
* *Correct when:* a field is adopted once; versions have no gap; done means saved; a
  scan takes no finished space away; scans whose connector answers end.

### Connection pool — modelled
* *Source:* `connectors/resource_pool.py`, `mysql_connector.py`, `pg_connector.py`.
* *State:* LIFO queue of free connections, counter, closed flag, the connector's
  reference to its pool.
* *Operations:* acquire, release, warm, close.
* *Hard:* queue and counter have different locks, a release reads the closed flag
  without one, every driver call may raise.
* *Correct when:* the counter is exact, never above `max_size`; a connection has one
  owner and is open while held; none is forgotten; calls end.

### Enterprise packs and promotion — modelled but for metadata
* *Source:* `enterprise_pack_store.py`, `promotion_service.py`,
  `personal_asset_store.save_promotion`, the delete and deployment handlers of `api.py`.
* *State:* a pack's state, version and draft; snapshots of published versions;
  promotion records and deployments in other databases.
* *Operations:* create, edit, publish, fork, delete, deploy, promote (with compensation).
* *Hard:* each method checks in one transaction and writes in another;
  the promotion is a saga over two files; a version can be published again.
* *Correct when:* a published version never changes; a published pack is what its
  snapshot says; deletion leaves nothing behind and spares deployed packs; a
  promotion is all or nothing.

### Extension layers — modelled but for the audit trail and the deletion of an enterprise base
* *Source:* `enterprise_pack_store.py`, the layer handlers of `api.py`.
* *State:* at most one layer per base pack, pinned to a version of it (a base is an
  official pack, whose release a start may replace, or a standalone enterprise pack,
  whose draft is edited in place); the deployment that selected it; former extensions
  an older release stored.
* *Operations:* open, edit, publish, deactivate, archive, restore, delete, select for a
  deployment, activate; edit, publish and fork an enterprise base; at every start the
  migration of former extensions.
* *Hard:* validation and write are apart, with the base changed in between; the pin is to
  a version, which an enterprise base keeps while it is edited; deletion looks for
  deployments first; the migration runs again and again.
* *Correct when:* base and active layer together are a valid pack whenever they resolve;
  an active deployment has its layer; what the migration makes can be read.

### Runtime assets — modelled but for personal bindings
* *Source:* `runtime_asset_resolver.py`, `runtime_asset_providers.py`, `asset_catalog.py`.
* *State:* none of its own: a resolution reads deployments, readiness, layers, snapshots.
* *Hard:* it takes a dozen store calls while administrators change all of it.
* *Correct when:* assets are of exactly the deployed version; a resolution nothing
  interferes with finds what there is.

### Export service — modelled but for subscriptions and audit
* *Source:* `services/export`: `service.py`, `repository.py`, `api.py`.
* *State:* dictionaries in memory (jobs, snapshots, artifacts, shares), the same in
  SQLite, a thread pool's queue, one lock.
* *Operations:* create an export, render, share, restart.
* *Hard:* artifact and job are two transactions, `create_share` writes back a
  stale copy without the lock, a restart submits unfinished jobs again.
* *Correct when:* success is never without its artifact; an outcome seen is durable
  and final; a share handed out opens; an accepted export ends.

### Exploration harness — modelled
* *Source:* `harness.py`, its tools, model prompts and `run_harness` in `api.py`.
* *State:* of a run: steps, cost and time used, the calls made, the observations;
  shared: the confirmation tokens.
* *Operations:* plan (policy, language model, deterministic planner), call a tool, wait for
  it, ask for a confirmation, continue with a token.
* *Hard:* the planner may answer anything; tools raise, time out on their own or never
  answer; a token may come back twice at once, late, or from another user.
* *Correct when:* a run ends inside its budget; a question that names its asset is
  answered by it; what is saved was confirmed, and is saved once.

### Product repository and pack projection — modelled
* *Source:* `product_repository.py`, the handlers of `services/semantic` `api.py`,
  `pack_projection.py`, activation and deactivation in `api.py`.
* *State:* metrics, skills and reports under asset keys (kind, source, code), their kept
  versions, share records, report files (rows and bytes), scheduled jobs; a start's
  progress; conversations.
* *Operations:* create, update, show, copy, delete, generate a file; start (migrate,
  seed); project and withdraw an activated pack's assets; post, archive.
* *Hard:* a request writes back what it read, without a lock in between; the migration
  is not one transaction; projection failures are swallowed.
* *Correct when:* a reference to a version keeps resolving; a recorded file opens; shares
  name assets; a pack's metrics are there while it is active; messages are their user's.

### Accounts, data sources (both in part, see section 6), documents, personal assets — modelled
| component | state | hard | correct when |
|---|---|---|---|
| Accounts (`auth.py`) | users in memory and in a file, sessions in memory | no lock; sessions are copied and put back; the file is emptied, then filled | sessions follow the accounts; somebody administers |
| Data sources (`datasource_executors.py`, `api.py`) | a JSON file, a cache of executors, submitted scans | the record is read before the lock | an executor is that of its record, none leaks, what is listed was given to a scan if its record asks for one |
| Documents (`document_store.py`, `api.py`) | rows and files | upload on the event loop, deletion in a thread | a document that was read has its bytes |
| Personal assets (`personal_asset_store.py`) | records with dependencies | check and insert are apart; backfill at every start | dependencies are acyclic |

### Not modelled
| component | why |
|---|---|
| Query routing and deterministic execution (`query_router.py`, `dsl_compiler.py`, …) | a pipeline without state, whose substance is the matching of words and the making of SQL text |
| Guardrails, controlled plans, row-level scope | rewriting of SQL trees by a library; needs a model of SQL |
| Domain pack loading and authoring | YAML files and a language model; no state. Releases of a base are a constant of `ExtensionLayers` |
| Audit and telemetry | append-only logs no decision reads |
| Contracts, web application | data classes; a client, whose requests are the models' inputs |

`PROJECT.json` lists the same parts, and under `hazards` every place where the code
is hard to test, with the properties that watch it; where the code gives way under a
hazard, a note says so.

### How the parts meet
A deployment names a pack (`EnterprisePacks.deployed`) or a layer
(`ExtensionLayers.deployed`), and a semantic space (`Deployment.space`, whose edits are those
of `SemanticProfile`). `RuntimeAssets` is composed with `ExtensionLayers`: it
extends it and lets its steps run beside a resolution. Activation projects into the product
repository: `ProductStore` holds both sides. Promotion moves a personal asset into a pack's
draft: `EnterprisePacks` holds both sides. A smoke test borrows a connection from the pool;
a changed data source submits a scan. Elsewhere parts meet by a look into one store and a
write to another, so each model holds both sides of the meeting it is about.

## 2. Modules

| module | content |
|---|---|
| `MappingContract` | abstract: what has a column keeps one, which only an administrator's answer replaces; a recorded smoke pass is about the columns of the moment it is recorded; going live needs all required fields bound |
| `Deployment` | one deployment with its stores, space and administrators |
| `DeploymentProofs` | types, the mapping invariants, `Deployment` implements `MappingContract`; what one administrator's work keeps, with failures |
| `ResourcePool`, `ResourcePoolProofs` | the pool; its counter, custody and bound |
| `PublishedVersions` | abstract: what can be read of a version stays until the pack is deleted |
| `EnterprisePacks`, `EnterprisePacksProofs` | packs, snapshots, promotion, deployments; implements `PublishedVersions` |
| `OrderlyPacks` | extends `EnterprisePacks` by a history variable: what holds while requests come one after the other |
| `ExportService`, `ExportServiceProofs` | jobs, artifacts, shares, workers, crash and restart |
| `Harness`, `HarnessProofs` | the planning loop, its planners and tools, confirmation tokens |
| `SemanticProfile`, `SemanticProfileProofs` | scans, snapshots, suggested and managed spaces |
| `ProductStore`, `ProductStoreProofs` | assets with versions, shares, files; start with migration and seeding; projection of packs |
| `ExtensionLayers` | the layer of an official or an enterprise base, its deployment, changes of the base, migration |
| `RuntimeAssets` | extends `ExtensionLayers`: the resolution of a request's assets beside them |
| `Accounts`, `DataSources`, `PersonalAssets` | users and sessions; sources and executors; assets and dependencies |
| `Documents`; `Chat` | uploads and deletions; conversations |
| `RuntimeStoresProofs` | layers, resolutions, accounts, sources, documents, personal assets and conversations, a specification, an invariant and a theorem each |
| `MC*` | the instances TLC checks |

### Deployment
`rows[f]` is the sequence of active rows of a field, oldest first; `Effective(f)` is
the column `get_mappings_dict_by_deployment` answers: rows come newest first and
fill a dict, so the **oldest** row is the one in use. `pending`, `smoke`, `active`
and `space` are the other stores. `pc[a]` and `local[a]` are a handler's place
and what it has read. `tested` (columns a passed test compiled), `vetted` (rows
counted at activation) and `answered` (requests whose confirmation was answered with 200)
are history, written along with what they explain and never read by an action. `Fails(a)`
cuts a handler short at any of its steps: the next store call, the connector or the model
raises and the handler answers 500, or the process ends; what was written stays. So a
confirmation that failed may have left the deployment active with a changed mapping and
its request open, and a retry inserts a second row: both are behaviours of the model, and
`RemapTakesOffline` and `AnsweredOnce` speak of the confirmations that were acknowledged. A request with a batch number is a *new* request: requests are
deleted by id, so an answer does not delete a newer question. Matching is a choice:
a confident match may be any column of the space, any other field becomes a question.
A confirmation names a request and a field, which nothing compares (requests of the kind
`confirm_other` send another field than the one asked for).
Actions of one handler: `Mount*`, `Remap*`, `Confirm*`, `Smoke*`, `Activate*`;
handlers of one store call (`Deactivate`, edits of the space) are one action.

### ResourcePool
One action per locked section, queue call or driver call. `available` is a set: the LIFO
order decides which free connection is taken, the model lets any be taken. `open`
is the server's view. `warming` counts the loop of `warm`, which runs in the
thread that installed the pool while others already use it.

### EnterprisePacks
`packs[p]`, `snapshots[p][v]` (rows of one version, oldest first), `promotions`,
`deployed`. A method is a reading step and a writing step; the writes have no condition
but the pack's id and do nothing (or, for `publish`, insert an orphan) when the
pack is gone. `get_snapshot` has no ORDER BY; SQLite answers through the index on
pack and version, in rowid order: the oldest row, also when a version is published again
(after a fork, or with its own number). That what is frozen last, the newest row, is what
the published pack's draft says is `PublishedIsSnapshot`; what `get_snapshot` reads is
`FrozenVersions`. `Crash` ends all handlers. `OrderlyPacks` adds `disturbed`, history: two
requests were under way at once, or one was cut short. Publishing a version again does not disturb.

### ExportService
`memory` and `disk` have the same shape. An action is what a thread does up to its
next SQLite transaction. `lock` is held across several writes by `create_export` and by
the success branch of `_process_export`, and by nobody in `create_share`, which
keeps a copy of the job in `local`. Artifact ids are fresh at each rendering; as a job
is rendered at most once per incarnation of the process, the incarnation's number
stands for the id. `close` waits for the workers; a `Crash` at an idle moment is that case.

### Harness
`run[t]` is what the local variables of `HarnessService.run` hold: `calls` the
fingerprints, `seen` the first observation of each tool (planners read no other), `last`
whether the last tool succeeded. `Commands(r)` is the set of commands that the policy
lets through: all the model may say, what the deterministic planner says should the model
fail, or the one command that is forced. `Observations(c)` is what a tool may answer, reduced
to what the planners read. A run shares nothing with others until it issues or consumes
a token, so all it does between two waits is one action. Texts of a call are left out of
its fingerprint: two calls that differ in the wording of a question count as one, so a run of
the model meets the duplicate check sooner and the step limit no later.

### SemanticProfile
`jobs`, `snaps` and `scans` are sequences; `scans[j].at` is the place of the scan's thread and
`Marks` lists what it writes where: `_run_scan_background` is the table of `JobMarks` and
`SnapMarks` with the stages between. `Raise` is a failure of a connector, of the model or of the
store at any call in the `try`, and leads to the handler's two marks. `GiveUp` is a failure
where nothing catches it, when the store is opened before the `try` or in the handler itself: the
scan is `cut`, and nothing marks it. `Waiting(j)` is a scan whose connector
works for it, with no limit on the time of a query. Spaces are numbered by the request that made them; a field has the id
(who made it, column). A refresh leaves in `handler` the ids that its administrator will confirm.

### ProductStore
A request is a reading half, which refuses or leaves in `pending` what to write, and a
writing half, one transaction. Reading halves are named for their handlers (`ShowMetric` is
`update_metric_visibility`). `Upsert` writes rows and their versions (`history`). The start is
`Rename`, `Migrate`, `Seed`: where sqlite3 commits. `Over(new, old)` is a table after an upsert:
the new rows win. Seeding is three tables over one another in turn, each from the rows the
former left. `Heir` is the asset that takes the versions kept under a former id. `clean` is
history: no request overlapped an activation or deactivation, none of these was cut short, and
no projection failed. A source is, as in the code, a pair of type and id, so that the source of a
pack is nobody's workspace and not the official one (`StoreAssumption`). A former database may
or may not hold the versions its assets had (`LegacyKept`, of which the start is given any
part): the migration inserts rows without recording their version, as
`test_asset_identity_repository.py` has it, so `Inherited` versions are exempt from
`RefsKeepResolving` while nothing has recorded them.

### ExtensionLayers and RuntimeAssets
A base is the set of its asset ids, a draft of a layer what it adds and needs. `kind` is
the base's: `official`, which has another release after a start, or `enterprise`, which
administrators edit in place (`EditBase`), publish under any version (`PublishBase`, `frozen`)
and fork (`ForkBase`) in requests that are one step here, `EnterprisePacks` having theirs. The
pin is compared with the version alone, so an enterprise base that changes in place passes it and
an active layer may then override an asset of the base: `reissued` is history, it says that the
base came to the pinned version with other assets, and `EffectiveSound` leaves that case out.
`Readable` says
whether `_row_to_extension` returns (a migrated row's audit trail is an object). `raced`
is history: a deletion and an activation were under way at once. `RestartLayers(r)` is a
start with release `r` of an official base installed. In `RuntimeAssets`, whose bases are
official, `request` holds a resolution's rows,
bindings and answer; `steady` is history: nothing it depends on changed since it began.
`Visible` states what a resolution in one step would find; it is a definition of its own,
over the stores, not over the steps. There is an administrator (`RuntimeAssumption`).

### Accounts, DataSources, Documents, PersonalAssets, Chat
Files that are written whole have two steps, one that empties and one that fills. A source's
record says whether it is to be scanned: a change of its connection submits a scan or goes into
`unscanned` (history: scanning is off, or the scan's rows could not be stored). `BuildFails` is a
connector that cannot be made after the executor it replaces was closed; the closed one stays in the
cache, `left`. What runs on
the event loop excludes other work of the loop only. History variables: `late` (sessions of
logins an edit overtook, or of deleted accounts), `crowded` (two edits at once), `clean` of a
look-up (no edit overlapped), `overlapped` (two saves at once), `late` of a message. That an asset
depends on another over any number of steps (`_dependency_path_reaches`) is said with sets that
are closed under dependencies: the other is in each that has the first one's own.

## 3. Runs

| run | question | instance |
|---|---|---|
| `deployment_one_admin` | What does one administrator's work, with the space edited between requests, guarantee when a request may be cut short and tried again? `RemapTakesOffline`, `AnsweredOnce`, `ActivationOnlyWhenReady`. | 2 fields, both required, 3 columns in 2 tables, all requests, one failure |
| `deployment_two_admins` | What survives interleaving? `ActiveFullyMapped`, `SmokeDescribesMappings`, `ImplementsContract`. | 2 administrators, one field required, 2 columns in 2 tables, no edits of the space, one failure |
| `deployment_remap` | finding: a confirmed change is stored but not used | one administrator |
| `pool_calls` | Is the pool exact, bounded, safe, and does every call end? | 3 threads, 3 connections, min = max = 2 |
| `packs` | Is a readable version frozen, with two administrators, crashes and a version published again; and, one request after the other, do the stores agree? | one pack, one asset, 2 versions, 2 snapshots of each |
| `export_restart` | Artifacts, outcomes, shares and termination across crashes | 2 clients, 2 workers, 2 jobs, 2 shares, 3 lives |
| `harness_runs` | Does a run end inside its budget, answer a named asset with it, and save once? | 2 threads (one asks, both confirm), 2 users, a metric and a report, one token, 4 steps, cost 7 |
| `semantic_profile` | Are suggestions adopted once, versions complete, finished snapshots and their spaces kept; do scans end? | 2 administrators, 2 workers, 2 scans, 3 requests, a table of one column; from nothing, or after one scan with a space |
| `product_store` | Do references resolve, files open, shares name assets, metrics follow activation? | 2 clients, 2 requests, 2 users, 2 deployments, an asset of each kind; new and former database, with and without its versions; crashes |
| `product_migration_crash` | finding: a crash during the migration loses a table's rows | the same without requests |
| `runtime_stores` | Seven stores that share no state, each under its races, crashes and restarts | see below |
| `layers_migration` | finding: what the migration makes of a former extension cannot be read | the layers alone |

`runtime_stores` checks accounts, data sources, documents, personal assets, layers, resolutions
and conversations in one run: they share no variable (but for layers and resolutions, which
are composed), so every interleaving of two of them is a step of one and then of the other, and
each behaviour of the run follows one *focus*. In the focus `runtime` one keeper works on
the layer (two are in the focus `layers`), and the start is `Served`: a layer that has been
made, published and deployed by steps the focus `layers` takes, so that the bound on requests
is left for what happens during a resolution.

`deployment_two_admins` has a `VIEW` without `vetted` and `answered`, which neither an action nor one of
its properties reads, and the administrators are interchangeable.

*Why the bounds are enough.* Handlers share only what the models hold, and every
race needs a check of one handler and a write of another: two administrators. Two
fields allow a metric over mapped and unmapped fields; two tables allow a field out of
the space. `MaxBatches = 2` lets a request be replaced by a newer one; with one failure
(`MaxFailures`) a confirmation is cut short at each of its steps and tried again. Three threads
over two connections make one wait while another fails or closes. One pack suffices
as packs do not share rows; two snapshots of one version show which one is read. Two
export jobs compete for two workers; three lives have a crash during the work a
restart resumed. Four steps and cost 7 let a run of the harness pass search, gap,
exploration and save, or inspection and execution, and meet either limit; the tools a model
asks for of its own accord are one of each kind the loop tells apart. Two requests of the product
store, with the projections and deactivations they lead to, let one read before and write after the
other, and a switch-off follow (it is not counted: activations bound it). The instance of
`SemanticProfile` starts with a finished scan as well, so that a second scan meets spaces of
another snapshot within its bounds. Three edits of a source give a look-up two former
records; two edits, two logins and room for one session evict, rename and delete under a login;
three assets close a cycle over two others; two releases and two drafts that clash with one of
them each let a layer be valid before a start and not after. Bounds are in the guards: `MaxBatches`, `MaxFailures`, `Requests`, `MaxVersion`,
`MaxSnapshots`, `MaxLives`, `Askers`, `Tokens`, `ModelTools`, `Costs`, `MaxScans`, `MaxRequests`,
`MaxEdits`, `MaxLogins`, `MaxSourceEdits`, `MaxExecutors`, `MaxUploads`, `MaxSaves`, `MaxLayers`,
`MaxLayerEdits`, `MaxPublished`, `MaxChats`, `MaxMessages`. `CHECK_DEADLOCK FALSE` appears where a behaviour may
really stop: all calls are over, and ids, versions or lives are used up.

*Fairness.* `ResourcePool!FairSpec`: weak fairness of each thread's next step: the
operating system runs it, driver calls end, and `queue.get` has a timeout
(without it `CallsEnd` fails: discarding a connection wakes nobody).
`ExportService!FairSpec`: workers and begun requests go on, and the service is started
again after a crash (an assumption on the operator: without a restart nothing can finish);
new requests and crashes are not fair.
`Harness!FairSpec`: planning and saving go on (the model call has a timeout, saving is a local
transaction) and the wait for a tool ends by its timeout; that a tool answers is *not* assumed.
`SemanticProfile!ProfileFairness`: a thread of the scan pool goes on unless it waits for its
connector (`~Waiting(j)`): a connector limits the time to connect, not that of a query, so that it
answers is no fairness but the hypothesis of `ScansEnd` (no scan waits for ever; two that do keep every
later one in the queue). Administrators, failures and crashes are not fair. The other properties are safety.

*Mutants.* Beside the actions stand a few variants ("a confirmation that leaves its
request open"): each is the code with a plausible bug, and one of the properties
fails when it replaces the action.

## 4. Findings
| run | the code | the text it contradicts |
|---|---|---|
| `deployment_remap` | `field_mapping_store.py:842`: newest row first, the dict keeps the last: after a confirmed remap the old column stays in use | `admin_prepare_remap`: "the current mapping is only replaced after the administrator confirms a candidate" |
| `product_migration_crash` | `product_repository.py:316`: sqlite3 commits the renaming of the first table; after a crash the next start sees the new, empty table | the test "…migrates_all_legacy_product_tables_without_data_loss" |
| `layers_migration` | `enterprise_pack_store.py:195` stores the audit trail of a migrated layer as an object; reading the row raises | the comment "Preserve their authored delta as a base-owned layer" |

Several guarantees hold for requests that come one after the other and give way when two
overlap, because a check and its write are in different transactions. Their properties say so
with a history variable, and these are the cases left out. They are behaviours of the models, and of
the code. Of interleavings: an edit that lands in a pack
published meanwhile, a snapshot of a deleted pack, a deployment of one (`StoresAgree`); a crash
between a promotion's two files (`StoresAgree`); an activation that is not ready any more when
the flag is set, hence `ActivationOnlyWhenReady` for one administrator; a release that puts a
connection into a closed pool, where `NothingForgotten` still counts it; a deactivation beside
an activation, and a projection that failed (`MetricsFollowActivation`); a layer deleted during
an activation (`LayersSound`); a space made while its snapshot is scanned (`SpacesKept`);
two edits of users at once, and a login an edit overtakes (`AccountsSound`); two saves at once
that close a cycle (`DependenciesAcyclic`); a message into a session that is archived
meanwhile (`ChatsOwned`); a resolution during which what it reads changes (`ResolutionSound`,
which then asks for exact versions only).

Of failures: a confirmation that is cut short leaves the deployment active with a changed mapping and
its request open, and its retry inserts another row for it (`RemapTakesOffline` and `AnsweredOnce`
speak of acknowledged confirmations); a scan that fails where it is opened or marked failed stays as it
is for ever (`ScansEnd`, `cut`); a source whose scan could not be stored is never scanned again, nor is
one for which scanning is switched on later (`CurrentScanned`, `unscanned`); an executor that was closed
for one that cannot be built stays in the cache and serves look-ups of its record
(`ExecutorsAccounted`, `left`); the version that an asset of a former database had, where that database had
not kept it, is lost with the next update (`RefsKeepResolving`, `Inherited`). And one needs neither: an
enterprise base that is edited in place keeps its version, so the pinned layer still resolves, and may
override an asset of the base, against "Extension cannot override base" (`EffectiveSound`, `reissued`).

A question that names an asset is also explored if the search itself raises (the policy
then asks the model, `harness.py:86-96`), against the prompt's "forced call. Never replace it
with exploration"; `NamedAssetForced` speaks of a search that answered.

## 5. Proofs
Theorems hold for every value of the constants that satisfies the module's
assumption: well-typed constants and values outside the sets. Beyond that: threads are finite
in the pool, the names of accounts are finite (`AccountsAssumption`), what a repository lists has
the fields of assets (`AssetsAssumption`), there is an administrator (`RuntimeAssumption`), and in
`StoreAssumption` the seeded and the former rows are not of a pack, the projected ones are. TLC
evaluates each of them on the instances of the runs.

Every safety property that a passing run checks is stated by a theorem. Where a property holds of
requests that come one after the other, it says so by its history variable (or, in `Deployment`, by
`OneAdmin`: there is a single administrator), and the theorem is about the same formula; its
invariant is then an implication, whose hypothesis the run's states satisfy.

* **Deployment.** `TypeCorrect`: types, with `ContextOK`: a handler at a step has the
  arguments of that step. `MappingsInvariant`: `MappingInv` is inductive. Its core is
  that a row is only appended and the oldest is read, so in this code a mapped field never
  loses or changes its column (`Kept`, a lemma about the code and no part of the
  contract); hence what a handler has read stays true however late
  it acts (`ReadOK`): an activation that found all required fields mapped still finds
  them so when it sets the flag, and a smoke verdict is about the columns in use when it
  is written. `ActiveFullyMapped` alone is not inductive: nothing in it speaks of the
  activation between its check and its write. `ActiveImpliesMapped`, `SmokeIsCurrent`
  follow; `Implementation`: every step is a step of `MappingContract` (a match is `Propose`, a
  confirmation of an unmapped field `Answer`, the end of a smoke test `Pass` or `Void`) or a stutter.
  (The same fact, the oldest row wins, is the defect of `deployment_remap`: were the
  newest to win, the smoke invariant would need a new argument.)
  *One administrator, with failures*: `OneSound` says what a handler at each step knows that nobody else
  can undo. `VettedSound`: fields looked at and found unmapped still are; a confirmation knows whether
  its field had a column, and finds the deployment off when it is through with a required field, so that
  what an active deployment's required fields were given since answers nothing that was acknowledged.
  `AsksSound`: numbers of requests are new, and neither an open request nor one about to be asked was
  acknowledged, wherever the requests before were cut short. `ReadySound`: what readiness was computed from still stands when the flag is
  set. `OneAdminTakesOffline`, `OneAdminAnswersOnce`, `OneAdminActivatesReady` follow.
* **Pool.** `PoolInvariant`: `Counting` (types, `Counted`, `created <= Max`) and
  `Custody` (holders have a connection, none is free or shared, each is open, and each
  open one is free or held). `CounterExact`, `PoolBounded` (a thread that puts back owns
  one of at most `Max` counted units, so fewer than `Max` are in the queue),
  `OneOwner`, `ConnectionsSafe`, `NothingLost`.
* **Packs.** `TypeCorrect`, and `VersionsFrozen`: `EnterprisePacks` implements
  `PublishedVersions` for any number of administrators, crashes and repeated versions:
  publish only appends, the first row is the one read, deletion removes them all, and a version that
  is published again changes nothing that is read.
  `SerialStoresAgree` and `SerialRecords` are about `OrderlyPacks`: while nothing was disturbed at
  most one handler is at work (`Alone`), what its check has read still holds when it writes
  (`CheckHolds`), a pack that nobody works on agrees with its newest snapshot and its deployments
  (`PackSound`), and a promotion under way is either recorded or still to be undone
  (`UndoIsRecorded`).
* **Export.** A job that is not finished has one owner: the request that creates it, its place in
  the queue, or one worker; so a job is rendered once in a life of the process, and what its
  worker has written up to a step is there at the next one. On top of it: `SuccessIsServed` (a
  success has its artifact, in memory and on disk, because the artifact is written first),
  `OutcomeKept` (what can be read of a finished job is on disk: both writes are under the lock),
  `SharesOpen`, and `OutcomesFinal`: the stale copy that a share writes back is of a job that was
  finished when it was read, so it changes the share and nothing else. Job ids are finite in
  number (`ExportAssumption`).
* **Harness.** Nothing is assumed of the language model: it may propose any command its
  types allow. `TypeCorrect` as above. `ConfirmedOnce`: `ConfirmInv` says that a token is
  in one request's hands and the store's state says how far that request has come
  (reserved while it plans, consumed while it saves); `SavedOnce` alone does not tell
  two requests with one token apart. `BudgetKept`: `BudgetInv` adds to `WithinBudget` that
  a tool starts at most one planner step after the deadline (`Paced`); a continuation
  is charged without a check, hence the exemption `calls = {}`. `AnswerIsForced`:
  `ForcedInv` follows a named question through its stages: before the search has
  answered only searches were tried; then the asset is inspected, then it is run,
  and no tool comes after that, so what the last tool answered is what the asset answered.
* **Semantic profile.** `ProfileInv` has three parts. `ScansInv`: a snapshot belongs to one
  scan, whose place says what its phase may be; a job that says done has nothing left to do,
  so a late `pending` (`TellPending`) loses a message but no result, and one that was cut writes
  nothing more. `AdoptInv`: a field's
  id says who made it, a scan that has not saved has suggested nothing, a number names one
  space, and a field is suggested once or in one space. `ScanKeeps` states once what a
  step of a scan writes, and each step is an instance of it. `ScansDoneAreSaved`,
  `FieldsAdoptedOnce` and `SpacesStay` follow: that a publication is made from a refresh
  read long ago does no harm, because the suggestions are looked up again when it
  writes. `VersionsRemainComplete` needs `VersionsInv` beside it: versions 1 to the space's own
  are there, once each, and no version names a space that is yet to come.
* **Extension layers.** `LayersInv`: types; `BaseInv`, an official base is its release; `PinnedInv`, a
  layer and every edit between its check and its write are valid (`Valid`) against the version the layer
  is pinned to: of an official base against that release; of an enterprise base against its assets
  if it is at that version, or it was `reissued`; `ActiveInv`, from its look at the layer on an
  activation has a deployed layer and no deletion under way, or they raced. `LayersRemainSound` follows,
  with starts that change the release, and edits, publications and forks of the base, in between.
* **Resolutions.** `RuntimeInv` puts three facts on top of `LayersInv`. `MigratedInv`: nothing makes a
  migrated layer active, as no request can read it. `ExactInv`: from its rows over its bindings
  and references to its answer, all that a resolution holds of the pack is of the version that is
  deployed, and a definition comes from a snapshot of that version (a least snapshot
  exists: the one induction here, through the library's well-foundedness of the naturals).
  `SteadyInv`: while nothing that it reads changes, each binding is one of the present
  (`Current`), each reference stands (`Standing`), the answer is part of `Visible`, and what is
  missing of `Visible` is due: from a row, a binding or a reference (`Due`). An answered resolution
  has none of these left. `ResolutionsRemainSound` follows.
* **Product store.** Four theorems, each with an invariant over rows, kept versions and the requests
  under way. `RecordedFilesOpen` (`FilesSound`): a file is written before its row, and a request
  that makes one knows what it has written (`MakesFile`). `ReferencesKeepResolving` (`RefsSound`):
  the versions of each row are in `history` or `Inherited`, writing over a table and seeding only add
  to it (`Grown`), and each former id has one heir, so that the migration moves its versions whole.
  `SharesNameAssets` (`SharesSound`): a share is kept as kind and code alone, and every row of the
  pack's source, present or under way in a request, has the kind and code of one of `PackRows`
  (`OfPack`, `WorkOfPack`), so that a projection, which writes its rows over those there are,
  leaves no share without its asset. `MetricsFollow` (`ActivationSound`): while
  `clean`, each request under way agrees with what is active (`WorkAgrees`: a projection follows
  an activation, a withdrawal found none active, no other request brings a pack metric back or
  drops one); and either one client projects with all others at rest, or none does and the pack's
  metrics are listed exactly while a deployment is active.
* **Accounts.** While edits come one at a time, a session that does not fit its account is one whose
  login the edit overtook, or waits for the edit that will mend it; another administrator than
  the one edited is there between the check and the write. `AccountsFollowed`.
* **Data sources.** An open executor is in the cache, and what is in the cache is open or was left by a
  failed build; a look-up is clean until the file is emptied, and what it has read is then the record; what
  is listed was submitted, is about to be by the handler that wrote it, or is `unscanned`.
  `ExecutorsFollowSources`.
* **Personal assets.** A checked row still does not reach its asset when it is written, as saves come
  one at a time; closed sets intersect and unite, so adding a row whose dependencies do not
  reach it closes no cycle (`RowClosesNoCycle`). `DependenciesRemainAcyclic`.
* **Documents.** `BytesInv`: the bytes are there by the time they are read, and go after their
  row. `DocumentsReadable` follows, wherever the process ends.
* **Conversations.** `ChatInv`: a message is without a session before the start has run and at no
  other time; a session that a request has found stays its user's. `ChatsRemainOwned` follows.

The stores of `runtime_stores` have a specification each in `RuntimeStoresProofs` (`DocumentsSpec`,
`LayersSpec`, `RuntimeSpec`, …), with the initial states and the next-state relation of their module: a
behaviour of the run is a behaviour of one of them, with the others at rest. The focus `runtime` of the
run starts later in a behaviour of `RuntimeSpec` (`Served`).

Only model-checked: liveness (`CallsEnd`, `ExportsFinish`, `RunsEnd`, `ScansEnd`), which the prover
cannot do, and the three refutations. What a fold over rows computes for every input is an induction
over data, out of the prover's reach too; `ProductStore` therefore says what an upsert makes of a
table (`Over`), and the proofs need no fold.

## 6. Abstractions and what is left out
* Texts, candidates' scores, SQL, rendered files: a column, an edit or an artifact is a value.
* A store call is atomic: each is one locked method or one transaction.
* Writes to SQLite do not fail in `ExportService` while the process runs. What would follow
  (a job that stays running) is listed as a hazard without a property.
* Deployment: no reuse of another deployment's mappings, no cascade from a deleted data
  source; a process that ends cuts the handlers short one at a time (`Fails`), not all at once. Smoke tests run on the metrics whose fields lie in a single table.
* Harness: what tools compute; a conversation's rewriting of the question (it only decides
  whether the question names an asset); an abandoned tool's later effects.
* Export: no subscriptions (each ends as failed), share verification, audit or cron.
* Semantic profile: what is learnt of a column (type, samples, evidence) is the column; a
  failing profiler is ignored by the code and so by the model.
* Product store: a text is the set of metrics it mentions; a scheduled job is a row.
* Extension layers: what an audit trail says (whether it can be read is modelled); the deletion of
  an enterprise base; the steps of its requests (they are those of `EnterprisePacks`). Runtime
  assets: bases are official, no bindings of personal assets, no bare deployment of an official pack.
* Accounts: no passwords, signed tokens or settings. Data sources: no encryption; the process does
  not end; of a scan that a change submits, the source and its parameters. Documents: what an extractor finds.

## 7. Plan
What is left, in this order; each entry names the question.

1. `ExportService`: writes that fail while the process runs. Which jobs stay as they are?
2. `Deployment` with several administrators: which of the three promises of `OneAdmin` survive when only
   confirmations, or only activations, overlap?
3. A specification that composes `RuntimeAssets` with `EnterprisePacks`, as a refinement: publishing
   and deploying in their own steps.
4. `DataSources` composed with `ResourcePool`: is no pool left open after a source is changed,
   with calls in progress?
5. `RuntimeAssets` with bindings of personal assets, and over an enterprise base.
6. Pure algorithms against reference definitions over bounded inputs: next run of a cron
   expression, precedence in the query router, row-level scope.
