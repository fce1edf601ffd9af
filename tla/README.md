# OpenMemory: a TLA+ verification of its core

OpenMemory stores what agents tell it in SQLite-backed graphs with a search
index. Writes of many agents go through a write-behind bus (the *context
engine*), whose promise is "crash-durable, exactly once, backpressure and never
data loss"; below it are one or several stores, each with an audit log that its
search index follows; above it is a daemon that names, leases and maintains the
spaces stores belong to, runs jobs and restores backups. The project models
these four layers and how they fail. The modules are translated from the
Rust sources; paths below are relative to `src/crates/`.

## 1. Inventory

| component | state | operations | what is hard | what makes it correct |
|---|---|---|---|---|
| bus, `openmemory-engine/src/engine.rs` | per shard: queue, next sequence number, journal buffer, drain lock, watermark, failure map; admission gate; flusher threads; owner lease | try_submit, wait_durable_result, drain_shard, maintenance, pause_admissions, quiesce, shutdown, drop, start | agents, flushers, backups and maintenance interleave; failing transactions; crash and power loss | an acknowledged write survives; each write is applied once; numbers get outcomes; the journal is erased only when nothing needs it |
| journal, `openmemory-engine/src/journal.rs` | one append-only file per shard, with buffered, written and synced parts | append, truncate, replay | torn tails, buffer boundaries, restart in the middle of everything | replay applies what the store lacks, and only that |
| batch commit, `openmemory-graph/src/batch.rs` | one SQLite transaction and the checkpoint row of the shard | remember_batch, get_checkpoint | errors before and after the commit | data and checkpoint move together; the checkpoint never goes back |
| store, `openmemory-graph/src/store.rs` | database, WAL, index generations, reader pool | open, wal_checkpoint, index sync | a reader keeps a checkpoint short; `synchronous=NORMAL` | the WAL is empty after a complete checkpoint |
| domain partitioning, `openmemory-engine/src/partition.rs` | K stores, merged recall cache and its write version | routed writes, mirror edges and stubs, forgetting, tidying, recall | several stores without a common transaction; a cache filled while a write commits | facts are in their home domain, and rows but for what stubs' ids lead astray; a cross-domain edge is on both sides, save where a failure or a stub's id cut it; recall serves what was acknowledged before it |
| domain migration, `openmemory-engine/src/migrate.rs` | old, staged and backup layouts, intent sentinel | migrate_domains, restoring by hand | a crash between any two renames | no file of the old layout is lost, no half one opens, nothing canonical is dropped |
| space handles, `openmemory-engine/src/space/`, `legacy.rs` | `.space-id` | read or create the id | two processes that start at once | one id |
| graph, `openmemory-graph/src/{remember,recall,resolve,normalize,forget,consolidate,...}.rs` | entities, observations, relations, tombstones | one transaction each, then the index | the index is written after the commit and may fail or crash | no observation lost that was not asked for; recall finds what is active or refuses |
| audit log and changesets, `openmemory-graph/src/audit.rs` | observations with versions, revisions, change sets, destruction tokens, outbox, generations | draft, submit, propose, approve, reject, revert, destroy, backfill, repair_index | a row changes between its read and the commit or the review; answers lost and repeated; repairs that overtake each other | revisions account for the rows; a changeset is applied once, entirely and on what its author saw; the outbox does not pretend |
| search index, `openmemory-index` | vectors and full text, in memory and in files | insert, search, delete, flat to HNSW switch | index behind the store after a crash | every active observation that is not pending is in it |
| merge, `openmemory-merge` | none: functions of snapshots | plan, three-way merge | many cases | determinism; conflicts are never resolved silently |
| space catalog, `openmemory-daemon/src/{space_manifest,product_store/spaces}.rs` | catalog row, root manifest, store metadata, `.space-id` | bind the personal space, create a space | four places, no common transaction, several processes, each of which may stop | they never disagree |
| space registry, `openmemory-daemon/src/space_registry.rs` | open runtimes, leases, LRU list, closing set, counters, shared and exclusive file locks | acquire, drop of a lease, close_for_maintenance, eviction | threads and processes; a runtime dropped later than its lease | a leased space is never closed; maintenance is alone; counters match what is open |
| daemon jobs and restores, `openmemory-daemon/src/{state,backup}.rs` | job table, durable rows and events, event streams, profile directories | queue, run, complete, restart, restore | a job is published in four steps that may fail; a restore renames twice | health says so when jobs are not durable; a restore destroys nothing |
| daemon server, auth, backup copy, `openmemory-daemon/src/{lib,auth}.rs` | active store, tokens | HTTP handlers, backup | backup of live stores | a backup holds every acknowledged write |
| MCP, `openmemory-mcp` | none beyond the stores | tools, HTTP and stdio framing | supersession in four commits | a failure leaves a duplicate, never a gap |
| watcher, `openmemory-watch` | debounced events | scan, upsert, remove, rename | events out of order | the index matches the tree once events stop |
| core, embed, cli, admin, eval, bench | configuration, models, output | parsing, inference, measurement | little that is stateful | - |

How they interact: agents call the bus through MCP or the daemon and get a
ticket; a flusher drains a shard and calls `remember_batch` of the domain store
the shard maps to (`shard % domains`); worker 0 runs `maintenance`, which
checkpoints every store and then truncates journals; a backup closes the
admission gate, waits for the bus to be quiet and copies files; start-up replays
the journals before the first flusher runs. Inside the engine, mutexes, condition
variables and one atomic watermark per shard are the only shared state.

Calls that do not go through the bus reach the facade of `partition.rs`, which
commits in one store after another and then bumps a write version that cached
recalls are compared with. Inside a store a change is a changeset; its
transaction leaves items in an outbox, and the index is brought up to them
afterwards, by the thread that submitted or by the next one that does. The
daemon binds the personal space when it starts, leases it from its registry for
as long as it serves, and runs jobs, which write their progress to the product
database and to the clients that listen. Other processes (commands, a second
daemon) meet it only in files: file locks, `.space-id`, manifests, the product
database and the profile directories.

`PROJECT.json` lists each hazard at its line with the properties that watch it.

## 2. Modules

| module | what it is |
|---|---|
| `ContextEngine` | the bus, its journals, the part of the stores it depends on, and the environment that fails |
| `ContextEngineProofs`, `BusProofs`, `RefinementProofs` | theorems about `ContextEngine`, each extending the one before: types and checkpoints, single writes, the refinement of `WriteBus` |
| `WriteBus` | the abstract specification: what the bus promises, without journals, drains or threads |
| `ContextEngineBus` | the refinement mapping, `ImplementsBus == Bus!Spec` |
| `ChangeSets` | one store: observations, audit log, changesets, outbox, index, and the threads that call it |
| `DomainStore` | a profile split into several stores behind one facade |
| `DomainMigration` | `DomainStore` in its directory, and the migration to another number of domains |
| `SpaceCatalog` | the four places that name a space, and the processes that bind and create spaces |
| `SpaceRegistry` | `SpaceCatalog` with the runtimes, leases and locks of each process |
| `DaemonJobs` | the job registry, its durable side, and restores |
| `Daemon` | the composition of `SpaceRegistry` and `DaemonJobs`, with processes that stop |
| `ChangeSetProofs` | theorems about `ChangeSets` |
| `DomainProofs`, `RecallProofs`, `EdgeProofs` | theorems about `DomainStore` and `DomainMigration`, each extending the one before: layout and migration, what recalls answer, edges between domains |
| `DaemonProofs` | theorems about `Daemon`: its jobs and restores, then its spaces, leases and identities |
| `MCContextEngine`, `MCContextEngineBus`, `MCChangeSets`, `MCDomainMigration`, `MCDaemon` | instances for TLC |

### State and code: the bus

| variables | code |
|---|---|
| `buf`, `nextSeq`, `jbuf` | `ShardQueue`: its buffer, `next_seq`, and what is in its `BufWriter` |
| `jfile`, `jsync` | the journal file as a sequence of writes (a record, or the newline after it) and how many of them an fsync covers |
| `db`, `survivors` | a store as its readers see it (copies of each request, checkpoint of each shard), and the states it may come back in after a power loss: all those committed since the last complete WAL checkpoint |
| `dpc`, `work`, `pub` | a running `drain_shard`: where it is, what it has not answered, what it will publish |
| `durable`, `failures` | `DurableWatermark`, the failure map |
| `mpc`, `marks`, `mleft`, `complete` | a running `maintenance`: its place, `watermarks`, the loop, `all_complete` |
| `cpc`, `ticket` | an agent in `wait_durable_result` |
| `spc`, `smark` | a backup in or past `pause_admissions` |
| `phase`, `unreplayed` | start, run, shutdown and drop |
| `accepted`, `told` | history: tickets issued, outcomes reported |
| `faults`, `crashes`, `losses` | how much the environment has done, for the bounds |

The actions are the critical sections of the code. `Submit` is one, because the
queue lock is held throughout. A drain takes up to six steps (swap, fsync, commit,
publish, notify, and one per retried request), because submitters, waiters and
maintenance run between them. A waiter takes three (test under the mutex, go to
the condition variable, be woken): the mutex is held from test to wait, and
the drain publishes without it. Maintenance takes one step per store and one per journal.
Where a loop reads the shards one after another and no step in between can change
the answer, one action reads them all; the comment at the action says why.

Abstractions, all in the data. A request is a model value that is submitted at most once, so
counting copies counts duplicates; what a request contains, and the grouping by
entity inside a drain (which changes no checkpoint and no membership of the transaction), are left out. A torn or
mangled tail is a mark, not a byte string. The BufWriter writes out what it
holds at any append, as its capacity is unknown to the model; with `midline` also
between a record and its newline. `quiesce` also drains from the caller's thread:
the steps are those of any drain under the drain lock, so only its waiting is
modelled (`SnapshotReady`, `RequestShutdown`). Both guards are the answered
wait; that the wait itself can miss its notification after a failed transaction
is finding 1 below and the reason `PauseGranted` and `ShutdownCompletes` say `faults > 0`:
with no failed transaction the caller's own drain, serialised by the drain lock,
leaves the watermark at its target, and it never sleeps. Journal write errors are ignored
by the code ("best-effort by design") and do not happen in the model; replay
reads a file that no one else writes (the owner lease), so it is one step per shard.

### State and code: one store (`ChangeSets`)

| variables | code |
|---|---|
| `rows`, `revs` | `observations` with lifecycle, text, `row_version` and head; `observation_revisions`, oldest first |
| `dom` | `domain_state`: semantic and indexed generation, `index_repair_required` |
| `outbox`, `sets`, `tokens` | pending rows of `index_outbox`, `change_sets`, `destruction_confirmations` |
| `mem`, `disk` | the vector index that is searched, and the file it is loaded from |
| `barrier` | the rebuild lock held for writing |
| `pc`, `draft`, `batch` | a thread's place, the changeset it has drafted, the outbox items and rows it has loaded to publish |
| `owed`, `overtaken` | history: what a recall should find; observations last published by an outdated repair |
| `mix`, `failures` | the workload of this behaviour, and what has failed so far |

A SQLite transaction is one step, because a store has one writer connection; so is
a read statement. What a client holds from an earlier read is its `draft`, so
everything that can happen to a row between its read, the submission and the review
does. A repair has four steps: select the items, load the row of each, publish
under the barrier, mark. `remember` is a changeset without a draft whose publication
ends the call; consolidation, pruning and hard deletion go past the audit log and
write the index directly, as in the code.

### State and code: a profile (`DomainStore`, `DomainMigration`)

| variables | code |
|---|---|
| `db` | the number of domains and, for each, its entity rows (canonical or stub), live observations and edges |
| `version`, `cache` | `write_version`; the recall cache, one entry because there is one query |
| `pc`, `job` | a call of the facade, between two of its commits |
| `journal` | requests an engine has journaled and not yet applied; the next open gives each to a thread that is an engine's |
| `acked`, `gone`, `torn`, `raced`, `strayed` | history: what has been acknowledged; edges left on one side by a failure or a stub's id; entities forgotten while being written; entities written by a stub's id when their row was gone |
| `root`, `backup`, `staging`, `sentinel` | the profile directory, `MIGRATE_BACKUP_DIR`, the staging directory, `.migrate-intent` |
| `mpc`, `staged` | a running `migrate_domains`, and the layout it has built |

The order of the commits is the code's: mirror, home, sweeps of the other
domains, bump. Each may fail, and then the call returns without the rest.
`AddRelation` and `ForgetEntity` begin with a row of any domain, as
`find_entity_by_id` does: the id of a stub is as good as that of a canonical row,
and `job.at` is the domain the code then takes for the home of the entity. For a
relation between two domains that domain gets the edge, and its name is
in no step compared with it; if the canonical row has been forgotten, the mirror
makes a stub at home or the home commit a canonical row elsewhere. `Astray` is
exactly these two steps, and `strayed` remembers their entity until a migration,
which gives up on two canonical rows of a name and routes all others by name.
An `add_relation` from a row to itself, which crosses nothing, is left out; a remembered relation of an
entity to itself is in, as an entity that is written elsewhere may then be its own target.
A migration may start from any state these calls reach, also those that failures
and races have left, rather than from tidy ones.

### State and code: the daemon

| variables | code |
|---|---|
| `idFile`, `row`, `manifest`, `bound` | `.space-id`; the row of `memory_spaces`; `space.toml`; the space id in the metadata of the store |
| `pc`, `at`, `id`, `drawn` | a thread in `bind_legacy_personal_global`, in creating a space, or in the registry; the ids drawn so far |
| `runtimes`, `leases`, `lastUsed`, `openDomains`, `closing` | `RegistryInner` of each process; `lastUsed` is the order of the last ticks, all the LRU choice depends on |
| `exclusive` | who has the exclusive file lock of a space; the shared one is held by every process with a live runtime of it |
| `jobs`, `nextSequence`, `attached`, `degraded`, `update` | `JobRegistry`; the update under `event_order`, with its stage |
| `jobRows`, `events`, `heard` | `daemon_jobs`, `daemon_events`, and what clients got while health was good |
| `worker`, `profiles`, `parked`, `held`, `torn` | the workers; the profile directories; `.restore-previous-*`; history for the properties |

`Crash(p)` ends a process: its threads, locks and runtimes are gone, its files
stay. A server with nothing to do may also stop without it counting as a fault.
A thread that calls `serve` keeps its lease, as the daemon does with the store
of its active profile. Maintenance of a space is called only by tests so far;
it is modelled because leases and locks are written for it.

Each header says what its module abstracts from.

### Bounds

In the modules other than the bus's, the calls are many and most pairs do not
touch. `Mixes` therefore lists workloads, one of which `Init` chooses: which
calls each thread may make, and bounds on commits (`commits`, `writes`) and on
failures (`failures`, `faults`). The workloads pair each call with those that write what it reads. In
`ChangeSets` three commits make a change, one it conflicts with and one that repairs; one key, one
token (`MaxTokens`) and one proposal (`MaxSets`) are contended by two actors. In
`DomainMigration` two entities are together in one domain and apart in two, so
the edge between them is of both kinds; a workload also lists what may be
remembered (`requests`). A flusher, a caller that relates and one that forgets are what it
takes for an entity to stray or an edge to be torn: one puts the stub there, one uses its id while
the other's sweep is between two stores. A third entity, in one workload, is
the neighbour to which a stub is related after a failed forget. In `Daemon` two of three domains fit (`MaxSpaces`,
`MaxDomains`), so an acquire has to evict; three ids are as many as there are threads to draw
one; two restores want the same profile. Ids, texts and actors are
interchangeable and symmetric where the initial states treat them alike.

In the bus, `MaxFaults`, `MaxCrashes` and `MaxPowerLosses` bound the environment; `Request` bounds the sequence
numbers. They appear in the guards `Fault`, `ProcessCrash`, `PowerLoss` and `Submit`.
Two or three writes on one shard are enough for a batch whose first request is
retried while the second is not resolved and a third arrives; three
failed transactions are what it takes to fail the batch, the retry and the rejection's
checkpoint; one crash and one loss, in either order, give
two replays. Shards share nothing but maintenance and the stores, so two shards
on two stores are enough where one store's checkpoint could justify erasing the
other's journal.

## 3. Runs

| run | instance | shows |
|---|---|---|
| `crash_replay` | 1 shard, 3 writes, capacity 2, torn, mangled and mid-line tails, 1 crash, 1 power loss, complete checkpoints (93 thousand states) | acknowledged writes survive (`DurableSurvives`), nothing is applied twice (`AppliedOnce`), only crashes and rejections lose an accepted write (`KeptUntilOutcome`), types |
| `failing_store` | 1 shard, 2 writes, a backup, 3 failures, short and failing WAL checkpoints, failing `set_len`, 1 crash, 1 power loss (342 thousand) | the retry, rejection and requeue paths; the checkpoint never passes an unresolved write (`NothingSkipped`); a rejected write stays out (`RejectedStaysOut`); the watermark is backed (`WatermarkBacked`); a held gate means a quiet bus (`QuietWhileHeld`); a journal is erased only when every surviving state covers it (`ErasedOnlyIfCovered`) |
| `two_shards` | 2 shards on 2 stores, errors after the commit, short checkpoints, 1 power loss (747 thousand) | truncation waits for every store; shutdown leaves clean files if its last checkpoints were complete (`CleanShutdown`) |
| `liveness` | 1 shard, capacity 1, 2 writes, a backup, 3 failures (77 thousand) | `OutcomeReached`, `RoomAgain`, `JournalReclaimed`, `PauseGranted`, `ShutdownCompletes` |
| `implements_bus` | 1 shard, 3 writes, 3 failures, 1 crash (1.9 million) | the engine implements `WriteBus`: order per shard, at most one application, final answers, crashes that cut off only the newest writes |
| `change_sets` | 2 observations, 2 texts, 2 threads, 2 actors, seven workloads, up to 2 failures (2.3 million) | revisions are the history of their row (`Lineage`); every generation is one changeset, applied entirely (`Accounted`); repeated requests apply once (`OncePerKey`); a change replaces what its author read (`NoLostUpdate`), a destruction what its actor previewed (`DestroyOnlyAsPreviewed`); pending work is admitted (`OutboxHonest`); what is active and settled is indexed (`IndexComplete`) and is found by any recall that passed the gate (`RecallSound`) |
| `domain_migration` | 3 entities, 2 facts, 1 or 2 domains, 3 threads of which one is an engine's, seven workloads, up to 2 faults (3.6 million) | facts are where lookups go, and rows unless a stub's id led their entity astray (`CanonicalAtHome`); edges have both sides (`EdgesBothSides`); recalls serve what was acknowledged, cached or not (`RecallCurrent`); no crash leaves less than a whole layout (`LayoutRecoverable`); migrations drop nothing and mend lost mirrors (`MigrationPreserves`) |
| `daemon` | a daemon and a command, 3 threads, 3 spaces, 3 jobs, four workloads, up to 2 faults (1.4 million) | the places that name a space agree (`OneIdentity`); leases, evictions, maintenance, limits and gates are respected in and across processes (`LeasesHonoured`, the conjunction of `ResidentWhileLeased`, `AloneInMaintenance`, `WithinBudget`, `GateOwned`); health is not better than the durable registry (`HealthHonest`); restores keep every profile (`RestoreKeeps`) |
| `lost_wakeup`, `duplicate_retry`, `torn_tail_merge`, `stale_repair` | as small as the behaviour allows | the findings below: TLC finds each violation |

Each run with a `TypeOK` checks types too. Deadlock is checked in every run: a
fully submitted, quiet engine can still be shut down and started, a profile can
be closed and opened, a process can stop.

Requests of one entity are interchangeable, so the safety runs use symmetry;
runs with temporal properties that quantify over time, and the refinement, do not.

**Fairness** (`FairSpec`). Weak fairness of each drain, as every shard belongs to a
flusher that visits it each `flush_interval`, and a drain that holds the drain
lock runs on; of the waiting agents, maintenance (worker 0), start-up, the steps of a shutdown already begun,
and the end of a backup. Nothing obliges an agent to submit or anyone to start, stop or crash the
engine. Weak fairness suffices for `Reject`, which needs a mutex, because a
waiter that holds it always gets on. `PauseGranted` and `ShutdownCompletes` speak of
behaviours without a failed transaction only: a caller of `quiesce` whose drain fails depends on a
notification it may miss (finding 1), so they say nothing of a lost wakeup, nor of a flusher that
failures keep from publishing. The first is `ReceiptArrives`, the second `OutcomeReached`, which holds although a failed
checkpoint puts requests back, since failures are bounded: with
a store that fails for ever nothing is promised, by the code either.
The other modules state no fairness and are checked for safety only: their
calls come from outside, and nothing schedules a repair of the index, a restart
of a job or the end of a lease.

### Findings

1. **A waiter can sleep for ever** (`lost_wakeup`, `ReceiptArrives`). `wait_durable_result`
   tests the watermark under the failures mutex; `drain_shard` advances it and
   notifies without that mutex (`engine.rs:836-837`, `847-848`). Between a test and the
   wait that follows it both can happen, and nobody notifies again until another write of the shard commits.
   Taking the mutex around the two lines closes the gap.
2. **A retry can apply a batch twice** (`duplicate_retry`, `AppliedOnce`). `remember_batch`
   may fail after its commit (`batch.rs:222-225`); the drain assumes that "the
   batch rolled back as a whole" and retries each request.
3. **A torn tail can swallow an acknowledged record** (`torn_tail_merge`, `DurableSurvives`).
   If the maintenance pass of a start cannot finish a checkpoint, the torn line stays, the
   file is reopened for appending, and the next record shares its line.
4. **A repair can undo a newer one in the index** (`stale_repair`, `IndexFollows`).
   `repair_index` loads its batch before it takes the publish barrier and publishes
   it there unchecked (`audit.rs:1056-1177`). A retirement whose delete is
   loaded, then overtaken by a restore that is published and marked, deletes the
   restored observation from the index, with nothing pending and recall open.
   The comment says that "the outbox remains authoritative" (`audit.rs:1103-1104`).
   Comparing each row's version again under the barrier would close it.
   `IndexComplete` and `RecallSound` except exactly those observations (`overtaken`).
   A failing repair can do the same: it deletes with an old item, fails before the
   newest, and the newest may have been marked by another repair. The seventh
   workload has this case; the proof of `SettledIsIndexed` found it.

Other places where the text promises more than the code does; the model has the
code's behaviour unless a point says otherwise, no run is spent on them. The bus:

- `Requeue` ignores `shard_capacity`, which "bounds memory" (`engine.rs:69-71`, `docs/configuration.md:162`): a shard may briefly hold its capacity and one drain more.
- A power loss inside a multi-byte character makes `lines()` fail, and with it
  every later start (`journal.rs:104-105`; `journal.rs:11-12` says torn trailing lines are dropped).
- A rejection is published after its commit, which a power loss may undo; the next replay may then apply the write the caller was told has failed
  (`engine.rs:792-794`: "only publish that rejection after its checkpoint is durable"). Hence the premise `losses = 0` of `RejectedStaysOut`.
- "The request is on disk before the ticket returns" (`lib.rs:21-22`): it is in a `BufWriter`. A process crash before the next flush loses it; `KeptUntilOutcome` excepts crashes for this reason.
- A start with fewer shards, or another number of domains, never opens the journals of the shards it no longer has (not in the model, where the number is fixed).

One store:

- A crash or a failing index between a remember's commit and its mark leaves
  `index_repair_required` set; only submitting or approving a changeset calls
  `repair_index`, so recall refuses until then. The comments name a
  `rebuild_if_stale` (`remember.rs:591`, `forget.rs:199`) that does not exist, and
  a failing index can set the flag with nothing pending.
- The index arms append on an upsert, so an observation's old text stays
  searchable until a rebuild; the candidate found that way is loaded as it is now.
- Consolidation picks what to retire before the transaction that retires it; pruning counts
  the age of observations, not the time since their tombstone (both data the model leaves open).
- Supersession reads, writes and retires in separate commits; one that is in
  flight while its entity is forgotten creates the entity again (not modelled).

A profile:

- `add_relation` from or to a stub's id, and forgetting by one, touch one side of an edge: the latter
  deletes that stub and the other stubs, and leaves the canonical row and its edges. Both are
  actions of the model (`AddRelation`, `ForgetEntity`). A forget between the mirror and the home commit of
  a remember leaves an edge to a stub alone. `EdgesBothSides` excepts all these (`torn`, `raced`).
- `add_relation` takes the id of any row and passes the domain it found it in to
  `remember_batch_in_domain` (`partition.rs:661-690`), whose doc says "Every request's entity must
  hash to `domain`" (`partition.rs:518`). A forget whose sweep failed, or is running, leaves a stub of
  an entity without canonical row. A relation from that stub to an entity of the home domain
  mirrors a stub there, which a later remember takes as it is: its observation is on
  a stub, though stubs "carry no observations" and listings skip them (`partition.rs:36-38`),
  and a migration gives up on the profile. If the sweep comes first, the batch makes a canonical row
  away from home, which no lookup by name finds. The model does both; `CanonicalAtHome` and `EdgesBothSides` except
  just the entities written so (`strayed`), and without the exception (`Astray` empty) the run
  `domain_migration` violates `CanonicalAtHome`. Looking up the home by the entity's name would close it.
- An edge written from a stub's id starts at a stub in the only store that has it; a migration takes it for a mirror
  and drops it. `MigrationPreserves` is about edges that start at a canonical row.
- A canonical row that strayed is passed over by the sweep of a later forget, which deletes stubs
  only (hence `strayed` in `EdgesBothSides`).
- A facade call that fails after its first commit returns without bumping the
  version, so a cached recall may be stale until it expires; only acknowledged writes are
  in `RecallCurrent`.
- A canonical edge to a stub whose entity has no row stops the migration; the
  comment says that the stub "is promoted to a canonical entity" (`migrate.rs:396-399`).
- Pending outbox items, repair marks and the audit log stay in the backup: the new layout starts without (not modelled).
- The message that refuses an interrupted profile advises to re-run
  `migrate-domains` (`partition.rs:252-258`), which refuses as well while the sentinel exists.
- After a migration the catalog row still has the old number of domains, and the daemon
  refuses the profile, although the command is the documented way to change it
  (`docs/configuration.md:159`; the catalog's domain number is not modelled).
- `status` subtracts unsigned counts of stubs read after the totals (`partition.rs:860-899`); a
  concurrent write can make it underflow (not modelled).

The daemon:

- `.space-id` is created and then written; a crash between leaves an empty file that
  every later start rejects, whereas "a restart after any durable boundary
  reuses the same UUID" (`space_manifest.rs:304-306`).
- The personal space of every profile has the same root key, which is UNIQUE
  (`product_store/schema.rs:104`), and is looked up without its profile: one profile per
  home can be bound. The model has one profile.
- Binding opens and checkpoints the store without a space lock, and a restore takes none either;
  `replace_existing` is checked before the copy, and whatever is there at the rename is parked.
- A crash or a failing fsync between a restore's two renames leaves the target without a
  profile; it is in `.restore-previous-*`, which `RestoreKeeps` asks for.
- `acquire` may answer Busy because of a runtime that a thread of the same process has yet to drop.
- A resident runtime is leased without looking at its catalog row again; an eviction
  candidate that cannot be flushed blocks every acquire that needs room.
- A managed space whose creation stops between row and activation stays "creating".
- Jobs that were queued or running when the daemon stopped are loaded so and stay so.
- The event stream replays before it subscribes (`lib.rs:1529-1531`): an event in between
  is missed; sequence numbers of events that could not be stored are
  given out again after a restart (streams are not modelled).
- A backup copies files although a checkpoint was incomplete (not modelled).

## 4. Proofs

Each theorem holds for every value of the constants: any number of shards, stores,
threads, processes, observations, jobs and workloads, any bound, any failure the
model has. In each part one inductive invariant is proved by a lemma per action,
and the properties the runs check follow from it. TLC has checked each of these
invariants on the instance of the part's run before it was proved. `Init` and the
step are non-temporal lemmas; one `PTL` step per theorem joins them.

**Assumptions** are the named `ASSUME`s of the modules and no others: counts are
natural numbers and domains divide shards, as `start_partitioned` checks
(`CountsAssumption`, `ShardsAssumption`); markers such as `Nobody`, `NoKey`,
`NoText`, `None`, `Nothing` and `NoDir` are not values of what they stand beside
(`NobodyAssumption`, `KeyAssumption`, `TextAssumption`, `RowAssumption`,
`UpdateAssumption`, `DirAssumption`, `EntityAssumption`); a store has room for one
domain at least (`RegistryAssumption`); every entity has a home in every layout
(`HomeAssumption`); a workload names only modes, observations and layouts there are
(`MixesAssumption`, `MixAssumption`). TLC evaluates all of them.

**The bus** (`ContextEngineProofs`).

- `TypeCorrect`: `TypeOK` together with `DrainHoldsWork`, that a drain past its swap has
  requests left; without it the head of an empty sequence would be read. The
  laborious parts are the operators of replay (`HighestSeqType`: the
  largest sequence number of a file exists, from the well-ordering of the naturals) and the
  leftovers of a power loss.
- `CheckpointCorrect`: the inductive invariant `CheckpointInv`. `WatermarkBacked`
  alone is not inductive: what a drain is about to publish (`PublishBacked`) and what
  a replay will publish (`ReplayBacked`) must be committed as well; the marks of a
  maintenance pass are (`MarksBacked`), and as its stores are checkpointed one by one every
  state each may come back in reaches the marks and stays there
  (`CheckpointCovers`), since checkpoints never go back and a state committed
  meanwhile contains them (`StoreGrows`, the lemma about `CommitTo`).
- `WatermarkSafe`: `Spec => []WatermarkBacked`, from it.
- `EraseSafe`: `Spec => ErasedOnlyIfCovered`, from it, case by case over what may shorten
  a journal: only `MaintTruncate` does, a failed start having nothing buffered (`BufferedOnlyUp`).

**Single writes on the bus** (`BusProofs`). The checkpoint counts numbers; these theorems
are about the requests that carry them.

- `LineCorrect`: the line of a shard, what is drained and then what is queued, has
  increasing numbers, all issued and none published (`LineInv`). A gate that is held has
  everything issued durable, and what is in line would not be: `QuietHolds`
  (`QuietWhileHeld`), in every environment.
- `AheadCorrect`: what is in line is above the checkpoint, or was committed by a transaction
  that failed after its commit (`AheadInv`). `NothingIsSkipped` (`NothingSkipped`) therefore
  excludes `postcommit`: such a transaction moves the checkpoint over a batch that is then retried.
- `PassesAreAlone` and `ReclaimCorrect`: the maintenance passes of a start and of a
  shutdown run with no drain, and a complete one has nothing left to lose and no journal left.
  Hence `ShutdownIsClean` (`CleanShutdown`), under `PassesEnd`: no pass is aborted
  (`ckpterror`) and no truncation fails (`setlen`), since then a pass leaves journals behind.
- `OwedCorrect`: a record above the checkpoint, in the file or buffered, belongs to a write in line
  (`OwedInv`), in every environment: what a truncation erases or a tear makes unreadable is
  what the engine still has to write.
- `JournalCorrect`: conversely, what is in line has a readable record
  (`JournalInv`). This holds where records end up alone on their lines: either no
  write tears a line (`WholeWrites`: no `torn`, `mangled`, `midline`), or a start reclaims the journals
  before anything is appended to them (`FullPasses`: no `busy`, `ckpterror`, `setlen`). Without
  either a record can be appended to a torn line and be lost (finding 3, `TornTailMerge`).
- `WritesAreKept` (`KeptUntilOutcome`), from all of these: a write in the store stays there, one in line
  stays in line until it is committed or rejected or its journal is all that is left, and
  one in the journal only is replayed. `FailingStore`, which fails passes, satisfies
  the first hypothesis; `CrashReplay`, which tears lines, the second.
- `DurableIsForGood` (`DurableSurvives`), under the same hypotheses and in every environment
  otherwise. `SyncCorrect` proves its invariant (`SyncInv`) about the synced part of a
  journal and about every state a store may come back in, not only the committed one: none is ahead of the checkpoint,
  none passes a write in line that it does not hold, and a batch is in the
  synced part of its journal before it is committed. What is owed to a caller is then in line, rejected, or
  backed in each of these states by the write itself or by a synced record above its checkpoint
  (`Outcome`, `Secure`), which neither a truncation, a lost commit nor a replay takes away.
- `OnceForAll` (`AppliedOnce`), from `OnceCorrect`. Its invariant (`OnceInv`) says that a request has one
  entry in line and one record in the journal at most, and if both then of the same number (`Placed`), and that a state
  of a store that counts a request counts it once, has it in no line, and is past any record that remains of it
  (`Settled`). It excludes `postcommit`: a transaction that fails after its commit leaves what it
  stored in line, and the retry applies it again (finding 2).
- `RefusedForGood` (`RejectedStaysOut`), under the same hypothesis: a ticket is of a write in line, of one
  rejected, which is settled without being applied, or of one below the checkpoint that was not rejected
  (`RejectInv`). The property ends with a power loss, which may take back the
  commit that moved the checkpoint over the rejected write.

**The refinement** (`RefinementProofs`). `EngineIsBus` proves `ImplementsBus`: the initial state
of the engine is one of the bus (`InitIsBus`), and every step is an `Accept`, `Store`, `Refuse`, `Crash` or
`Answer` of the bus, or changes nothing it can see (`StepIsBus`).

- What is pending of a shard (`PendingBar`) is read from the journal while no engine has finished
  its replay, from the line once one has. A start changes from one to the other, and must
  show the bus the same entries: `JournalCorrect`, `OwedCorrect` and `OnceCorrect` together say that it does.
- `Crash` may take only the newest entries of a shard. The end of a process takes what
  is still in a writer's buffer, and that this is the newest needs journals sorted by number, every record readable
  (`SortedInv`).
- What a drain commits in one transaction is the oldest part of what is pending, and what it rejects the
  oldest entry, since lines are increasing and above the checkpoint (`LineInv`, `AheadInv`):
  a `Store` or a `Refuse` (`TakesStores`, `TakenIsStored`, `TakenIsRefused`).
- The bus numbers writes up to the count of requests. The engine does as well (`Bounded`), although a
  restart counts on from what it finds: every number found is one that was given to an accepted write.
- A write gets one answer: callers wait for different writes, and for none that has an answer
  (`Callers`).

Its hypotheses: no power loss, which may take back a stored write; no `postcommit` (finding 2); and
`WholeWrites` or `FullPasses` as above (finding 3). The `ImplementsBus` run satisfies them all.

**One store** (`ChangeSetProofs`). `AuditKept` proves `AuditInv /\ IndexInv`, from which come
`StoreTypeCorrect`, `RevisionsAreLineage` (`Lineage`), `GenerationsAccounted` (`Accounted`),
`KeysRecordedOnce` (`OncePerKey`), `PendingIsReported` (`OutboxHonest`), `SettledIsIndexed`
(`IndexComplete`), `RecallFindsSettled` (`RecallSound`) and the action properties
`NoUpdateIsLost` (`NoLostUpdate`) and `DestroyedAsPreviewed` (`DestroyOnlyAsPreviewed`).

- `AuditInv`. `Lineage` needs that revisions are dated in order and that a row is never
  absent again or back from being gone (`LogInv`). `NoLostUpdate` compares texts, while
  the code compares versions, so every row a draft, a proposal or a preview holds must be the
  present one or have an older version (`Seen`, in `DraftInv`). A remember checks no version: that its row is
  still absent when a draft or a review commits it is `ClaimInv`, one draft or proposal
  at most creates an observation. An approval checks no confirmation: proposals
  destroy nothing (`Gentle`). What is pending of an observation includes its newest item
  (`OutboxInv`), since a mark takes a batch that was pending together.
- `IndexInv`. A repair works on what it read: its batch was everything pending, so what
  is pending and not in it is newer, and the row it has loaded for the newest item is the row
  as it is (`BatchInv`). The barrier belongs to a thread from its publication to its mark, and a remember's
  row does not change under it (`BarrierInv`). An active observation is in the index, or has a pending
  item that nobody is about to mark (`FreshInv`); this is what `IndexComplete` needs
  between a publication and a mark. What a recall owes had nothing pending at its gate and has not since unless it
  changed (`OwedInv`).
- Every commit, whether submitted, approved or remembered, goes through `CommitKeeps`, and the index
  side of any step through `Moves`: an observation is as it was, or has a new newest item, or
  got its baseline.

**A profile** (`DomainProofs`, `RecallProofs`, `EdgeProofs`).

- `LayoutKept`: the stores are the domains, with every fact and edge where names hash
  to and every row of an entity that has not strayed (`Partitioned` in `BaseInv`, which also says what a call has in
  hand at each step). A batch in another domain than its entity's home carries no fact
  and was begun by a stub's id; what it commits keeps the rows in place unless the step is
  one of `Astray`, so facts need no exception, and rows only this one. And each step of a migration has
  its files (`MigrationInv`). Hence `DomainsTyped`, `LookupsFindTheirDomain`
  (`CanonicalAtHome`), `LayoutIsRecoverable` (`LayoutRecoverable`) and
  `MigrationsPreserve` (`MigrationPreserves`), the last because a migration commits what it routed
  from the very stores it replaces.
- `RecallsKept`: a fact is in one request, or stored, or gone, never two of them
  (`FactInv`); a cache entry of the present version has all that was acknowledged
  (`CacheInv`), as every acknowledgement follows a bump; a running recall has what
  was acknowledged before it in the domains it has been to (`Recalled`). Hence
  `RecallsAreCurrent` (`RecallCurrent`).
- `EdgesKept`: an edge with one side has its excuse, a pending request or a sweep that has
  not arrived (`SidesInv`), because mirrors are written first (`MirrorInv`) and a
  swept entity is gone from the domains behind the sweep (`SweepInv`). Both are said of calls that
  began at home; the others have torn their edges when they began (`TornInv`). Hence
  `EdgesHaveBothSides` (`EdgesBothSides`).

**The daemon** (`DaemonProofs`).

- `SpacesCorrect`: what each call knows at each step (`CallInv`), that one thread writes
  `.space-id` and nothing else names the space before (`WriterInv`), and that the
  places agree (`PlacesInv`), for the catalog; for the registry the parts of
  `LeasesHonoured` with that maintenance of a space is one thread of a process
  (`SoleMaintainer`) and that what is counted is finite (`Counted`), over lemmas that count
  leases and domains. Hence `TypeCorrect`, `IdentityIsOne` (`OneIdentity`) and
  `LeasesAreHonoured` (`LeasesHonoured`).
- `JobsCorrect`: sequence numbers are above the durable ones (`SequenceInv`), nothing durable is ahead of its
  worker (`ProgressInv`), and an update has left behind it what its stage says
  (`StageInv`). Hence `HealthIsHonest` (`HealthHonest`). `RestoresKeep` (`RestoreKeeps`)
  needs only that a restore that has renamed nothing has parked nothing (`RestoreInv`).

Only model-checked: the liveness properties, fairness and ENABLED being out of the
prover's reach. Every invariant, every action property and the refinement that a passing run checks is a
theorem, some under hypotheses named above on what may fail, which hold in runs that check it.

## 5. Plan

What could still be modelled is under "Not modelled". Every safety property that a passing run
checks is proved. A weaker bus, in which a power loss takes back stored writes that nobody was
told are durable, would let the refinement hold in that environment too.

### Not modelled

- **Supersession** (`openmemory-mcp/src/tools/supersede.rs`): four commits of
  operations that are in `DomainStore` and `ChangeSets`, not atomic by design; its reply says how far it got.
- **The merge planner** (`openmemory-merge`): pure functions of two snapshots, called by no other
  crate yet; a reference definition would repeat the rules.
- **The watcher**: one thread of one command, whose order of effects is the order of its events.
- **A backup's file copy, event streams, grants, teams and projects**: the first needs a model of
  pages rather than transactions, the second loses events by design of its order (above), the others are rows without a protocol.
- **Name resolution, scoring, ranking, embedding, text normalisation, vector formats**: numerical or textual.
- **HTTP and MCP framing, command line, configuration, schema migrations, administration,
  evaluation and benchmarks**: parsing, output, measurement, or one transaction each. They are more than
  half of the code, and the reason why the share of mapped lines stays low.
