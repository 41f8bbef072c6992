# Verification of the Chameleon PII ingestor

The PII ingestor is the data plane of Project Chameleon. It finds personal data in a
customer's warehouse and files, encrypts it per user with a key that Key Vault
holds, and writes ciphertext, so that destroying a key erases a user everywhere.
This directory holds TLA+ models of the parts of it that are concurrent,
restartable and retried, TLC configurations that check them on small instances,
and proofs, checked by TLAPS, that hold for every value of the constants.

## 1. Inventory

### Components, their state and their operations

| Component (code) | State it keeps | Operations | Talks to |
|---|---|---|---|
| Sync trigger and enumeration (`scanners/pii_vault_sync.py` 134-276, `api/discovery.py` 107-184) | none between requests; within one: snapshot of the registry, watermark, start time, page position, counters | `POST /pii-vault-sync`, `sync_all`, `sync_one`, `enumerate_resource`, `_publish_chunk` | Key Vault (registry, sync_runs, timestamps), BigQuery (user ids), Pub/Sub (chunks) |
| Chunk worker (`scanners/pii_vault_sync.py` 278-436, `api/discovery.py` 187-221) | none between requests | `POST /pii-vault-sync-chunk`, `process_chunk`, `_sync_chunk` | Pub/Sub push, Key Vault, source table, `pii_vault`, encrypted copy |
| Encrypted copy writer (`scanners/encrypted_copy_writer.py`) | none | `append` | BigQuery |
| Streaming insert (`services/bigquery_streaming_insert.py`) | none | `insert_with_retry` | BigQuery |
| Vault client (`services/vault_client.py`) | context cache per instance, queue of lineage reports | keys, contexts, lineage, registry, sync runs, shred, rotate, certificates | Key Vault, KMS |
| Landing-zone monitor (`services/gcs_monitor.py`, `main.py` 77-87) | none between polls; the bucket itself | `run_monitor`, `poll_once` | Cloud Storage, ingestion pipeline |
| Ingestion pipeline (`pipelines/ingestion.py`) | thread pool; temporary files | `process_file`, `_resolve_registry_resource`, `process_row`, `_publish_lineage`, `_cleanup` | Vault client, Pub/Sub (PII and lineage topics), Cloud Storage |
| Customer Pub/Sub ingest (`pipelines/pubsub_ingest.py`, `pubsub_ingest_main.py`) | one Vault client, and so one context cache, per instance | token check, `resolve_resource`, `authorize_caller`, `process_message` | Pub/Sub push, Key Vault, `pii_vault` |
| Warehouse ingest (`main.py` 107-147, BigQuery and Snowflake writers) | one Snowflake connection | `POST /ingest`, `load_records` | Pub/Sub push, warehouse |
| Sequential ingestor (`services/ingestor.py`) | none | `POST /ingest` of that service | Key Vault, warehouse |
| Registry model (`policies/pii_registry.py`) | immutable | `from_dict`, `from_api_response`, `get` | - |
| Metadata crawler, dbt publisher (`scanners/`, `api/discovery.py` 23-93), ghost scanner, dbt policy | one pass each: a snapshot of the registry, what was read so far | `POST /warehouse-crawl`, `POST /publish-dbt-pii-discovery`, `scan`, `validate_manifest` | BigQuery, Key Vault (registry, lineage) |
| Source staleness, version | none | read-only routes | GitHub |
| Cryptography, signatures, configuration, client wrappers, scripts, load tests | none | - | - |

Everything the instances share lives outside the process: Key Vault's registry,
keys and sync_runs; Pub/Sub; BigQuery tables; the bucket. There are no locks and
no transactions across calls, Cloud Run starts and stops instances at will, and
Pub/Sub delivers at least once. That is where the hard behaviour is.

### What makes each component correct

* *Enumeration*: a watermark or an attempt time never passes a value that is neither
  in `pii_vault` nor on its way (with overlapping runs, failed publishes, writes
  under the scan, a withdrawn resource, an instance dying).
* *Worker*: redelivery, duplicate delivery, half-failed inserts and crashes add a
  bounded number of duplicates; what was enumerated ends up in `pii_vault`; the topic
  drains but for chunks that no answer can end; the progress bar runs ahead only by what a
  failure hid or repeated; a user is given up only on stated grounds.
* *Encrypted copy*: never ahead of `pii_vault`; complete; ciphertext only.
* *Landing zone*: no file leaves `inbound/` unless it was published or set aside in
  `failed/`; republishing is bounded; every file leaves `inbound/` in the end.
* *Vault client*: a cached context belongs to a key that was issued, and an instance without
  the context of a shredded user never gets it (one that has it goes on using it).
* *Push endpoints*: nothing is acknowledged that is not stored; extra copies are paid for by
  failures; a revoked declaration is written under a bounded number of times; a row
  is never there before its key; the subscriptions drain.
* *Discovery passes*: what is left alone during a pass is reported exactly, what changes is
  reported as it was at some moment of the pass, and one failing query costs no more than it must.

`PROJECT.json` lists under `hazards` the line where each of these can go wrong.

## 2. Modules

| Module | Models |
|---|---|
| `SyncState` | constants with their assumption, variables, record types shared by the two halves of the sync |
| `SyncEnumeration` | the trigger: `Trigger`, `FetchRegistry`, `StartResource`, `Query`, `PublishChunk`, `MarkSynced`, `MarkAttempted`, `Finalize`, and a failing form of each |
| `ChunkWorker` | the chunk request: `Deliver`, `ReadRegistry`, `ReadSource`, `ReadExisting`, `CreateKeys`, `FetchContexts`, `UnwrapContexts`, `UnwrapRaises`, `InsertRecords`, `AppendCopy`, the report and the answer, and their failing forms |
| `PiiVaultSync` | their composition with the outside world (clock, customer writes and deletes, registry changes, shredding), the specification, the properties, the refinement of `SyncPromise` |
| `MCPiiVaultSync` | instances for TLC |
| `PiiVaultSync_proofs` | type correctness |
| `DuplicateBound_proofs` | the bound on duplicates, the natural key without concurrency, and whose rows are not written: of a shredded user who is forgotten, of a user who is given up |
| `SyncPromise` | abstract specification: a recorded time accounts for all that is older, and a due value stays due until it is settled |
| `SyncCoverage_proofs` | watermark and attempt times, the refinement of `SyncPromise`, the encrypted copy, the progress count |
| `LandingZone`, `MCLandingZone` | monitor and `process_file` on a shared bucket |
| `LandingZone_proofs` | types, no file lost, and the bounds on republished rows and plaintext copies |
| `AtLeastOnce` | abstract specification: a message leaves the subscription only when what it obliges to is stored |
| `PushDelivery` | constants, variables and delivery shared by the three push endpoints: `Deliver`, `Answer`, `AnswerLost`, `InstanceDies` |
| `VaultContexts` | key creation and `get_encryption_context` with its cache, in two steps |
| `CustomerIngest` | the customer's endpoint from the token to `insert_with_retry`, attempt by attempt |
| `WarehouseIngest` | the two `/ingest` endpoints that append to raw_users |
| `PushIngest`, `MCPushIngest` | their composition with changing declarations and keys, the properties, the refinement of `AtLeastOnce` |
| `PushIngest_proofs` | types of the push endpoints, keys before rows, and that shredding sticks |
| `PushPromise_proofs` | the refinement of `AtLeastOnce` |
| `PushCopies_proofs` | the bounds on copies and on writes under a withdrawn declaration |
| `DiscoveryState` | registry, tables and dbt findings that change, and the history the properties need |
| `WarehouseCrawl`, `GhostScan`, `DbtDiscovery`, `DbtPolicy` | one pass each |
| `Discovery`, `MCDiscovery` | their composition and the properties |
| `Discovery_proofs` | types, and that each pass reports what was there |

### How state and actions correspond to the sync code

One action per remote call: between two calls of a request any other request, run
or customer may act, as they may between two `await`s or threads of the service.

* `registry[q]` is Key Vault's declaration: `declared`, `encrypt` (columns with
  handling ENCRYPT), `syncedAt` (lastSyncedAt) and `attemptedAt`. `run[r].since` is the
  snapshot `sync_all` works on. `Enumerable` is the chain of early returns of
  `sync_one` and `enumerate_resource`.
* `run[r].start` is `job_start_time`, `todo` the rows of the query not yet published.
  `PublishChunk` takes any `ChunkSize` rows (the query has no ORDER BY), and a user
  with several rows may be in several chunks, as in the code.
* `PublishFails` is `future.result()` raising: the message may be out or not, the
  exception leaves `enumerate_resource`, neither timestamp moves, and the total of the
  run does not count what was published.
* `worker[w]` holds the locals of `_sync_chunk`: `fields`, `rows` with their `cells` as read,
  `missing` (the diff against `pii_vault`), `ready` (users with an encryption context).
* `batch_get_encryption_contexts` is two steps. `FetchContexts` looks in the cache and takes the answer of the POST, which
  leaves out users without a key and may leave out shredded ones. `UnwrapContexts` unwraps and caches what was answered; users
  without a context are skipped, the chunk is still acknowledged, and the history variable `dropped`
  remembers them. If the answer holds a shredded user, unwrapping raises for the whole chunk (phase `refused`, `UnwrapRaises`). Then, as
  after a failure of KMS (`CallFails`), the contexts unwrapped before it stay in the cache.
* `vault[k]` counts the `pii_vault` rows of a natural key; ciphertext is abstract.
  tenant_id is constant in a deployment and left out of the key.
* `copy` holds the wide rows: which columns were replaced by ciphertext and which
  stayed as read.
* `ReportCompletedFails` ends in "no answer": the except branch of
  `record_sync_chunk_outcome` refers to an undefined name.
* Key Vault, Pub/Sub, Cloud Run, BigQuery and the customer are external and modelled from the
  way this code calls them. Inserted rows are visible to the next query at once.

`faults` counts failures of the kinds in `Possible`; each kind can be switched on per
run, so that a run says exactly which failures its properties survive. Besides the count of all failures it tallies
three groups that a property accounts for: `uncounted` (a failed publish or query, after which a result reports fewer chunks
than are out), `repeated` (a crash, a duplicate or a lost report) and `omitted` (Key Vault left out a user with a key).

### How LandingZone corresponds to the code

`inbound` and `failed` map a name to the upload (object generation) it holds.
`monitor[i]` is `poll_once` of one instance: the listing it works through, the blob of the loop,
and the locals of `process_file`. `Take` has the fallback of `_resolve_registry_resource`, `ColumnsRead`
the temporary file that is always called `.csv`, `ProcessRows` the rows that `process_row`
skips, `PublishFails` the records that get through although the wait raised. `Delete` is for
the listed generation, as google-cloud-storage sends it for a blob that came from a listing;
the download and the copy of `rename_blob` go by name. An exception of `rename_blob` is outside the
try, so it ends the poll (`Escapes`). `reports` is the queue of the Vault client's executor.
An instance may die at work or asleep (`InstanceDies`), and its temporary files and queued reports go with it.
An unreadable file, a file without the required columns and a failed call differ in
whether `_cleanup` ran. The CSV contents, record encoding and Pub/Sub lineage other than
DATA_READ are left out.

### How PushIngest corresponds to the code

`waiting` holds the messages that are not acknowledged; `Backlogs` says what may be on the
subscriptions when a behaviour starts. `request[r]` is an open push request, and its phase the
next remote call: `received` (token), `declaration` (`resolve_resource`), `keys`
(`batch_create_keys`), `context` (the GET), `unwrap` (KMS), `store` (insert or load), `answer`. The
decisions taken on the result of a call belong to the action of the call. `Refuses` is every answer
but 2xx, after which the message is delivered again; `Accepts` every 2xx.

* `registry` is read in `RejectCaller`, `IgnoreMessage` and `AcceptMessage` and never again; `fields` is
  `field_values`. `Stands` compares the declaration at the insert with it, and `late` (history)
  counts the inserts that were under a declaration which no longer held.
* `cache[i]` is `VaultClient._context_cache` of an instance, with the key version it holds. It has
  no eviction. The GET and the write of the cache are separate steps, since the lock is not held between
  them. The sequential ingestor builds a client per request, so that its cache is always empty (`Caching`).
* `vault` and `raw` count the rows that were made from a message and are the point of comparison of
  `CopiesBounded`: a message stands for its content, so two messages with one content are two.
* `Malformed` messages cannot be decoded (for the sequential ingestor this includes a missing
  tenant); a user id that is not found is `NoUser`. Both are 200 at the customer's endpoint.
* The sequential ingestor's handler calls blocking clients from an `async def`, so one of its
  processes serves one request at a time; the model also interleaves them, which covers several processes.

### How Discovery corresponds to the code

`registry`, `tables` and `built` change through `Redeclare`, `Alter` and `Build` between any two
queries of a pass. `crawl[c]`, `scan[s]`, `publish[p]` and `check[k]` are the locals of the passes; each query
is an action. `found` of a crawl is a set whose entries carry the `turn` of their dataset in the list, so that a dataset
that is configured twice is reported twice, as by the list in the code. `ScanRaises` leaves in `todo` the tables that an aborted scan
did not get to. `disturbed`, `seen` and `held` are history: what changed since a pass began. A pass reads
the registry once. `Schedules` says which passes run in one behaviour; they do not interact, so
the run gives each its own. Strings are represented by the pattern that they match (`Cell`), nested values
by the sequence of their leaves. The dbt policy goes by declarations of type bigquery_table only (`table` of a
`Declaration`). The order of Key Vault's registry answer is not known, so `Verdicts`
admits the verdict of each resource that a model may go by, chosen anew for each model: more than one order could give.
`byResource` is a set, although a column that two locations report is listed twice in the event.

## 3. Runs

| Run | Question | Instance |
|---|---|---|
| `sync_concurrent` | does one failure anywhere break coverage, withdraw a pledge, give a user up, break the duplicate bound or the order of the two writes, or move the progress bar further than it accounts for? | 1 run, 2 users in 2 chunks, 2 concurrent requests, 1 failure of any of 11 kinds |
| `sync_overlap` | do overlapping runs and customer writes move a timestamp past a value? | 2 runs, 1 request, writes and deletes, failed publishes and marks |
| `sync_changes` | does a changing registry, or shredding, break coverage or progress, or give up a user for another reason? | 1 run, 2 users in one chunk, 1 request; a resource withdrawn and declared again, a column added, users shredded or left out |
| `sync_live` | does everything selected reach `pii_vault`, also beside a chunk that fails for ever, and does a context of a shredded user stay gone? | 1 run, 2 users in 2 chunks, either may be shredded, 1 request slot, 1 failure of any of 5 kinds |
| `landing_zone` | is a file lost, republished without bound, or stuck? | 2 instances, a file replaced by another of its name, 3 rows, 1 failure of any of 9 kinds |
| `push_ingest` | do the push endpoints keep what they promise to Pub/Sub, to the registry and to Key Vault? | 4 backlogs of two or three messages, a good and a malformed one for each endpoint; 2 requests on 1 instance, 1 user, 3 fields, 1 change of declaration, 2 key versions, 2 failures of any of 6 kinds |
| `discovery` | is what a pass reports true although everything changes under it? | 4 resources in 2 datasets (one resource excluded, one a dataset itself, one of another type), one dataset listed twice, 2 rows, 3 models, 3 changes at any moment, 1 failed query |

and the runs that show a disagreement (each finds its one property violated):

| Run | What the code says and does |
|---|---|
| `sync_report` | progress reporting "never raises": it raises NameError, and a finished chunk is redelivered |
| `sync_copy_plaintext` | columns synced earlier stay in plaintext in a later wide row |
| `sync_copy_backfill` | "the next sync run picks up the backfill": it finds nothing missing |
| `landing_sink` | the fallback for a failed lineage report cannot run |
| `push_shredded` | a message that can never be processed "must never be allowed to loop": one for a shredded user is answered 500, and loops |

### Bounds, and why they are enough

The hazards are pairwise: two requests on one chunk, two runs on one resource, one
failure between two steps of one request, a second upload of one name. Two of each
actor and one failure make all of them happen: the mutants in
`PROJECT.json`, one or more for each property of each run, break each property within the same bounds.
Two users in chunks of one give two messages of one run in flight; `ChunkSize`, `MaxTime`, `MaxFaults` and
`MaxReports` are the named bounds of the sync and the landing zone. In `push_ingest` two failures are needed
to use up `MaxAttempts` = 2 (5 in the code) and to duplicate and then lose an answer; one request serves all endpoints and the other
the customer's only, since the other two share no state between requests but what `WarehouseIngest` counts; two versions let a rotation
fall between the GET and the write of the cache. In `discovery` three changes can bring a table back to what it was. `MaxChanges`, `MaxVersion`,
`MaxAttempts` and `MaxFaults` are the named bounds. `sync_concurrent` was also run with two failures (4.8 million
states) without a violation. The proofs remove the bounds for what they cover.
`UpdatedAfter` (> for >= in the query) is found by `sync_overlap` only because a row may be written at the very time of a watermark.

Symmetry is used only in runs without liveness.

### What the properties assume

* `WatermarkCovers` speaks of columns declared from the start: a column declared later is
  by design not picked up by an incremental run. It counts users that Key Vault left out
  as given up. It is checked with `StampLag = 0`, a row is stamped with its commit time: with
  a lag, a row committed after the scan with an earlier updated_at is never selected, in contrast
  to the comment at `pii_vault_sync.py` 192-195.
* `GivesUpOnly` says what `WatermarkCovers` accepts as given up: a user of a withdrawn resource, one whose key is
  shredded, or one that Key Vault left out of its answer though the key is there. The last is silent in the code too: the chunk
  is acknowledged and an incremental run does not select the user again.
* `ProgressBounded` accounts for what the counters of a sync run cannot tell, since they do not identify chunks. What is counted as
  completed and what is not processed yet are together at most the reported total, plus the rows of a resource for
  each failed publish or query, whose chunks `finalize` does not learn of, plus the requests for each crash, duplicate delivery or lost
  report. So the bar is right if none of these happens, whatever else fails: failed inserts, calls and copies, redelivery after a 500,
  withdrawn resources and shredded users do not move it. Each of the five, by itself, can show a run as finished too early.
* `TopicDrains` and `EnumeratedIsSynced` except chunks with a shredded user, which are delivered for ever: `_unwrap_context` raises
  for the whole chunk and no code path ends it. They ask that such a chunk keeps no other from its end.
* `ShreddingHolds` is to the sync what `ShreddingSticks` is to the push endpoints: a warm instance goes on writing rows for a shredded
  user, but once no instance and no request has the context, none gets it again.
* `NothingLost` has three parts. `FilesKept`: a file leaves `inbound/` ingested, copied to `failed/` or replaced by the
  customer. `FailedKept`: what was copied to `failed/` gives way only to another failed file of its name (the copy overwrites, and the
  older one is gone then). `RowsKept`: a row that has all its protected values is skipped by `process_row` only after a
  failure, which the code does not tell from a bad row.
* `LeaksBounded` bounds the temporary plaintext that stays in `/tmp` when a Key Vault or
  Pub/Sub call fails; the code does not remove it
  (`tests/unit/test_ingestion_resilience.py` 53 says it does "even if ingestion fails").

* `LateWritesBounded` bounds what the code allows: each change of a declaration can be followed by
  one write of each request in flight.
* `ShreddingSticks` is what holds of a cache without invalidation. Its converse, that no value is encrypted
  for a shredded user, does not hold: a warm instance goes on for its whole life.
* `KeyBeforeRow` does not ask that a cached version is the newest: two requests around a rotation can cache the
  older one last, and it stays.
* `GhostRight` asks completeness of the tables that a scan got to and read whole, also when a later query ends the scan, and of each
  cell whose patterns are all enabled; of a cell that mixes patterns it asks for one of them, as the code reports the first match.
  A pattern that is not enabled may hide an enabled one in the same cell.
* `PolicyRight` accepts the verdict of any declaration that a model may go by: which one counts is the order of Key Vault's
  answer.
* The dbt publisher reports a column as UNREGISTERED that was declared after the dbt build; it does not
  read the registry, and `PublishRight` asks only what it can know.
* Landing files ending in `.json` are accepted, downloaded under a `.csv` name and always rejected (`ColumnsRead`);
  no run is about it, since it depends on no interleaving.

### Refinement

`Promise == INSTANCE SyncPromise` in `PiiVaultSync` maps a row's value to its stamp (`Written`), to `Stored` if
`pii_vault` has its key, to `Forgone` if its user is in `dropped`, and to `Due` if a message is on the topic that no
request can acknowledge any more without having seen to the value (`Attends`: a request that has read the table before the
value was there does not). That a message names the user is not enough to be due, and that is what `Covered` of
`WatermarkCovers` asks; so `KeepsPledges` says more: what is due once, stays due, and full scans, whose
values no watermark guards, are included.

`Promise == INSTANCE AtLeastOnce` in `PushIngest` maps the stored values of all three endpoints to one set and each
message to what it obliges to: the record, or the fields that every possible declaration of its resource
encrypts. `KeepsPromise` checks that each step of the endpoints, with all failures, is a `Store`, an
`Acknowledge` or a stutter. The abstract specification says nothing about copies, which is why
`CopiesBounded` stands beside it.

### Fairness

`FairSpec` of the sync assumes that a request that has started goes on (`RunStep`,
`WorkerStep`: Cloud Run runs a request to its end unless the instance dies, which is a
failure of the model), and that Pub/Sub keeps pushing each unacknowledged message
that no request holds (`Pushed`). This is strong fairness, per message: a chunk that fails for ever takes the request slot again and
again, so no other message is pushable without interruption, and weak fairness would allow that it alone is pushed. Pub/Sub schedules the redelivery of each
message by itself, and a message that keeps failing does not hold back the others. Messages are named by run and
number, of which there are no more than rows. No failure, no shredding and no trigger is assumed to happen.
`sync_live` leaves out the failures of the run itself, which only a new trigger repairs.
`FairSpec` of the push endpoints asks less: requests go on, Pub/Sub keeps pushing some waiting message (weak fairness), and neither a failure nor a change of
keys or declarations is fair. `Drains` promises an empty subscription only if, from some time on, everything that still waits is
`Deliverable`: its declaration admits it and its user is not shredded, and, for the sequential ingestor, which never
makes a key, some other path has made one.
`FairSpec` of the landing zone assumes that `run_monitor` keeps looping; uploads, lineage reports
and failures are not fair.

## 4. Proofs

For any finite sets of rows and requests, and any number of runs, resources, users,
instances and failures:

* `TypeCorrect` (`PiiVaultSync_proofs`): `Spec => []TypeOK`. The types alone are not
  inductive: a message is built from `run[r].current`, which may be "no resource", and a request
  reads its message. `Consistent` adds that a run in the middle of a resource has one
  (`RunsConsistent`) and that a busy request holds a message and has read only that message's table
  (`RequestConsistent`). The proof has one lemma per group of actions and one step per action.
* `PendingCorrect`, `DuplicatesCorrect` (`DuplicateBound_proofs`): a key of `pii_vault` gets at most
  one row for each concurrent request and source row. The bound on rows is not inductive; the
  strengthening `PendingBounded` adds what the requests that have found the key missing, and have not
  inserted it, may still add. A request becomes pending only by reading that the key has no rows,
  when the count is 0 and all requests together cannot exceed the bound; an insert turns one pending
  request into at most one row per source row of the user; every other step leaves the rows
  alone and can only end a pending request.
* `NaturalKeyAlone`: with one request at a time and one source row per user the natural key
  of the class comment (`pii_vault_sync.py` 72-76) holds: only concurrency, or a user with several
  rows, can break it, and then `DuplicatesCorrect` still bounds the damage.
* `CoverageCorrect`, `WatermarkCorrect`, `AttemptCorrect` (`SyncCoverage_proofs`): `WatermarkCovers` is not inductive for two
  reasons. A run in progress holds times too (its snapshot of the registry, its start) and will record one: `RunJustified`
  says of each what `RegistryJustified` says of the registry, and `Enumerated` that while a run publishes, what it has not
  pledged is still in its `todo`. And `Covered` can be lost: a message on the topic may be in the hands of a request that has
  read the table too early. `Pledged` asks that each request with the message still `Attends` to the value; `PledgeStays` then
  shows, with one lemma per step of a request, that no step withdraws a pledge of a value that is still in its table. It
  needs that a published message is new (`Numbered`), that declarations only gain columns (`StillEncrypted`), and that deleted rows are
  empty. The hypothesis `StampLag = 0` is used for incremental queries only; `FullScansCorrect` shows that a resource without
  an updated_at column is covered under any lag.
* `PledgesKept`: the step simulation of `SyncPromise`. Steps of requests and of enumeration that record nothing map to `Sync` by
  `PledgeStays` and `SettledGrows`; marks, withdrawals and new declarations to `Record`; the customer's writes to
  `Change`. `PromiseMeans` proves of the abstract specification itself that all that is older than a recorded
  time is accounted for.
* `CopyCorrect`: `CopyFollowsVault` with `CopyInv`: what a request at its copy step is about to copy has its `pii_vault` row, and its
  rows are of its message's table. Rows of `pii_vault` are never taken away (`VaultOnlyGrows`).
* `ProgressCorrect`: `ProgressBounded` under all failures, with no hypothesis. `ProgressInv` has two balances for each run. `Tallied` follows a chunk from
  its publish to the total: what was sent is in the total, is counted by the resource under way, or was lost by a failed publish or query, which
  costs at most the rows of one resource (`Lost`). `Balanced` follows it from the topic to the counter: completed chunks, requests that have not reported (`Open`) and messages that
  no request has (`Waiting`) are together at most what was sent, plus one chunk per request for each failure that repeats something (`Repeats`). A delivery turns
  a waiting message into an open request, an answer ends one, and only a duplicate, a crash or a lost report adds to the left side without a publish. The proof needs
  `Numbered` of `CoverageInv`, that a published message is new.
* `ShreddingCorrect` (`DuplicateBound_proofs`): `Forgotten` is preserved by every step (`NextForgets`): only `FetchContexts` gives a request a context, and what it
  takes from an answer is of active keys; only unwrapping fills a cache, with what the request holds. A user without a context in the request gets no record (`NotReadyNotWritten`).
* `GivesUpCorrect`: the grounds of `GivesUpOnly` are given up at the end of `UnwrapContexts`, steps after they arose. `AsksRight` carries them there: a
  request that asks for contexts has made the keys (`CreateKeysAsksRight`), keys never go back to "none" (`KeysStay`), and an answer without failure leaves
  out shredded users only (`FetchedAsksRight`).

For any finite sets of messages and requests, and any number of instances, users, fields, resources,
declarations, changes and failures, all safety of the push endpoints is proved:

* `TypeCorrect` (`PushIngest_proofs`): the types are not inductive, since the steps that use a key look up
  the user of the message. `Sound` says which phases have a message and a user, and `RegistrySound` that the
  registry holds one of the possible declarations.
* `KeysFirst` (`PushIngest_proofs`): versions only grow (`StepKeysGrow`), a request that is about to
  encrypt has a context, and a context in a request or a cache has an issued version (`Backed`, `CacheBacked`), so
  a row has a key. `KeyBeforeRow` itself says nothing of requests without a context and is not inductive.
* `ShreddedStays`: of all steps only `UseCached`, `FetchContext` and `UnwrapContext` give an instance a context; the
  first and the last had it already (an unwrapping request has a version, by `KeyInv`), and the second refuses a shredded user.
* `ImplementsPromise` (`PushPromise_proofs`): the step simulation. A request past the declaration carries all fields that its
  message obliges to (`Carries`), because the declaration it read is one of those that define the obligation; a request that
  answers 200 has them stored (`Fulfilled`). Then a step that leaves the subscription alone is a `Store` or a stutter, and `Answer` is
  an `Acknowledge`, or a stutter when a duplicate was answered before.
* `CopiesPaidFor` (`PushCopies_proofs`): `CopiesBounded` is inductive. `Budget` counts what may still be written of a message: its
  requests that have not finished, and one delivery to come when no request holds it. A write that succeeds
  moves one from the budget to the rows; refusals, lost answers, duplicates and crashes may return at most one to the
  budget, and all but a refusal are failures.
* `LateWritesPaidFor`: the late writes and the stale requests together stay within changes times requests; a change can make
  every request stale, a stale request makes one write and ends, and no request becomes stale otherwise.

For any finite sets of uploads, rows and instances, and any number of names and failures, the safety of the
landing zone is proved (`LandingZone_proofs`), `SinkRegistered` apart, which the code does not keep:

* `TypeCorrect`: the loop looks up the name of its blob and counts its temporary files, so the types need
  `Sound`: a busy instance has a blob, and one that has downloaded has content and a temporary file.
* `LosesNothing`: `BucketSound` says that each name holds an upload of that name, and `Tracks` that what an instance
  downloaded is its blob, unless the blob is gone; that its rows are published, skipped or still to
  publish; that it has ingested what it deletes after publishing, and copied what it deletes after a copy. The file it
  deletes is the one it listed, because the delete names a generation, and an upload that is gone does not come back.
  That is `FilesKept`. `KeptInv` adds the other two parts of `NothingLost`: a copy to `failed/` puts a failed file in place of one of its name
  (`CopyKeeps`), and since an instance protects only columns of the registry or the address (`FieldsKnown`), a row that has them all is skipped only by a
  failure (`RowsJustified`).
* `RepublishPaidFor`: the bound on a row counts pairs of an instance and an upload of the row's name. `SpentBy` holds of a pair
  when the instance will not publish the row again on account of that upload: it has published it, or the upload is
  gone and no longer listed. `TimesPaid` says that a row was published at most once for each such pair
  and each failure, and is inductive with `Careful` (what an instance reads has the name of its blob, which it will not
  take twice in one loop). A publish makes a pair spent; an instance that leaves a blob
  without a failure has seen it gone; a failure gives back one pair of each row and pays for it.
* `LeaksPaidFor`: `LeaksBounded` is inductive given the types; each exit without a cleanup is a failure.

For any sets of resources, columns, models and patterns, any sequence of datasets, finite sets of rows, and any number of passes and
changes, everything that the `discovery` run checks is proved (`Discovery_proofs`). A pass shares only the world with
the others, so each kind has an invariant of its own, about its locals and the history since it began;
`OthersWatched` says once what any step of somebody else may do to that history, and `OwnSteps` splits the rest.

* `TypeCorrect` needs `LoopsSound`: a loop that is not over has an element to look at, an idle pass knows nothing, a scan has a
  declaration for each table it still has to read.
* `CrawlCorrect`, `VerdictsCorrect`: an entry of the report agrees with the registry snapshot and with columns that the table had
  since the crawl began; for a table left alone there is only one such set of columns, and one entry for each turn of its dataset.
* `PublishCorrect`: what was collected at a location is what it held at some moment of the pass, and a location that was passed by
  without a failure has been collected.
* `PolicyCorrect`: the verdict of a model is that of a declaration of a table which was there during the check.
* `GhostCorrect`: the scan reports only cells of the rows that it sampled; when the sample is the whole table, it has found all cells
  whose patterns are enabled of each table that is no longer in its `todo`, however the pass ends. That a nested value is classified by one of its patterns needs the first
  match in a sequence, which exists by well-foundedness of the naturals (`FirstOf`, `FirstPatternFound`).

Assumptions: `ConstantsAssumption` of `SyncState` and of `PushDelivery`, `LandingAssumption` of `LandingZone`, and
`WorldAssumption`, `CrawlAssumption`, `ScanAssumption`, `PublishAssumption`, `PolicyAssumption` of the discovery modules, which TLC
evaluates in each run. `WatermarkCorrect`, `AttemptCorrect` and `PledgesKept` have a hypothesis on the environment, explained in section 3: `StampLag = 0`
(commit times as stamps), as in the runs. `NaturalKeyAlone` is about one request at a time and one row per user. No other theorem has a hypothesis.

Every invariant and every safety action property that a passing run checks is a theorem. Only model-checked are the liveness properties
(`RunsEnd`, `TopicDrains`, `EnumeratedIsSynced`, `InboundEmpties`, `Drains`), since liveness under fairness and ENABLED are outside
the reach of the prover, and the properties that the code breaks, where TLC shows the counterexample.

## 5. Plan

1. Composition of `LandingZone` with `WarehouseIngest`: a row of a file reaches raw_users.
2. An abstract specification of the landing zone (each upload is published or set aside, and nothing else leaves `inbound/`) that
   `LandingZone` implements, from the invariants of `LandingZone_proofs`.

## 6. Not modelled

Cryptography, signature and token verification are library calls on bytes, without state of their own.
Configuration, client wrappers, scripts and load tests have no behaviour to check. The staleness and
version routes compare recorded versions with what GitHub answers and keep nothing. Of the Vault client, certificates, lineage search and
tenant-scoped clients have no caller in the service. `from_dict` of the registry model reads several
spellings of one attribute; the models start from what a declaration says. Which strings match
a pattern, which tokens verify and what a path finds in a body are inputs. Memory, the length of
waits and the wording of answers are left out.
