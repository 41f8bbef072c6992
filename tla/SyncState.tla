----------------------------- MODULE SyncState -----------------------------
(***************************************************************************)
(* The state that the retroactive pii_vault sync works on, shared by its   *)
(* two halves: SyncEnumeration (the trigger) and ChunkWorker (the push     *)
(* endpoint).  Customer rows, the Key Vault and Pub/Sub are external: the  *)
(* code only sees them through the calls it makes.                         *)
(***************************************************************************)
EXTENDS Naturals, FiniteSets

CONSTANTS
    Resources,   \* resources of the PII registry
    Users,       \* user ids
    Fields,      \* columns that may be declared with ENCRYPT handling
    Rows,        \* identities of source-table rows
    ResourceOf,  \* [Rows -> Resources]: the table a row is in
    UserOf,      \* [Rows -> Users]: str(row[user_id_column])
    Manual,      \* resources with owner_connector = "manual"
    Syncable,    \* resources with system = "bigquery" and a userIdColumn
    Stamped,     \* resources with an updatedAtColumn
    CopyOpted,   \* resources that want an encrypted copy
    Original,    \* [Resources -> SUBSET Fields]: ENCRYPT columns at the start
    Runs,        \* triggers: scheduler calls and "Sync Now" clicks
    Workers,     \* concurrent requests served by /pii-vault-sync-chunk
    Instances,   \* Cloud Run instances, each with one VaultClient
    HostOf,      \* [Workers -> Instances]
    ChunkSize,   \* PiiVaultSyncJob.CHUNK_SIZE
    StampLag,    \* how far updated_at may lag behind the commit of a row
    MaxTime,     \* bound on the clock
    MaxFaults,   \* bound on the number of failures in a behaviour
    MaxReports,  \* bound on the failed chunks counted for a run
    Possible,    \* the kinds of failures and outside changes considered
    NoResource,  \* "no resource is being enumerated"
    NoMessage    \* "no message is being handled"

Kinds == {"enumerate", "publish", "mark", "trigger", "runRecord",
          "duplicate", "crash", "vault", "omit", "insert", "copy", "report",
          "write", "delete", "declare", "addField", "shred"}

ASSUME ConstantsAssumption ==
    /\ IsFiniteSet(Rows) /\ IsFiniteSet(Workers)
    /\ ResourceOf \in [Rows -> Resources]
    /\ UserOf \in [Rows -> Users]
    /\ Manual \subseteq Resources /\ Syncable \subseteq Resources
    /\ Stamped \subseteq Resources /\ CopyOpted \subseteq Resources
    /\ Original \in [Resources -> SUBSET Fields]
    /\ HostOf \in [Workers -> Instances]
    /\ ChunkSize \in Nat \ {0}
    /\ StampLag \in Nat /\ MaxTime \in Nat \ {0} /\ MaxFaults \in Nat
    /\ MaxReports \in Nat
    /\ Possible \subseteq Kinds

VARIABLES
    clock,     \* wall clock, read by triggers and stamped on rows
    source,    \* [Rows -> SourceRow]: the customers' tables
    registry,  \* [Resources -> Declaration]: Key Vault's PII registry
    key,       \* [Users -> KeyState]: Key Vault's per-user keys
    syncRun,   \* [Runs -> Progress]: Key Vault's sync_runs documents
    run,       \* [Runs -> RunState]: enumerations in progress
    topic,     \* unacknowledged messages of pii_vault_sync_chunks
    worker,    \* [Workers -> WorkerState]: chunk requests in progress
    cache,     \* [Instances -> SUBSET Users]: VaultClient._context_cache
    vault,     \* [VaultKey -> Nat]: rows of the pii_vault table
    copy,      \* rows of the {table}_encrypted_raw tables
    dropped,   \* history: <<resource, user>> given up on by an acked chunk
    faults     \* history, FaultTally: the failures so far

vars == <<clock, source, registry, key, syncRun, run, topic, worker, cache,
          vault, copy, dropped, faults>>

-----------------------------------------------------------------------------
(* Types.  Time 0 stands for "no timestamp".                               *)

Time == 0..MaxTime

\* A row that is not present has no cells.  filled: columns that are not NULL.
SourceRow == [present: BOOLEAN, at: Time, filled: SUBSET Fields]

Declaration == [declared: BOOLEAN, encrypt: SUBSET Fields,
                syncedAt: Time, attemptedAt: Time]

KeyState == {"none", "active", "shredded"}

\* total = 0 with final = FALSE until finalize_sync_run_total.
Progress == [final: BOOLEAN, total: Nat, completed: Nat, failed: Nat]

\* One Pub/Sub message.  n tells messages of one run apart (the messageId).
Message == [run: Runs, n: Nat, resource: Resources, users: SUBSET Users,
            tracked: BOOLEAN]

RunPhase == {"idle", "fetch", "next", "query", "publish", "attempt", "done"}

RunState == [phase: RunPhase,
             asked: Resources \cup {NoResource}, \* resource_id of the request
             force: BOOLEAN,
             tracked: BOOLEAN,           \* run_id is not None
             since: [Resources -> Time], \* last_synced_at as fetched
             pending: SUBSET Resources,  \* resources left to enumerate
             current: Resources \cup {NoResource},
             start: Time,                \* job_start_time
             todo: SUBSET Rows,          \* rows of the query not yet published
             count: Nat,                 \* chunks_queued of the current resource
             total: Nat,                 \* sum of chunks_queued of the results
             sent: Nat]                  \* messages that may have reached Pub/Sub

WorkerPhase == {"idle", "registry", "source", "existing", "keys", "contexts",
                "unwrap", "refused", "insert", "copy", "report", "failing",
                "answer"}

WorkerState == [phase: WorkerPhase,
                msg: Message \cup {NoMessage},
                fields: SUBSET Fields,            \* encrypt_fields
                rows: SUBSET Rows,                \* rows read from the source
                cells: SUBSET (Rows \X Fields),   \* their non-NULL values
                missing: SUBSET (Users \X Fields),
                ready: SUBSET Users]              \* users with a context,
                                                  \* or with one to unwrap

VaultKey == Resources \X Users \X Fields

\* The source rows whose value for a field ends up under one natural key.
RowsOf(k) == {row \in Rows : ResourceOf[row] = k[1] /\ UserOf[row] = k[2]}

CopyRow == [row: Rows, cipher: SUBSET Fields, plain: SUBSET Fields]

\* Of all failures, those that lose chunks from the total of a run, those that
\* may repeat a chunk or count it twice, and the users that Key Vault leaves out
\* are also tallied by themselves.
FaultTally == [all: 0..MaxFaults, uncounted: Nat, repeated: Nat, omitted: Nat]

IdleRun == [phase |-> "idle", asked |-> NoResource, force |-> FALSE, tracked |-> FALSE,
            since |-> [q \in Resources |-> 0], pending |-> {},
            current |-> NoResource, start |-> 0, todo |-> {}, count |-> 0,
            total |-> 0, sent |-> 0]

IdleWorker == [phase |-> "idle", msg |-> NoMessage, fields |-> {}, rows |-> {},
               cells |-> {}, missing |-> {}, ready |-> {}]

-----------------------------------------------------------------------------
\* The next state of one run, of one request.
RunBecomes(r, state) == run' = [run EXCEPT ![r] = state]

Becomes(w, state) == worker' = [worker EXCEPT ![w] = state]

\* Failures after which a result reports fewer chunks than were published.
Uncounting == {"publish", "enumerate"}

\* Failures after which a chunk may be processed, or counted, once more.
Repeating == {"duplicate", "crash", "report"}

\* One more failure of kind k, if this instance considers it.
Fault(k) ==
    /\ k \in Possible
    /\ faults.all < MaxFaults
    /\ faults' = [all |-> faults.all + 1,
                  uncounted |-> faults.uncounted + (IF k \in Uncounting THEN 1 ELSE 0),
                  repeated |-> faults.repeated + (IF k \in Repeating THEN 1 ELSE 0),
                  omitted |-> faults.omitted + (IF k = "omit" THEN 1 ELSE 0)]

=============================================================================
