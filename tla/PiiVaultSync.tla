---------------------------- MODULE PiiVaultSync ----------------------------
(***************************************************************************)
(* PiiVaultSyncJob as a system: any number of overlapping triggers, the    *)
(* chunk topic, concurrent chunk requests, and a customer and a Key Vault  *)
(* that change things while all of this runs.                              *)
(***************************************************************************)
EXTENDS SyncEnumeration, ChunkWorker

-----------------------------------------------------------------------------
(* The outside world                                                       *)

Tick ==
    /\ clock < MaxTime
    /\ clock' = clock + 1
    /\ UNCHANGED <<source, registry, key, syncRun, run, topic, worker, cache,
                   vault, copy, dropped, faults>>

\* The customer inserts or updates a row.  Its updated_at is the time of the
\* commit, or lies up to StampLag before it.
WriteRow(row, filled, at) ==
    /\ "write" \in Possible
    /\ at >= 1 /\ at <= clock /\ at + StampLag >= clock
    /\ source' = [source EXCEPT ![row] =
                     [present |-> TRUE, at |-> at, filled |-> filled]]
    /\ UNCHANGED <<clock, registry, key, syncRun, run, topic, worker, cache,
                   vault, copy, dropped, faults>>

NoRow == [present |-> FALSE, at |-> 0, filled |-> {}]

DeleteRow(row) ==
    /\ "delete" \in Possible
    /\ source[row].present
    /\ source' = [source EXCEPT ![row] = NoRow]
    /\ UNCHANGED <<clock, registry, key, syncRun, run, topic, worker, cache,
                   vault, copy, dropped, faults>>

\* A resource is withdrawn from the registry, or declared again; a new
\* declaration may or may not remember the old watermark.
Redeclare(q) ==
    /\ "declare" \in Possible
    /\ \E t \in {0, registry[q].syncedAt} :
          registry' = [registry EXCEPT ![q] = [registry[q] EXCEPT
                          !.declared = ~registry[q].declared, !.syncedAt = t]]
    /\ UNCHANGED <<clock, source, key, syncRun, run, topic, worker, cache, vault,
                   copy, dropped, faults>>

\* One more column of a declared resource is given ENCRYPT handling.
AddField(q, f) ==
    /\ "addField" \in Possible
    /\ f \notin registry[q].encrypt
    /\ registry' = [registry EXCEPT ![q] =
                      [registry[q] EXCEPT !.encrypt = registry[q].encrypt \cup {f}]]
    /\ UNCHANGED <<clock, source, key, syncRun, run, topic, worker, cache, vault,
                   copy, dropped, faults>>

Shred(u) ==
    /\ "shred" \in Possible
    /\ key[u] = "active"
    /\ key' = [key EXCEPT ![u] = "shredded"]
    /\ UNCHANGED <<clock, source, registry, syncRun, run, topic, worker, cache,
                   vault, copy, dropped, faults>>

Outside ==
    \/ Tick
    \/ \E row \in Rows, filled \in SUBSET Fields, at \in Time :
          WriteRow(row, filled, at)
    \/ \E row \in Rows : DeleteRow(row)
    \/ \E q \in Resources : Redeclare(q)
    \/ \E q \in Resources, f \in Fields : AddField(q, f)
    \/ \E u \in Users : Shred(u)

-----------------------------------------------------------------------------
Init ==
    /\ clock = 1
    /\ source \in [Rows -> {NoRow} \cup
                     {[present |-> TRUE, at |-> 1, filled |-> F] : F \in SUBSET Fields}]
    /\ registry = [q \in Resources |-> [declared |-> TRUE, encrypt |-> Original[q],
                                        syncedAt |-> 0, attemptedAt |-> 0]]
    /\ key = [u \in Users |-> "none"]
    /\ syncRun = [r \in Runs |-> [final |-> FALSE, total |-> 0,
                                  completed |-> 0, failed |-> 0]]
    /\ run = [r \in Runs |-> IdleRun]
    /\ topic = {}
    /\ worker = [w \in Workers |-> IdleWorker]
    /\ cache = [i \in Instances |-> {}]
    /\ vault = [k \in VaultKey |-> 0]
    /\ copy = {}
    /\ dropped = {}
    /\ faults = [all |-> 0, uncounted |-> 0, repeated |-> 0, omitted |-> 0]

\* The triggers are used up and everything published has been acknowledged.
Quiescent ==
    /\ \A r \in Runs : run[r].phase = "done"
    /\ topic = {}
    /\ \A w \in Workers : worker[w].phase = "idle"
    /\ UNCHANGED vars

Next == EnumerationNext \/ WorkerNext \/ Outside \/ Quiescent

\* Pub/Sub pushes the n-th message of run r, which nobody is handling.
Pushed(r, n) ==
    \E w \in Workers, m \in topic :
        m.run = r /\ m.n = n /\ ~Held(m) /\ Deliver(w, m)

\* A triggered request is run to its end; a pushed message is handled to an
\* answer.  Pub/Sub goes on pushing each message that is not acknowledged: one
\* that fails for ever may delay the others, but not keep them out (a run has no
\* more messages than there are rows).
Fairness ==
    /\ \A r \in Runs : WF_vars(RunStep(r))
    /\ \A w \in Workers : WF_vars(WorkerStep(w))
    /\ \A r \in Runs, n \in 0..Cardinality(Rows) : SF_vars(Pushed(r, n))

Spec == Init /\ [][Next]_vars

FairSpec == Spec /\ Fairness

-----------------------------------------------------------------------------
(* Properties                                                              *)

\* Every variable keeps its type.
TypeOK ==
    /\ clock \in Time
    /\ source \in [Rows -> SourceRow]
    /\ registry \in [Resources -> Declaration]
    /\ key \in [Users -> KeyState]
    /\ syncRun \in [Runs -> Progress]
    /\ run \in [Runs -> RunState]
    /\ topic \subseteq Message
    /\ worker \in [Workers -> WorkerState]
    /\ cache \in [Instances -> SUBSET Users]
    /\ vault \in [VaultKey -> Nat]
    /\ copy \subseteq CopyRow
    /\ dropped \subseteq Resources \X Users
    /\ faults \in FaultTally

Concerns(m, row) == m.resource = ResourceOf[row] /\ UserOf[row] \in m.users

\* A value of the row is in pii_vault, or a chunk that will look at it is
\* still unacknowledged, or an acknowledged chunk gave its user up.
Covered(row, f) ==
    LET q == ResourceOf[row]
        u == UserOf[row] IN
    \/ vault[<<q, u, f>>] > 0
    \/ <<q, u>> \in dropped
    \/ \E m \in topic : m.resource = q /\ u \in m.users

\* Every value that was in the table before time t, in a column declared from
\* the start, is covered.
CoveredBefore(q, t) ==
    \A row \in Rows : \A f \in Original[q] :
        ResourceOf[row] = q /\ f \in source[row].filled /\ source[row].at < t
            => Covered(row, f)

\* The watermark never passes a value that is neither synced nor on its way:
\* what the next incremental query will not select again is not lost, however
\* runs overlap, fail or are redelivered (enumerate_resource's comment that a
\* row is "never silently lost to mid-scan drift").
WatermarkCovers == \A q \in Stamped : CoveredBefore(q, registry[q].syncedAt)

\* The same of the "last attempt" time, which the registry shows for every
\* resource: a sync is only recorded for a resource whose chunks are all out.
AttemptCovers == \A q \in Resources : CoveredBefore(q, registry[q].attemptedAt)

\* However often chunks are redelivered, duplicated or fail half-way, a field
\* of a user has at most one pii_vault row for each concurrent request (and
\* source row of that user): the diff stops every later chunk.
DuplicatesBounded ==
    \A k \in VaultKey :
        vault[k] <= Cardinality(Workers) * Cardinality(RowsOf(k))

\* Requests that have found key k missing and have not inserted it yet.
Pending(k) ==
    {w \in Workers : /\ worker[w].phase \in {"keys", "contexts", "unwrap", "insert"}
                     /\ Resource(w) = k[1]
                     /\ <<k[2], k[3]>> \in worker[w].missing}

\* A run that enumerates works on a resource of the registry.
RunsConsistent ==
    \A r \in Runs : run[r].phase \in {"query", "publish", "attempt"}
                       => run[r].current \in Resources

\* An idle request remembers nothing; a busy one holds a message, and what it
\* read is in the table the message names.
RequestConsistent(state) ==
    IF state.phase = "idle"
    THEN state = IdleWorker
    ELSE /\ state.msg \in Message
         /\ \A c \in state.cells : ResourceOf[c[1]] = state.msg.resource

\* What types alone do not say and their preservation needs.
Consistent == RunsConsistent /\ \A w \in Workers : RequestConsistent(worker[w])

\* Every pending request (one past the diff of _sync_chunk and before its
\* insert) may still add a row for each source row of its user: with those
\* counted in, the duplicate bound is inductive.
PendingBounded ==
    \A k \in VaultKey :
        vault[k] + Cardinality(Pending(k)) * Cardinality(RowsOf(k))
            <= Cardinality(Workers) * Cardinality(RowsOf(k))

\* The natural key of pii_vault as the class comment states it: one row per
\* user, resource and field, never duplicated.
NaturalKeyUnique == \A k \in VaultKey : vault[k] <= 1

\* The encrypted copy is never ahead of pii_vault: a ciphertext in a wide row
\* has a pii_vault row, so that a lost insert cannot leave an orphan copy.
CopyFollowsVault ==
    \A c \in copy : \A f \in c.cipher :
        vault[<<ResourceOf[c.row], UserOf[c.row], f>>] > 0

\* A column declared ENCRYPT is never plaintext in the encrypted copy.
CopyIsEncrypted == \A c \in copy : c.plain = {}

\* Chunks of run r that are on the topic and that no request has seen through.
Unreported(r) ==
    {m \in topic : /\ m.run = r
                   /\ \A w \in Workers : worker[w].msg = m => worker[w].phase # "answer"}

\* The progress bar does not claim a run finished while chunks of it have not
\* been processed: what is counted as completed and what is not processed yet
\* make up no more than the reported total.  A failed publish or query may hide
\* the chunks of one resource from the total, and a crash, a duplicate delivery
\* or a lost report may count again what each request was at; nothing else, no
\* failing or redelivered chunk, no withdrawn resource, moves the bar ahead.
ProgressBounded ==
    \A r \in Runs : syncRun[r].final =>
        syncRun[r].completed + Cardinality(Unreported(r))
            <= syncRun[r].total + Cardinality(Rows) * faults.uncounted
                 + Cardinality(Workers) * faults.repeated

\* A chunk gives a user up only when it finds the resource withdrawn, the user
\* shredded, or Key Vault leaving the user out of its answer: a user that has
\* no key when the chunk arrives is not one of them.
GivesUpOnly ==
    [][\A q \in Resources, u \in Users :
          <<q, u>> \in dropped' \ dropped
              => \/ ~registry[q].declared \/ registry[q].encrypt = {}
                 \/ key[u] = "shredded"
                 \/ faults.omitted > 0]_vars

\* Nothing that could still encrypt for a shredded user is left: no instance has
\* the context cached and no request holds it.
Forgotten(u) ==
    /\ key[u] = "shredded"
    /\ \A i \in Instances : u \notin cache[i]
    /\ \A w \in Workers : u \notin worker[w].ready

\* A warm context cache goes on answering for a shredded user, but not beyond
\* the instances and requests that have the context: once they are gone, the
\* user gets no context and no pii_vault row again, whatever chunks redeliver.
ShreddingHolds ==
    [][\A u \in Users : Forgotten(u)
          => /\ Forgotten(u)'
             /\ \A k \in VaultKey : k[2] = u => vault'[k] = vault[k]]_vars

\* A chunk whose data is synced is acknowledged: reporting progress to Key
\* Vault "never raises".
DoneChunkIsAnswered ==
    [][\A w \in Workers : worker[w].phase = "report" /\ worker'[w].phase # "report"
          => worker'[w].phase = "answer"]_vars

\* Every trigger comes to an end.
RunsEnd == \A r \in Runs : run[r].phase = "fetch" ~> run[r].phase = "done"

Refused(m) == \E u \in m.users : key[u] = "shredded"

\* Everything that was published is acknowledged in the end, but for the chunks
\* with a shredded user: each of those may fail for ever, and keeps no other
\* chunk from its end.
TopicDrains ==
    \A r \in Runs :
        run[r].phase = "done" ~> \A m \in topic : m.run = r => Refused(m)

\* A value some run has selected is in pii_vault in the end, whatever happens to
\* the chunk requests, as long as the run's own calls to BigQuery and Pub/Sub
\* succeed, unless the user, or another user of the same chunk, is shredded.
EnumeratedIsSynced ==
    \A row \in Rows, r \in Runs, f \in Fields :
        (/\ row \in run[r].todo
         /\ f \in source[row].filled \cap registry[ResourceOf[row]].encrypt)
        ~> \/ vault[<<ResourceOf[row], UserOf[row], f>>] > 0
           \/ key[UserOf[row]] = "shredded"
           \/ \E m \in topic : Concerns(m, row) /\ Refused(m)

\* Whatever pii_vault holds of an opted-in resource reaches the encrypted copy
\* by the time a later full run is through ("the next sync run picks up the
\* backfill").
CopyBackfilled ==
    \A row \in Rows, f \in Fields :
        (/\ vault[<<ResourceOf[row], UserOf[row], f>>] > 0
         /\ faults.all = MaxFaults
         /\ \E r \in Runs : run[r].phase = "fetch" /\ run[r].force)
        ~> \E c \in copy : c.row = row /\ f \in c.cipher

-----------------------------------------------------------------------------
(* What the sync promises: the refinement of SyncPromise                   *)

\* Request w, if it gets to its answer, has seen to field f of the row by then.
Attends(w, row, f) ==
    \/ worker[w].phase \in {"idle", "registry", "refused", "failing"}
    \/ worker[w].phase = "source" /\ f \in worker[w].fields
    \/ /\ worker[w].phase = "existing"
       /\ row \in worker[w].rows /\ f \in worker[w].fields
       /\ <<row, f>> \in worker[w].cells
    \/ /\ worker[w].phase \in {"keys", "contexts", "unwrap"}
       /\ <<row, f>> \in worker[w].cells
       /\ <<UserOf[row], f>> \in worker[w].missing
    \/ worker[w].phase = "insert" /\ <<row, f>> \in Records(w)

\* A message is on the topic that no request can acknowledge without having
\* stored the value or given its user up.
Carried(row, f) ==
    \E m \in topic : /\ Concerns(m, row)
                     /\ \A w \in Workers : worker[w].msg = m => Attends(w, row, f)

\* Columns declared from the start: for them the registry's times speak.
Values == {v \in Rows \X Fields : v[2] \in Original[ResourceOf[v[1]]]}

Filled(v) == v[2] \in source[v[1]].filled

Written == [v \in Values |-> IF Filled(v) THEN source[v[1]].at ELSE 0]

Stored == {v \in Values : vault[<<ResourceOf[v[1]], UserOf[v[1]], v[2]>>] > 0}

Forgone == {v \in Values : <<ResourceOf[v[1]], UserOf[v[1]]>> \in dropped}

Due == {v \in Values : Filled(v) /\ Carried(v[1], v[2])}

Recorded == [q \in Resources |-> {registry[q].syncedAt, registry[q].attemptedAt}]

Promise == INSTANCE SyncPromise WITH
    Home <- [v \in Values |-> ResourceOf[v[1]]],
    written <- Written, due <- Due, stored <- Stored, forgone <- Forgone,
    recorded <- Recorded

\* The sync implements SyncPromise: a value that some chunk will see to stays
\* so until it is in pii_vault or given up, through every redelivery, crash and
\* half-failed insert, and a time is recorded only over values accounted for
\* (the marks of enumerate_resource, and process_chunk's answers).
KeepsPledges == Promise!Spec
=============================================================================
