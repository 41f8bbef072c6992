-------------------------- MODULE SyncEnumeration --------------------------
(***************************************************************************)
(* The trigger half of the sync: POST /pii-vault-sync creates a sync_runs  *)
(* document, then sync_all or sync_one calls enumerate_resource for each   *)
(* declared resource: it queries the user ids, publishes them in chunks    *)
(* and moves the resource's watermark.  Several triggers may overlap (the  *)
(* daily scheduler and any number of "Sync Now" clicks); each is a run.    *)
(***************************************************************************)
EXTENDS SyncState

\* Mutant: the resource is not taken off the list.
AdvanceNowhere(r, queued, sent) ==
    RunBecomes(r, [run[r] EXCEPT !.phase = "next", !.todo = {}, !.count = 0,
                                 !.sent = run[r].sent + sent])

\* The result for the current resource is appended and the loop goes on.
Advance(r, queued, sent) ==
    RunBecomes(r, [run[r] EXCEPT
        !.phase = "next",
        !.pending = run[r].pending \ {run[r].current},
        !.current = NoResource,
        !.start = 0,
        !.todo = {},
        !.count = 0,
        !.total = run[r].total + queued,
        !.sent = run[r].sent + sent])

\* The request is over; only what its messages carry is remembered.
Stop(r) ==
    RunBecomes(r, [IdleRun EXCEPT !.phase = "done", !.tracked = run[r].tracked,
                                  !.sent = run[r].sent])

-----------------------------------------------------------------------------
(* The request and the registry read                                       *)

\* The route creates the sync_runs document first; when that call fails the
\* sync goes on with run_id = None.  (The document may exist all the same,
\* but nothing refers to it any more.)
Trigger(r, asked, force) ==
    /\ run[r].phase = "idle"
    /\ \E tracked \in BOOLEAN :
          /\ RunBecomes(r, [IdleRun EXCEPT !.phase = "fetch", !.asked = asked,
                                !.force = force, !.tracked = tracked])
          /\ IF tracked THEN UNCHANGED faults ELSE Fault("runRecord")
    /\ UNCHANGED <<clock, source, registry, key, syncRun, topic, worker, cache,
                   vault, copy, dropped>>

\* The resources of the fetched registry that enumerate_resource will not skip:
\* sync_one answers "not found" or "only manually-declared" for the others,
\* enumerate_resource returns 0 for an unsupported system, for a resource with
\* no user id column and for one with nothing to encrypt.
Enumerable(q) ==
    /\ registry[q].declared
    /\ q \in Manual \cap Syncable
    /\ registry[q].encrypt # {}

Asked(r) == {q \in Resources : run[r].asked \in {NoResource, q}}

\* fetch_pii_registry_resources / fetch_pii_registry_resource: the run works
\* on this snapshot, last_synced_at included, whatever happens afterwards.
FetchRegistry(r) ==
    /\ run[r].phase = "fetch"
    /\ RunBecomes(r, [run[r] EXCEPT
           !.phase = "next",
           !.asked = NoResource,
           !.since = [q \in Resources |-> registry[q].syncedAt],
           !.pending = {q \in Asked(r) : Enumerable(q)}])
    /\ UNCHANGED <<clock, source, registry, key, syncRun, topic, worker, cache,
                   vault, copy, dropped, faults>>

\* sync_one turns a failed fetch into an error result; sync_all lets it escape,
\* so that the request fails before the total is reported.
FetchRegistryFails(r) ==
    /\ run[r].phase = "fetch"
    /\ Fault("enumerate")
    /\ IF run[r].asked = NoResource
       THEN Stop(r)
       ELSE RunBecomes(r, [run[r] EXCEPT !.phase = "next", !.asked = NoResource])
    /\ UNCHANGED <<clock, source, registry, key, syncRun, topic, worker, cache,
                   vault, copy, dropped>>

-----------------------------------------------------------------------------
(* enumerate_resource                                                      *)

\* job_start_time is captured before the query runs.
StartResource(r, q) ==
    /\ run[r].phase = "next"
    /\ q \in run[r].pending
    /\ RunBecomes(r, [run[r] EXCEPT !.phase = "query", !.current = q,
                                    !.start = clock])
    /\ UNCHANGED <<clock, source, registry, key, syncRun, topic, worker, cache,
                   vault, copy, dropped, faults>>

Incremental(r) ==
    /\ ~run[r].force
    /\ run[r].current \in Stamped
    /\ run[r].since[run[r].current] # 0

\* Mutant: > instead of >=.
UpdatedAfter(row, since) == source[row].at > since

UpdatedSince(row, since) == source[row].at >= since

\* The rows whose user id the enumeration query returns.
Selected(r) ==
    {row \in Rows : /\ ResourceOf[row] = run[r].current
                    /\ source[row].present
                    /\ Incremental(r) =>
                         UpdatedSince(row, run[r].since[run[r].current])}

\* The result set of a query job is fixed once the job has started.
Query(r) ==
    /\ run[r].phase = "query"
    /\ RunBecomes(r, [run[r] EXCEPT !.phase = "publish", !.todo = Selected(r)])
    /\ UNCHANGED <<clock, source, registry, key, syncRun, topic, worker, cache,
                   vault, copy, dropped, faults>>

\* The next chunk is any ChunkSize of the rows left, or all of them when fewer
\* are left: BigQuery promises no order.
Chunk(r, S) ==
    /\ S \subseteq run[r].todo
    /\ S # {}
    /\ \/ Cardinality(S) = ChunkSize
       \/ S = run[r].todo /\ Cardinality(S) < ChunkSize

\* Mutant: the message carries the rows of the query instead of the user ids.
RowsMessage(r, S) ==
    [run |-> r, n |-> run[r].sent, resource |-> run[r].current, users |-> S,
     tracked |-> run[r].tracked]

ChunkMessage(r, S) ==
    [run |-> r, n |-> run[r].sent, resource |-> run[r].current,
     users |-> {UserOf[row] : row \in S}, tracked |-> run[r].tracked]

\* _publish_chunk blocks until Pub/Sub has the message.
PublishChunk(r, S) ==
    /\ run[r].phase = "publish"
    /\ Chunk(r, S)
    /\ topic' = topic \cup {ChunkMessage(r, S)}
    /\ RunBecomes(r, [run[r] EXCEPT !.todo = run[r].todo \ S,
                                    !.count = run[r].count + 1,
                                    !.sent = run[r].sent + 1])
    /\ UNCHANGED <<clock, source, registry, key, syncRun, worker, cache, vault,
                   copy, dropped, faults>>

\* future.result() raises, whether or not the message got through: the
\* exception leaves enumerate_resource and the result reports no chunk at all.
PublishFails(r, S) ==
    /\ run[r].phase = "publish"
    /\ Chunk(r, S)
    /\ Fault("publish")
    /\ \/ UNCHANGED topic
       \/ topic' = topic \cup {ChunkMessage(r, S)}
    /\ Advance(r, 0, 1)
    /\ UNCHANGED <<clock, source, registry, key, syncRun, worker, cache, vault,
                   copy, dropped>>

\* The query, or fetching one of its pages, fails.
QueryFails(r) ==
    /\ run[r].phase \in {"query", "publish"}
    /\ Fault("enumerate")
    /\ Advance(r, 0, 0)
    /\ UNCHANGED <<clock, source, registry, key, syncRun, topic, worker, cache,
                   vault, copy, dropped>>

\* Mutant: the marks do not wait for the last chunks.
PublishedSome(r) == run[r].phase = "publish"

Published(r) == run[r].phase = "publish" /\ run[r].todo = {}

Later(s, t) == IF s < t THEN t ELSE s

\* mark_resource_synced: Key Vault keeps the later of the two times, and
\* answers 404 for a resource that is no longer declared.
SyncedAt(q, t) ==
    IF registry[q].declared
    THEN [registry EXCEPT ![q] =
             [registry[q] EXCEPT !.syncedAt = Later(registry[q].syncedAt, t)]]
    ELSE registry

\* Mutant: the watermark is the time the enumeration ended.
MarkSyncedNow(r) ==
    /\ Published(r)
    /\ run[r].current \in Stamped
    /\ registry' = SyncedAt(run[r].current, clock)
    /\ RunBecomes(r, [run[r] EXCEPT !.phase = "attempt"])
    /\ UNCHANGED <<clock, source, key, syncRun, topic, worker, cache, vault,
                   copy, dropped, faults>>

MarkSynced(r) ==
    /\ Published(r)
    /\ run[r].current \in Stamped
    /\ registry' = SyncedAt(run[r].current, run[r].start)
    /\ RunBecomes(r, [run[r] EXCEPT !.phase = "attempt"])
    /\ UNCHANGED <<clock, source, key, syncRun, topic, worker, cache, vault,
                   copy, dropped, faults>>

\* The failure is logged and the run goes on; the call may have taken effect.
MarkSyncedFails(r) ==
    /\ Published(r)
    /\ run[r].current \in Stamped
    /\ Fault("mark")
    /\ registry' \in {registry, SyncedAt(run[r].current, run[r].start)}
    /\ RunBecomes(r, [run[r] EXCEPT !.phase = "attempt"])
    /\ UNCHANGED <<clock, source, key, syncRun, topic, worker, cache, vault,
                   copy, dropped>>

Attempting(r) ==
    \/ run[r].phase = "attempt"
    \/ Published(r) /\ run[r].current \notin Stamped

AttemptedAt(q, t) ==
    IF registry[q].declared
    THEN [registry EXCEPT ![q] = [registry[q] EXCEPT !.attemptedAt = t]]
    ELSE registry

\* mark_resource_sync_attempted, for every resource that was enumerated.
MarkAttempted(r) ==
    /\ Attempting(r)
    /\ registry' = AttemptedAt(run[r].current, run[r].start)
    /\ Advance(r, run[r].count, 0)
    /\ UNCHANGED <<clock, source, key, syncRun, topic, worker, cache, vault,
                   copy, dropped, faults>>

MarkAttemptedFails(r) ==
    /\ Attempting(r)
    /\ Fault("mark")
    /\ registry' \in {registry, AttemptedAt(run[r].current, run[r].start)}
    /\ Advance(r, run[r].count, 0)
    /\ UNCHANGED <<clock, source, key, syncRun, topic, worker, cache, vault,
                   copy, dropped>>

-----------------------------------------------------------------------------
(* The end of the request                                                  *)

\* finalize_sync_run_total, only with a run_id.
Finalize(r) ==
    /\ run[r].phase = "next"
    /\ run[r].pending = {}
    /\ syncRun' = IF run[r].tracked
                  THEN [syncRun EXCEPT ![r] =
                           [syncRun[r] EXCEPT !.final = TRUE, !.total = run[r].total]]
                  ELSE syncRun
    /\ Stop(r)
    /\ UNCHANGED <<clock, source, registry, key, topic, worker, cache, vault,
                   copy, dropped, faults>>

FinalizeFails(r) ==
    /\ run[r].phase = "next"
    /\ run[r].pending = {}
    /\ run[r].tracked
    /\ Fault("runRecord")
    /\ Stop(r)
    /\ UNCHANGED <<clock, source, registry, key, syncRun, topic, worker, cache,
                   vault, copy, dropped>>

\* The instance serving the trigger dies; nothing resumes the run.
TriggerDies(r) ==
    /\ run[r].phase \notin {"idle", "done"}
    /\ Fault("trigger")
    /\ Stop(r)
    /\ UNCHANGED <<clock, source, registry, key, syncRun, topic, worker, cache,
                   vault, copy, dropped>>

\* What the code does by itself once triggered.
RunStep(r) ==
    \/ FetchRegistry(r)
    \/ \E q \in Resources : StartResource(r, q)
    \/ Query(r)
    \/ \E S \in SUBSET run[r].todo : PublishChunk(r, S)
    \/ MarkSynced(r)
    \/ MarkAttempted(r)
    \/ Finalize(r)

RunFails(r) ==
    \/ FetchRegistryFails(r)
    \/ \E S \in SUBSET run[r].todo : PublishFails(r, S)
    \/ QueryFails(r)
    \/ MarkSyncedFails(r)
    \/ MarkAttemptedFails(r)
    \/ FinalizeFails(r)
    \/ TriggerDies(r)

EnumerationNext ==
    \E r \in Runs :
        \/ \E asked \in Resources \cup {NoResource}, force \in BOOLEAN :
               Trigger(r, asked, force)
        \/ RunStep(r)
        \/ RunFails(r)
=============================================================================
