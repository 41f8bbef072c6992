---------------------------- MODULE ChunkWorker ----------------------------
(***************************************************************************)
(* The second half of the sync: POST /pii-vault-sync-chunk, the push       *)
(* endpoint that runs process_chunk for one message of the chunk topic.    *)
(* Several requests run at once, on several instances, and the remote      *)
(* calls of one request are separate steps: whatever the others do happens *)
(* in between.  A request answers 200 (the message is acknowledged) or 500 *)
(* (Pub/Sub delivers it again).                                            *)
(***************************************************************************)
EXTENDS SyncState

Resource(w) == worker[w].msg.resource

\* rows_needing_work and the users they belong to.
WorkUsers(w) == {u \in Users : \E f \in Fields : <<u, f>> \in worker[w].missing}

\* The records _sync_chunk builds: one for each source row of a user with a
\* context and each field the user misses, NULL values aside.
Records(w) ==
    {c \in worker[w].cells : /\ <<UserOf[c[1]], c[2]>> \in worker[w].missing
                             /\ UserOf[c[1]] \in worker[w].ready}

-----------------------------------------------------------------------------
(* Delivery                                                                *)

Held(m) == \E w \in Workers : worker[w].msg = m

\* Pub/Sub pushes a message nobody is handling; now and then it pushes one
\* that is still being handled (at-least-once delivery).
Deliver(w, m) ==
    /\ worker[w].phase = "idle"
    /\ m \in topic
    /\ IF Held(m) THEN Fault("duplicate") ELSE UNCHANGED faults
    /\ Becomes(w, [worker[w] EXCEPT !.phase = "registry", !.msg = m])
    /\ UNCHANGED <<clock, source, registry, key, syncRun, run, topic, cache,
                   vault, copy, dropped>>

-----------------------------------------------------------------------------
(* _process_chunk_inner                                                    *)

\* A resource that is no longer declared, or has nothing left to encrypt, ends
\* the chunk with success: its users are given up on.
ReadRegistry(w) ==
    LET q == Resource(w)
        fields == registry[q].encrypt IN
    /\ worker[w].phase = "registry"
    /\ IF registry[q].declared /\ fields # {}
       THEN /\ Becomes(w, [worker[w] EXCEPT !.phase = "source",
                                           !.fields = fields])
            /\ UNCHANGED dropped
       ELSE /\ Becomes(w, [worker[w] EXCEPT !.phase = "report"])
            /\ dropped' = dropped \cup ({q} \X worker[w].msg.users)
    /\ UNCHANGED <<clock, source, registry, key, syncRun, run, topic, cache,
                   vault, copy, faults>>

\* The fresh read of the chunk's rows, plaintext values included.
ReadSource(w) ==
    LET found == {row \in Rows : /\ ResourceOf[row] = Resource(w)
                                 /\ source[row].present
                                 /\ UserOf[row] \in worker[w].msg.users} IN
    /\ worker[w].phase = "source"
    /\ Becomes(w, [worker[w] EXCEPT
           !.phase = IF found = {} THEN "report" ELSE "existing",
           !.rows = found,
           !.cells = {c \in found \X worker[w].fields : c[2] \in source[c[1]].filled}])
    /\ UNCHANGED <<clock, source, registry, key, syncRun, run, topic, cache,
                   vault, copy, dropped, faults>>

-----------------------------------------------------------------------------
(* _sync_chunk                                                             *)

\* Mutant: no diff against pii_vault, every declared field is missing.
NothingSynced(q, u, f) == FALSE

AlreadySynced(q, u, f) == vault[<<q, u, f>>] > 0

\* Mutant: a chunk with nothing left to do counts as an error.
NothingMissingFails(w) ==
    LET missing == {p \in {UserOf[row] : row \in worker[w].rows}
                          \X worker[w].fields :
                      ~AlreadySynced(Resource(w), p[1], p[2])} IN
    /\ worker[w].phase = "existing"
    /\ Becomes(w, [worker[w] EXCEPT
           !.phase = IF missing = {} THEN "failing" ELSE "keys",
           !.missing = missing])
    /\ UNCHANGED <<clock, source, registry, key, syncRun, run, topic, cache,
                   vault, copy, dropped, faults>>

\* _fetch_existing_fields and the per-field diff.
ReadExisting(w) ==
    LET missing == {p \in {UserOf[row] : row \in worker[w].rows}
                          \X worker[w].fields :
                      ~AlreadySynced(Resource(w), p[1], p[2])} IN
    /\ worker[w].phase = "existing"
    /\ Becomes(w, [worker[w] EXCEPT
           !.phase = IF missing = {} THEN "report" ELSE "keys",
           !.missing = missing])
    /\ UNCHANGED <<clock, source, registry, key, syncRun, run, topic, cache,
                   vault, copy, dropped, faults>>

\* batch-generate makes a key for the users that have none.
WithKeys(users) ==
    [u \in Users |-> IF u \in users /\ key[u] = "none" THEN "active" ELSE key[u]]

\* Mutant: the contexts are asked for before there are keys.
NoKeys(w) ==
    /\ worker[w].phase = "keys"
    /\ Becomes(w, [worker[w] EXCEPT !.phase = "contexts"])
    /\ UNCHANGED <<clock, source, registry, key, syncRun, run, topic, cache, vault,
                   copy, dropped, faults>>

CreateKeys(w) ==
    /\ worker[w].phase = "keys"
    /\ key' = WithKeys(WorkUsers(w))
    /\ Becomes(w, [worker[w] EXCEPT !.phase = "contexts"])
    /\ UNCHANGED <<clock, source, registry, syncRun, run, topic, cache, vault,
                   copy, dropped, faults>>

Cached(w) == cache[HostOf[w]] \cap WorkUsers(w)

\* What batch-encryption-context may answer when asked for these users: users
\* without a key are absent, and so are shredded ones in some answers; with
\* the fault "omit" an active user is absent too.
Answers(users) ==
    LET known == {u \in users : key[u] # "none"}
        gone == {u \in users : key[u] = "shredded"} IN
    {known \ absent : absent \in SUBSET gone}

\* Mutant: the status in the answer is not looked at.
FetchedAny(w, answer) ==
    Becomes(w, [worker[w] EXCEPT !.phase = "unwrap", !.ready = Cached(w) \cup answer])

\* POST keys/batch-encryption-context has answered: the contexts still to be
\* unwrapped join the cached ones, as the status in the answer says.
Fetched(w, answer) ==
    Becomes(w, [worker[w] EXCEPT
        !.phase = IF \E u \in answer : key[u] = "shredded" THEN "refused" ELSE "unwrap",
        !.ready = Cached(w) \cup {u \in answer : key[u] = "active"}])

FetchContexts(w, answer) ==
    /\ worker[w].phase = "contexts"
    /\ answer \in Answers(WorkUsers(w) \ Cached(w))
    /\ Fetched(w, answer)
    /\ UNCHANGED <<clock, source, registry, key, syncRun, run, topic, cache,
                   vault, copy, dropped, faults>>

\* Key Vault leaves out a user that does have a key.
FetchContextsOmits(w, answer) ==
    /\ worker[w].phase = "contexts"
    /\ answer \subseteq {u \in WorkUsers(w) \ Cached(w) : key[u] # "none"}
    /\ Fault("omit")
    /\ Fetched(w, answer)
    /\ UNCHANGED <<clock, source, registry, key, syncRun, run, topic, cache,
                   vault, copy, dropped>>

Caching(w, users) == [cache EXCEPT ![HostOf[w]] = cache[HostOf[w]] \cup users]

\* batch_get_encryption_contexts returns; what was fetched is cached.  Users
\* without a context are skipped for good.
UnwrapContexts(w) ==
    /\ worker[w].phase = "unwrap"
    /\ Becomes(w, [worker[w] EXCEPT !.phase = "insert"])
    /\ cache' = Caching(w, worker[w].ready)
    /\ dropped' = dropped \cup ({Resource(w)} \X (WorkUsers(w) \ worker[w].ready))
    /\ UNCHANGED <<clock, source, registry, key, syncRun, run, topic, vault,
                   copy, faults>>

\* Mutant: a batch that raises is skipped and the chunk counts as done.
UnwrapGivesUp(w, warmed) ==
    /\ worker[w].phase = "refused"
    /\ warmed \subseteq worker[w].ready
    /\ cache' = Caching(w, warmed)
    /\ Becomes(w, [worker[w] EXCEPT !.phase = "report"])
    /\ UNCHANGED <<clock, source, registry, key, syncRun, run, topic, vault,
                   copy, dropped, faults>>

\* _unwrap_context raises for a shredded user: the chunk fails, the contexts
\* unwrapped before that one stay cached.
UnwrapRaises(w, warmed) ==
    /\ worker[w].phase = "refused"
    /\ warmed \subseteq worker[w].ready
    /\ cache' = Caching(w, warmed)
    /\ Becomes(w, [worker[w] EXCEPT !.phase = "failing"])
    /\ UNCHANGED <<clock, source, registry, key, syncRun, run, topic, vault,
                   copy, dropped, faults>>

\* The rows whose value the batch adds to pii_vault under one natural key.
Added(k, records) == {row \in RowsOf(k) : <<row, k[3]>> \in records}

\* insert_with_retry appends one pii_vault row for each record.
Inserted(records) ==
    [k \in VaultKey |-> vault[k] + Cardinality(Added(k, records))]

\* Mutant: insert_with_retry does not return after a successful attempt.
InsertKeepsGoing(w) ==
    /\ worker[w].phase = "insert"
    /\ vault' = Inserted(Records(w))
    /\ UNCHANGED <<clock, source, registry, key, syncRun, run, topic, worker,
                   cache, copy, dropped, faults>>

InsertRecords(w) ==
    /\ worker[w].phase = "insert"
    /\ vault' = Inserted(Records(w))
    /\ Becomes(w, [worker[w] EXCEPT
           !.phase = IF Records(w) # {} /\ Resource(w) \in CopyOpted
                     THEN "copy" ELSE "report"])
    /\ UNCHANGED <<clock, source, registry, key, syncRun, run, topic, cache,
                   copy, dropped, faults>>

\* Mutant: every missing column is taken for encrypted.
CopyMissing(w) ==
    {[row |-> row,
      cipher |-> {f \in Fields : <<UserOf[row], f>> \in worker[w].missing},
      plain |-> {}] : row \in worker[w].rows}

\* The wide row of the encrypted copy: the columns this chunk encrypted for
\* the row's user, and the other columns as they were read.
CopyRows(w) ==
    LET cipher(row) == {f \in Fields : \E c \in Records(w) :
                           UserOf[c[1]] = UserOf[row] /\ c[2] = f} IN
    {[row |-> row, cipher |-> cipher(row),
      plain |-> {f \in Fields : <<row, f>> \in worker[w].cells} \ cipher(row)] :
        row \in {x \in worker[w].rows : cipher(x) # {}}}

AppendCopy(w) ==
    /\ worker[w].phase = "copy"
    /\ copy' = copy \cup CopyRows(w)
    /\ Becomes(w, [worker[w] EXCEPT !.phase = "report"])
    /\ UNCHANGED <<clock, source, registry, key, syncRun, run, topic, cache,
                   vault, dropped, faults>>

\* Best effort: the failure is logged and the chunk goes on.
AppendCopyFails(w) ==
    /\ worker[w].phase = "copy"
    /\ Fault("copy")
    /\ copy' \in {copy, copy \cup CopyRows(w)}
    /\ Becomes(w, [worker[w] EXCEPT !.phase = "report"])
    /\ UNCHANGED <<clock, source, registry, key, syncRun, run, topic, cache,
                   vault, dropped>>

-----------------------------------------------------------------------------
(* Failures inside the chunk                                               *)

\* A remote call before the insert raises.  batch-generate may have created
\* some of the keys all the same, and the contexts that KMS unwrapped before it
\* failed stay cached.
CallFails(w) ==
    /\ worker[w].phase \in {"registry", "source", "existing", "keys", "contexts",
                            "unwrap"}
    /\ Fault("vault")
    /\ IF worker[w].phase = "keys"
       THEN \E users \in SUBSET WorkUsers(w) : key' = WithKeys(users)
       ELSE UNCHANGED key
    /\ IF worker[w].phase = "unwrap"
       THEN \E warmed \in SUBSET worker[w].ready : cache' = Caching(w, warmed)
       ELSE UNCHANGED cache
    /\ Becomes(w, [worker[w] EXCEPT !.phase = "failing"])
    /\ UNCHANGED <<clock, source, registry, syncRun, run, topic, vault, copy,
                   dropped>>

\* Mutant: a failed insert is logged and the chunk goes on to its copy.
InsertSwallowed(w, landed) ==
    /\ worker[w].phase = "insert"
    /\ Records(w) # {}
    /\ landed \subseteq Records(w)
    /\ Fault("insert")
    /\ vault' = Inserted(landed)
    /\ Becomes(w, [worker[w] EXCEPT !.phase = "copy"])
    /\ UNCHANGED <<clock, source, registry, key, syncRun, run, topic, cache,
                   copy, dropped>>

\* The insert raises; any part of the batch may have landed.
InsertFails(w, landed) ==
    /\ worker[w].phase = "insert"
    /\ Records(w) # {}
    /\ landed \subseteq Records(w)
    /\ Fault("insert")
    /\ vault' = Inserted(landed)
    /\ Becomes(w, [worker[w] EXCEPT !.phase = "failing"])
    /\ UNCHANGED <<clock, source, registry, key, syncRun, run, topic, cache,
                   copy, dropped>>

-----------------------------------------------------------------------------
(* The outcome report and the answer                                       *)

\* One more report.  A chunk may fail for ever: the count of failures stops at
\* MaxReports, that of completed chunks is bounded by the faults that repeat one.
Progressed(w, completed, failed) ==
    LET r == worker[w].msg.run IN
    IF worker[w].msg.tracked
    THEN [syncRun EXCEPT ![r] = [syncRun[r] EXCEPT
             !.completed = syncRun[r].completed + completed,
             !.failed = IF syncRun[r].failed < MaxReports
                        THEN syncRun[r].failed + failed ELSE syncRun[r].failed]]
    ELSE syncRun

Idle(w) == Becomes(w, IdleWorker)

\* process_chunk reports "completed" (with a run_id) and returns.
ReportCompleted(w) ==
    /\ worker[w].phase = "report"
    /\ syncRun' = Progressed(w, 1, 0)
    /\ Becomes(w, [IdleWorker EXCEPT !.phase = "answer", !.msg = worker[w].msg])
    /\ UNCHANGED <<clock, source, registry, key, run, topic, cache, vault,
                   copy, dropped, faults>>

\* The progress request fails and its handler raises too (the module has no
\* name "logger"): the request answers 500 although the chunk is done.
ReportCompletedFails(w) ==
    /\ worker[w].phase = "report"
    /\ worker[w].msg.tracked
    /\ Fault("report")
    /\ syncRun' \in {syncRun, Progressed(w, 1, 0)}
    /\ Idle(w)
    /\ UNCHANGED <<clock, source, registry, key, run, topic, cache, vault,
                   copy, dropped>>

\* VaultClient's session repeats a POST whose answer was lost, and Key Vault
\* counts the chunk twice.
ReportCompletedTwice(w) ==
    /\ worker[w].phase = "report"
    /\ worker[w].msg.tracked
    /\ Fault("report")
    /\ syncRun' = Progressed(w, 2, 0)
    /\ Becomes(w, [IdleWorker EXCEPT !.phase = "answer", !.msg = worker[w].msg])
    /\ UNCHANGED <<clock, source, registry, key, run, topic, cache, vault,
                   copy, dropped>>

\* Mutant: a failed chunk is answered like a finished one.
FailureAcknowledged(w) ==
    /\ worker[w].phase = "failing"
    /\ syncRun' = Progressed(w, 0, 1)
    /\ topic' = topic \ {worker[w].msg}
    /\ Idle(w)
    /\ UNCHANGED <<clock, source, registry, key, run, cache, vault, copy,
                   dropped, faults>>

\* Mutant: a failed chunk is counted as completed.
FailureCompleted(w) ==
    /\ worker[w].phase = "failing"
    /\ syncRun' = Progressed(w, 1, 0)
    /\ Idle(w)
    /\ UNCHANGED <<clock, source, registry, key, run, topic, cache, vault,
                   copy, dropped, faults>>

\* process_chunk reports "failed" and re-raises: the request answers 500.
ReportFailed(w) ==
    /\ worker[w].phase = "failing"
    /\ syncRun' = Progressed(w, 0, 1)
    /\ Idle(w)
    /\ UNCHANGED <<clock, source, registry, key, run, topic, cache, vault,
                   copy, dropped, faults>>

ReportFailedFails(w) ==
    /\ worker[w].phase = "failing"
    /\ worker[w].msg.tracked
    /\ Fault("report")
    /\ Idle(w)
    /\ UNCHANGED <<clock, source, registry, key, syncRun, run, topic, cache,
                   vault, copy, dropped>>

\* 200: Pub/Sub forgets the message.
Answer(w) ==
    /\ worker[w].phase = "answer"
    /\ topic' = topic \ {worker[w].msg}
    /\ Idle(w)
    /\ UNCHANGED <<clock, source, registry, key, syncRun, run, cache, vault,
                   copy, dropped, faults>>

\* The answer is lost, or Pub/Sub delivers once more all the same.
AnswerLost(w) ==
    /\ worker[w].phase = "answer"
    /\ Fault("duplicate")
    /\ Idle(w)
    /\ UNCHANGED <<clock, source, registry, key, syncRun, run, topic, cache,
                   vault, copy, dropped>>

\* An instance dies with the requests it serves and its context cache.
InstanceDies(i) ==
    /\ \E w \in Workers : HostOf[w] = i /\ worker[w].phase # "idle"
    /\ Fault("crash")
    /\ worker' = [w \in Workers |-> IF HostOf[w] = i THEN IdleWorker ELSE worker[w]]
    /\ cache' = [cache EXCEPT ![i] = {}]
    /\ UNCHANGED <<clock, source, registry, key, syncRun, run, topic, vault,
                   copy, dropped>>

-----------------------------------------------------------------------------
WorkerStep(w) ==
    \/ ReadRegistry(w)
    \/ ReadSource(w)
    \/ ReadExisting(w)
    \/ CreateKeys(w)
    \/ \E answer \in SUBSET Users : FetchContexts(w, answer)
    \/ UnwrapContexts(w)
    \/ \E warmed \in SUBSET Users : UnwrapRaises(w, warmed)
    \/ InsertRecords(w)
    \/ AppendCopy(w)
    \/ ReportCompleted(w)
    \/ ReportFailed(w)
    \/ Answer(w)

WorkerFails(w) ==
    \/ CallFails(w)
    \/ \E answer \in SUBSET Users : FetchContextsOmits(w, answer)
    \/ \E landed \in SUBSET Records(w) : InsertFails(w, landed)
    \/ AppendCopyFails(w)
    \/ ReportCompletedFails(w)
    \/ ReportCompletedTwice(w)
    \/ ReportFailedFails(w)
    \/ AnswerLost(w)

WorkerNext ==
    \/ \E w \in Workers :
        \/ \E m \in topic : Deliver(w, m)
        \/ WorkerStep(w)
        \/ WorkerFails(w)
    \/ \E i \in Instances : InstanceDies(i)
=============================================================================
