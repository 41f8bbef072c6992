---------------------------- MODULE LandingZone ----------------------------
(***************************************************************************)
(* Bulk ingestion: customers upload files under inbound/ of the landing    *)
(* bucket; every instance polls it (GCSLandingZoneMonitor.poll_once, every *)
(* minute) and runs IngestionPipeline.process_file on what it lists.  The  *)
(* file is deleted after it was published, or moved to failed/.            *)
(* Instances do not coordinate: the bucket is all they share.              *)
(***************************************************************************)
EXTENDS Naturals, FiniteSets

CONSTANTS
    Uploads,     \* .csv and .json objects written to inbound/: one generation each
    Names,       \* blob names
    NameOf,      \* [Uploads -> Names]
    Json,        \* uploads whose name ends in .json
    Instances,   \* Cloud Run instances, each with one monitor
    Rows,        \* data rows of the uploads
    UploadOf,    \* [Rows -> Uploads]
    Fields,      \* columns
    Columns,     \* [Uploads -> SUBSET Fields]
    Cells,       \* [Rows -> SUBSET Fields]: columns with an acceptable value
    UserId,      \* the column "user_id"
    Email,       \* the column "email"
    Registered,  \* ENCRYPT columns of the landing table ({Email}: undeclared)
    MaxFaults,   \* bound on the number of failures in a behaviour
    Possible,    \* the kinds of failures considered
    NoUpload     \* "no object"

Kinds == {"registry", "download", "vault", "row", "publish", "delete", "move",
          "lineage", "crash"}

ASSUME LandingAssumption ==
    /\ IsFiniteSet(Uploads) /\ IsFiniteSet(Instances) /\ IsFiniteSet(Rows)
    /\ NoUpload \notin Uploads
    /\ NameOf \in [Uploads -> Names]
    /\ Json \subseteq Uploads
    /\ UploadOf \in [Rows -> Uploads]
    /\ Columns \in [Uploads -> SUBSET Fields]
    /\ Cells \in [Rows -> SUBSET Fields]
    /\ UserId \in Fields /\ Email \in Fields /\ Registered \subseteq Fields
    /\ MaxFaults \in Nat
    /\ Possible \subseteq Kinds

VARIABLES
    inbound,   \* [Names -> Uploads or NoUpload]: inbound/
    failed,    \* [Names -> Uploads or NoUpload]: failed/
    monitor,   \* [Instances -> MonitorState]
    temp,      \* [Instances -> Nat]: temporary files with plaintext in /tmp
    times,     \* [Rows -> Nat]: messages of a row on the PII topic
    reports,   \* <<instance, row>>: DATA_PROVISIONED_TO_SINK reports queued in
               \* VaultClient's executor
    sinks,     \* rows whose sink is registered with Key Vault
    recorded,  \* uploads whose DATA_READ event is on the lineage topic
    uploaded,  \* history: uploads made
    replaced,  \* history: uploads overwritten by the customer
    moved,     \* history: uploads copied to failed/
    skipped,   \* history: rows process_row gave up on
    faults     \* failures so far

vars == <<inbound, failed, monitor, temp, times, reports, sinks, recorded,
          uploaded, replaced, moved, skipped, faults>>

bucket == <<inbound, failed, uploaded, replaced, moved>>

Phase == {"asleep", "walking", "download", "read", "vault", "publish", "delete",
          "move", "moved"}

MonitorState == [phase: Phase,
                 listed: SUBSET Uploads,             \* blobs not looked at yet
                 blob: Uploads \cup {NoUpload},      \* the blob of the loop
                 content: Uploads \cup {NoUpload},   \* what was downloaded
                 fields: SUBSET Fields,              \* pii_field_names
                 left: SUBSET Rows]                  \* records not yet published

Asleep == [phase |-> "asleep", listed |-> {}, blob |-> NoUpload,
           content |-> NoUpload, fields |-> {}, left |-> {}]

-----------------------------------------------------------------------------
RowsIn(u) == {row \in Rows : UploadOf[row] = u}

SameName(u) == {v \in Uploads : NameOf[v] = NameOf[u]}

Becomes(i, state) == monitor' = [monitor EXCEPT ![i] = state]

GoesTo(i, phase) == Becomes(i, [monitor[i] EXCEPT !.phase = phase])

\* The next blob of the loop.
GoesOn(i) == Becomes(i, [Asleep EXCEPT !.phase = "walking",
                                       !.listed = monitor[i].listed])

\* An exception leaves poll_once: run_monitor logs it and sleeps.
Escapes(i) == Becomes(i, Asleep)

Fault(k) == /\ k \in Possible
            /\ faults < MaxFaults
            /\ faults' = faults + 1

Current(i) == inbound[NameOf[monitor[i].blob]]

-----------------------------------------------------------------------------
(* The customer                                                            *)

Upload(u) ==
    /\ u \notin uploaded
    /\ uploaded' = uploaded \cup {u}
    /\ replaced' = replaced \cup ({inbound[NameOf[u]]} \ {NoUpload})
    /\ inbound' = [inbound EXCEPT ![NameOf[u]] = u]
    /\ UNCHANGED <<failed, monitor, temp, times, reports, sinks, recorded, moved,
                   skipped, faults>>

-----------------------------------------------------------------------------
(* poll_once                                                               *)

Poll(i) ==
    /\ monitor[i].phase = "asleep"
    /\ Becomes(i, [Asleep EXCEPT
           !.phase = "walking",
           !.listed = {u \in Uploads : inbound[NameOf[u]] = u}])
    /\ UNCHANGED <<bucket, temp, times, reports, sinks, recorded, skipped, faults>>

Sleep(i) ==
    /\ monitor[i].phase = "walking"
    /\ monitor[i].listed = {}
    /\ Becomes(i, Asleep)
    /\ UNCHANGED <<bucket, temp, times, reports, sinks, recorded, skipped, faults>>

\* process_file starts with _resolve_registry_resource, which answers "email
\* only" when Key Vault cannot be reached.
Take(i, u) ==
    /\ monitor[i].phase = "walking"
    /\ u \in monitor[i].listed
    /\ \E fields \in {Registered, {Email}} :
          /\ Becomes(i, [Asleep EXCEPT !.phase = "download",
                             !.listed = monitor[i].listed \ {u},
                             !.blob = u, !.fields = fields])
          /\ IF fields = Registered THEN UNCHANGED faults ELSE Fault("registry")
    /\ UNCHANGED <<bucket, temp, times, reports, sinks, recorded, skipped>>

\* The download names the blob, not its generation: it may fetch a newer upload
\* than the one listed.
Download(i) ==
    /\ monitor[i].phase = "download"
    /\ Current(i) # NoUpload
    /\ Becomes(i, [monitor[i] EXCEPT !.phase = "read", !.content = Current(i)])
    /\ temp' = [temp EXCEPT ![i] = temp[i] + 1]
    /\ UNCHANGED <<bucket, times, reports, sinks, recorded, skipped, faults>>

\* Not found, or broken off with part of the file written.
DownloadFails(i) ==
    /\ monitor[i].phase = "download"
    /\ \/ /\ Current(i) = NoUpload
          /\ UNCHANGED <<temp, faults>>
       \/ /\ Current(i) # NoUpload
          /\ Fault("download")
          /\ temp' \in {temp, [temp EXCEPT ![i] = temp[i] + 1]}
    /\ GoesTo(i, "move")
    /\ UNCHANGED <<bucket, times, reports, sinks, recorded, skipped>>

\* The temporary file is called ".csv" whatever the blob is called, so that
\* newline-delimited JSON is read as CSV and has none of the columns.
ColumnsRead(u) == IF u \in Json THEN {} ELSE Columns[u]

Required(i) == monitor[i].fields \cup {UserId}

\* _cleanup
Cleanup(i) == temp' = [temp EXCEPT ![i] = temp[i] - 1]

\* The DATA_READ event is handed to the publisher, which may send it at any time.
MayRecord(i) == recorded' \in {recorded, recorded \cup {monitor[i].content}}

Read(i) ==
    /\ monitor[i].phase = "read"
    /\ Required(i) \subseteq ColumnsRead(monitor[i].content)
    /\ MayRecord(i)
    /\ GoesTo(i, "vault")
    /\ UNCHANGED <<bucket, temp, times, reports, sinks, skipped, faults>>

\* Mutant: the file is rejected without its cleanup.
RejectedUncleaned(i) ==
    /\ monitor[i].phase = "read"
    /\ ~(Required(i) \subseteq ColumnsRead(monitor[i].content))
    /\ MayRecord(i)
    /\ GoesTo(i, "move")
    /\ UNCHANGED <<bucket, temp, times, reports, sinks, skipped, faults>>

Rejected(i) ==
    /\ monitor[i].phase = "read"
    /\ ~(Required(i) \subseteq ColumnsRead(monitor[i].content))
    /\ MayRecord(i)
    /\ Cleanup(i)
    /\ GoesTo(i, "move")
    /\ UNCHANGED <<bucket, times, reports, sinks, skipped, faults>>

\* batch_create_keys or batch_get_encryption_contexts raises.
VaultFails(i) ==
    /\ monitor[i].phase = "vault"
    /\ Fault("vault")
    /\ GoesTo(i, "move")
    /\ UNCHANGED <<bucket, temp, times, reports, sinks, recorded, skipped>>

\* process_row accepts a row with a value in every protected column.
Acceptable(i) ==
    {row \in RowsIn(monitor[i].content) : monitor[i].fields \subseteq Cells[row]}

\* process_row skips a row on any exception, a user without an encryption
\* context included.  Each accepted row queues a lineage report.
ProcessRows(i, kept) ==
    /\ monitor[i].phase = "vault"
    /\ kept \subseteq Acceptable(i)
    /\ IF kept = Acceptable(i) THEN UNCHANGED faults ELSE Fault("row")
    /\ Becomes(i, [monitor[i] EXCEPT !.phase = "publish", !.left = kept])
    /\ skipped' = skipped \cup (RowsIn(monitor[i].content) \ kept)
    /\ reports' = reports \cup {<<i, row>> : row \in kept}
    /\ UNCHANGED <<bucket, temp, times, sinks, recorded>>

\* Mutant: a record that was sent stays in the batch.
PublishRowAgain(i, row) ==
    /\ monitor[i].phase = "publish"
    /\ row \in monitor[i].left
    /\ times' = [times EXCEPT ![row] = times[row] + 1]
    /\ UNCHANGED <<bucket, monitor, temp, reports, sinks, recorded, skipped, faults>>

\* Pub/Sub takes the records in any order.
PublishRow(i, row) ==
    /\ monitor[i].phase = "publish"
    /\ row \in monitor[i].left
    /\ times' = [times EXCEPT ![row] = times[row] + 1]
    /\ Becomes(i, [monitor[i] EXCEPT !.left = monitor[i].left \ {row}])
    /\ UNCHANGED <<bucket, temp, reports, sinks, recorded, skipped, faults>>

\* Every future has its result, the lineage events' too.
Published(i) ==
    /\ monitor[i].phase = "publish"
    /\ monitor[i].left = {}
    /\ recorded' = recorded \cup {monitor[i].content}
    /\ Cleanup(i)
    /\ GoesTo(i, "delete")
    /\ UNCHANGED <<bucket, times, reports, sinks, skipped, faults>>

\* Mutant: process_file swallows the exception, as it does in its row loop.
PublishFailsQuietly(i, landed) ==
    /\ monitor[i].phase = "publish"
    /\ landed \subseteq monitor[i].left
    /\ Fault("publish")
    /\ times' = [row \in Rows |-> times[row] + (IF row \in landed THEN 1 ELSE 0)]
    /\ MayRecord(i)
    /\ GoesTo(i, "delete")
    /\ UNCHANGED <<bucket, temp, reports, sinks, skipped>>

\* future.result() raises; some of the other records get through all the same.
PublishFails(i, landed) ==
    /\ monitor[i].phase = "publish"
    /\ landed \subseteq monitor[i].left
    /\ Fault("publish")
    /\ times' = [row \in Rows |-> times[row] + (IF row \in landed THEN 1 ELSE 0)]
    /\ MayRecord(i)
    /\ GoesTo(i, "move")
    /\ UNCHANGED <<bucket, temp, reports, sinks, skipped>>

\* blob.delete() is for the listed generation: not found if it was replaced.
Listed(i) == Current(i) = monitor[i].blob

Removed(i) == [inbound EXCEPT ![NameOf[monitor[i].blob]] = NoUpload]

Delete(i) ==
    /\ monitor[i].phase = "delete"
    /\ Listed(i)
    /\ inbound' = Removed(i)
    /\ GoesOn(i)
    /\ UNCHANGED <<failed, uploaded, replaced, moved, temp, times, reports, sinks,
                   recorded, skipped, faults>>

\* Not found, or an error, possibly after the blob is gone.
DeleteFails(i) ==
    /\ monitor[i].phase = "delete"
    /\ \/ ~Listed(i) /\ UNCHANGED <<inbound, faults>>
       \/ Listed(i) /\ Fault("delete") /\ inbound' \in {inbound, Removed(i)}
    /\ GoesTo(i, "move")
    /\ UNCHANGED <<failed, uploaded, replaced, moved, temp, times, reports, sinks,
                   recorded, skipped>>

-----------------------------------------------------------------------------
(* rename_blob: a copy, then a delete, outside the try                     *)

\* The copy takes whatever has that name now.
CopyTo(i) ==
    /\ failed' = [failed EXCEPT ![NameOf[monitor[i].blob]] = Current(i)]
    /\ moved' = moved \cup {Current(i)}

\* Mutant: the copy does not find out that the blob is gone.
MoveCopiesNothing(i) ==
    /\ monitor[i].phase = "move"
    /\ CopyTo(i)
    /\ GoesTo(i, "moved")
    /\ UNCHANGED <<inbound, uploaded, replaced, temp, times, reports, sinks,
                   recorded, skipped, faults>>

MoveCopies(i) ==
    /\ monitor[i].phase = "move"
    /\ Current(i) # NoUpload
    /\ CopyTo(i)
    /\ GoesTo(i, "moved")
    /\ UNCHANGED <<inbound, uploaded, replaced, temp, times, reports, sinks,
                   recorded, skipped, faults>>

\* Mutant: a file that cannot be ingested stays where it is.
MoveForgotten(i) ==
    /\ monitor[i].phase = "moved"
    /\ GoesOn(i)
    /\ UNCHANGED <<bucket, temp, times, reports, sinks, recorded, skipped, faults>>

MoveDeletes(i) ==
    /\ monitor[i].phase = "moved"
    /\ Listed(i)
    /\ inbound' = Removed(i)
    /\ GoesOn(i)
    /\ UNCHANGED <<failed, uploaded, replaced, moved, temp, times, reports, sinks,
                   recorded, skipped, faults>>

MoveFails(i) ==
    /\ \/ /\ monitor[i].phase = "move"
          /\ UNCHANGED inbound
          /\ \/ Current(i) = NoUpload /\ UNCHANGED <<failed, moved, faults>>
             \/ /\ Current(i) # NoUpload
                /\ Fault("move")
                /\ CopyTo(i) \/ UNCHANGED <<failed, moved>>
       \/ /\ monitor[i].phase = "moved"
          /\ UNCHANGED <<failed, moved>>
          /\ \/ ~Listed(i) /\ UNCHANGED <<inbound, faults>>
             \/ Listed(i) /\ Fault("move") /\ inbound' \in {inbound, Removed(i)}
    /\ Escapes(i)
    /\ UNCHANGED <<uploaded, replaced, temp, times, reports, sinks, recorded, skipped>>

-----------------------------------------------------------------------------
(* VaultClient.report_lineage only queues the report                       *)

ReportSink(i, row) ==
    /\ <<i, row>> \in reports
    /\ reports' = reports \ {<<i, row>>}
    /\ sinks' = sinks \cup {row}
    /\ UNCHANGED <<bucket, monitor, temp, times, recorded, skipped, faults>>

\* _do_report_lineage logs the error and forgets the event.
ReportSinkFails(i, row) ==
    /\ <<i, row>> \in reports
    /\ Fault("lineage")
    /\ reports' = reports \ {<<i, row>>}
    /\ UNCHANGED <<bucket, monitor, temp, times, sinks, recorded, skipped>>

\* An instance dies with its /tmp and its queue of reports, at work or asleep.
InstanceDies(i) ==
    /\ monitor[i].phase # "asleep" \/ temp[i] > 0 \/ \E row \in Rows : <<i, row>> \in reports
    /\ Fault("crash")
    /\ Becomes(i, Asleep)
    /\ temp' = [temp EXCEPT ![i] = 0]
    /\ reports' = {e \in reports : e[1] # i}
    /\ UNCHANGED <<bucket, times, sinks, recorded, skipped>>

-----------------------------------------------------------------------------
Init ==
    /\ inbound = [n \in Names |-> NoUpload]
    /\ failed = [n \in Names |-> NoUpload]
    /\ monitor = [i \in Instances |-> Asleep]
    /\ temp = [i \in Instances |-> 0]
    /\ times = [row \in Rows |-> 0]
    /\ reports = {} /\ sinks = {} /\ recorded = {}
    /\ uploaded = {} /\ replaced = {} /\ moved = {} /\ skipped = {}
    /\ faults = 0

\* The loop of run_monitor and poll_once, with the errors the loop itself makes.
Step(i) ==
    \/ Poll(i)
    \/ Sleep(i)
    \/ \E u \in Uploads : Take(i, u)
    \/ Download(i)
    \/ DownloadFails(i)
    \/ Read(i)
    \/ Rejected(i)
    \/ VaultFails(i)
    \/ \E kept \in SUBSET Rows : ProcessRows(i, kept)
    \/ \E row \in Rows : PublishRow(i, row)
    \/ Published(i)
    \/ \E landed \in SUBSET Rows : PublishFails(i, landed)
    \/ Delete(i)
    \/ DeleteFails(i)
    \/ MoveCopies(i)
    \/ MoveDeletes(i)
    \/ MoveFails(i)

Next ==
    \/ \E u \in Uploads : Upload(u)
    \/ \E i \in Instances : Step(i) \/ InstanceDies(i)
    \/ \E i \in Instances, row \in Rows : ReportSink(i, row) \/ ReportSinkFails(i, row)

Spec == Init /\ [][Next]_vars

\* run_monitor loops for ever and asyncio.sleep returns.
FairSpec == Spec /\ \A i \in Instances : WF_vars(Step(i))

-----------------------------------------------------------------------------
(* Properties                                                              *)

\* Every variable keeps its type.
TypeOK ==
    /\ inbound \in [Names -> Uploads \cup {NoUpload}]
    /\ failed \in [Names -> Uploads \cup {NoUpload}]
    /\ monitor \in [Instances -> MonitorState]
    /\ temp \in [Instances -> Nat]
    /\ times \in [Rows -> Nat]
    /\ reports \subseteq Instances \X Rows
    /\ sinks \subseteq Rows /\ skipped \subseteq Rows
    /\ recorded \subseteq Uploads /\ uploaded \subseteq Uploads
    /\ replaced \subseteq Uploads /\ moved \subseteq Uploads
    /\ faults \in 0..MaxFaults

\* The DATA_READ event and the records are out: what poll_once's comment calls
\* "a successful encrypt-and-publish".
Ingested(u) ==
    /\ u \in recorded
    /\ \A row \in RowsIn(u) : times[row] > 0 \/ row \in skipped

\* A file the customer did not replace leaves inbound/ only ingested or copied to
\* failed/, whatever other instances and later uploads of the same name do.
FilesKept ==
    \A u \in uploaded \ replaced :
        inbound[NameOf[u]] = u \/ u \in moved \/ Ingested(u)

\* What was copied to failed/ is there, or another failed file of its name is.
FailedKept == \A u \in moved : failed[NameOf[u]] \in moved \cap SameName(u)

\* A row that has its protected values is only given up if something failed.
RowsKept ==
    \A row \in skipped : Registered \cup {Email} \subseteq Cells[row] => faults > 0

\* Nothing of what the customer uploads is lost: neither a file that leaves
\* inbound/, nor one in failed/ except to another of its name, nor a good row
\* without a failure (gcs_monitor.py 26-53, ingestion.py 193-348).
NothingLost == FilesKept /\ FailedKept /\ RowsKept

\* A row reaches the PII topic again only for a reason: another instance at work
\* on the same file, a failure, or a listing made stale by another upload of the
\* same name, which each instance may have once.
RepublishBounded ==
    \A row \in Rows :
        times[row] <= faults + Cardinality(Instances)
                        * Cardinality(SameName(UploadOf[row]) \cap uploaded)

\* Every file leaves inbound/ in the end: a file that cannot be ingested, a file
\* taken by another instance or a failure never wedges the loop.
InboundEmpties ==
    \A u \in Uploads : u \in uploaded ~> inbound[NameOf[u]] # u

\* Plaintext copies do not pile up in an instance's /tmp: beside the file being
\* read there is at most one for each failure.  (process_file cleans up after a
\* file it rejects, and not after a failed Key Vault or Pub/Sub call.)
LeaksBounded ==
    \A i \in Instances :
        temp[i] <= faults + (IF monitor[i].phase \in {"read", "vault", "publish"}
                             THEN 1 ELSE 0)

\* A row on the PII topic has its sink registered with Key Vault, or a report on
\* the way, so that the shredding phase can find it.
SinkRegistered ==
    \A row \in Rows : times[row] > 0
        => row \in sinks \/ \E i \in Instances : <<i, row>> \in reports
=============================================================================
