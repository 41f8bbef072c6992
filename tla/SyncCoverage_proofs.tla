------------------------ MODULE SyncCoverage_proofs ------------------------
(***************************************************************************)
(* Machine-checked facts about what the sync covers: a time that the       *)
(* registry records for a resource never passes a value that is neither in *)
(* pii_vault nor on its way, the encrypted copy is never ahead of          *)
(* pii_vault, and the progress of a run is ahead of its chunks by no more  *)
(* than the failures that lost count of one.                               *)
(***************************************************************************)
EXTENDS PiiVaultSync_proofs

\* The value is in pii_vault, or an acknowledged chunk gave its user up.
Settled(row, f) ==
    \/ vault[<<ResourceOf[row], UserOf[row], f>>] > 0
    \/ <<ResourceOf[row], UserOf[row]>> \in dropped

Pledged(row, f) == Settled(row, f) \/ Carried(row, f)

\* The value was committed before time t, whatever its stamp says of the time.
Committed(row, f, t) == f \in source[row].filled /\ source[row].at + StampLag < t

PledgedBefore(q, t) ==
    \A row \in Rows, f \in Original[q] :
        ResourceOf[row] = q /\ Committed(row, f, t) => Pledged(row, f)

\* Incremental runs need stamps that are the commit times.
Exact(q) == q \in Stamped => StampLag = 0

-----------------------------------------------------------------------------
\* Time t is a time of the past before which nothing of q was missed.
Justified(q, t) == /\ t <= clock
                   /\ Exact(q) => PledgedBefore(q, t)

StillEncrypted == \A q \in Resources : Original[q] \subseteq registry[q].encrypt

FilledPresent == \A row \in Rows : source[row].filled # {} => source[row].present

\* A message that is published is new.
Numbered ==
    /\ \A r \in Runs : run[r].phase = "idle" => run[r].sent = 0
    /\ \A m \in topic : m.n < run[m.run].sent
    /\ \A w \in Workers : worker[w].phase # "idle"
                             => worker[w].msg.n < run[worker[w].msg.run].sent

\* The rows of resource q that were committed before time t are pledged, or are
\* among those still to be published.
Enumerated(q, t, todo) ==
    Exact(q) => \A row \in Rows, f \in Original[q] :
                   ResourceOf[row] = q /\ Committed(row, f, t)
                       => Pledged(row, f) \/ row \in todo

\* What run r has seen to so far.
RunJustified(r) ==
    /\ run[r].start <= clock
    /\ \A q \in Resources : Justified(q, run[r].since[q])
    /\ run[r].phase = "publish" => Enumerated(run[r].current, run[r].start, run[r].todo)
    /\ run[r].phase = "attempt" => Justified(run[r].current, run[r].start)

RegistryJustified ==
    \A q \in Resources : /\ Justified(q, registry[q].syncedAt)
                         /\ Justified(q, registry[q].attemptedAt)

CoverageInv ==
    /\ StillEncrypted /\ FilledPresent /\ Numbered
    /\ RegistryJustified
    /\ \A r \in Runs : RunJustified(r)

-----------------------------------------------------------------------------
(* A pledge is kept                                                        *)

\* A value that some chunk must see to, while the row has it.
Owed(row, f) == f \in Original[ResourceOf[row]] /\ f \in source[row].filled

\* A step of request w keeps a pledge if w goes on attending to the value or
\* settles it, and takes no message off the topic that it attends to.
LEMMA KeepsPledge ==
    ASSUME TypeInv, NEW w \in Workers, NEW state, Becomes(w, state), NEW row, NEW f,
           Pledged(row, f), Settled(row, f) => Settled(row, f)',
           \A m \in topic : m \in topic' \/ (m = worker[w].msg /\ ~Attends(w, row, f)),
           state.msg = worker[w].msg \/ state.phase \in {"idle", "registry"},
           Concerns(worker[w].msg, row) /\ Attends(w, row, f)
               => Attends(w, row, f)' \/ Settled(row, f)'
    PROVE  Pledged(row, f)'
<1>1. CASE Settled(row, f) \/ Settled(row, f)' BY <1>1 DEF Pledged
<1>2. CASE ~Settled(row, f) /\ ~Settled(row, f)'
  <2>1. PICK m \in topic : /\ Concerns(m, row)
                           /\ \A v \in Workers : worker[v].msg = m => Attends(v, row, f)
    BY <1>2 DEF Pledged, Carried
  <2>2. m \in topic' BY <2>1
  <2>3. worker' = [worker EXCEPT ![w] = state] /\ worker \in [Workers -> WorkerState]
    BY DEF Becomes, TypeInv, TypeOK
  <2>4. ASSUME NEW v \in Workers, worker'[v].msg = m PROVE Attends(v, row, f)'
    <3>1. CASE v # w BY <2>1, <2>3, <2>4, <3>1 DEF Attends, Records
    <3>2. CASE v = w /\ worker[w].msg = m BY <1>2, <2>1, <3>2
    <3>3. CASE v = w /\ worker[w].msg # m BY <2>3, <2>4, <3>3 DEF Attends
    <3> QED BY <3>1, <3>2, <3>3
  <2>5. Carried(row, f)' BY <2>1, <2>2, <2>4 DEF Carried, Concerns
  <2> QED BY <2>5 DEF Pledged
<1> QED BY <1>1, <1>2

\* A step that touches neither requests nor what is settled.
LEMMA PledgeStands ==
    ASSUME UNCHANGED <<worker, vault, dropped>>, topic \subseteq topic', NEW row, NEW f,
           Pledged(row, f)
    PROVE  Pledged(row, f)'
<1>1. \A w \in Workers : Attends(w, row, f) => Attends(w, row, f)' BY DEF Attends, Records
<1> QED BY <1>1 DEF Pledged, Settled, Carried, Concerns

\* A step that takes request w to another phase.
LEMMA MovesPledge ==
    ASSUME TypeInv, NEW w \in Workers, NEW phase, phase \in {"failing", "contexts"},
           phase = "contexts" => worker[w].phase = "keys",
           Becomes(w, [worker[w] EXCEPT !.phase = phase]), NEW row, NEW f,
           Pledged(row, f), UNCHANGED <<topic, vault, dropped>>
    PROVE  Pledged(row, f)'
<1> DEFINE state == [worker[w] EXCEPT !.phase = phase]
<1>1. worker[w] \in WorkerState BY RequestType
<1>2. /\ state.phase = phase /\ state.msg = worker[w].msg /\ state.cells = worker[w].cells
      /\ state.missing = worker[w].missing
  BY <1>1 DEF WorkerState
<1>3. Becomes(w, state) /\ worker \in [Workers -> WorkerState] BY DEF TypeInv, TypeOK
<1> HIDE DEF state
<1>4. worker'[w] = state BY <1>3 DEF Becomes
<1>5. Attends(w, row, f) => Attends(w, row, f)' BY <1>2, <1>4 DEF Attends
<1>6. Settled(row, f) => Settled(row, f)' BY DEF Settled
<1> QED BY <1>2, <1>3, <1>5, <1>6, KeepsPledge

LEMMA IdlesPledge ==
    ASSUME TypeInv, NEW w \in Workers, Idle(w), NEW row, NEW f, Pledged(row, f),
           UNCHANGED <<vault, dropped>>,
           topic' = topic \/ (topic' = topic \ {worker[w].msg} /\ worker[w].phase = "answer")
    PROVE  Pledged(row, f)'
<1>1. Becomes(w, IdleWorker) /\ worker \in [Workers -> WorkerState] BY DEF Idle, TypeInv, TypeOK
<1>2. IdleWorker.phase = "idle" BY DEF IdleWorker
<1>3. Attends(w, row, f)' BY <1>1, <1>2 DEF Becomes, Attends
<1>4. worker[w].phase = "answer" => ~Attends(w, row, f) BY DEF Attends
<1>5. Settled(row, f) => Settled(row, f)' BY DEF Settled
<1> QED BY <1>1, <1>2, <1>3, <1>4, <1>5, KeepsPledge

LEMMA DeliverPledge ==
    ASSUME TypeInv, NEW w \in Workers, NEW m, Deliver(w, m), NEW row, NEW f, Pledged(row, f)
    PROVE  Pledged(row, f)'
<1> DEFINE state == [worker[w] EXCEPT !.phase = "registry", !.msg = m]
<1>1. worker[w] \in WorkerState BY RequestType
<1>2. state.phase = "registry" BY <1>1 DEF WorkerState
<1>3. Becomes(w, state) /\ worker \in [Workers -> WorkerState] BY DEF Deliver, TypeInv, TypeOK
<1> HIDE DEF state
<1>4. Attends(w, row, f)' BY <1>2, <1>3 DEF Becomes, Attends
<1>5. Settled(row, f) => Settled(row, f)' BY DEF Settled, Deliver
<1> QED BY <1>2, <1>3, <1>4, <1>5, KeepsPledge DEF Deliver

\* _process_chunk_inner: a chunk whose resource is gone gives its users up, and
\* every column declared from the start is asked for.
LEMMA ReadRegistryPledge ==
    ASSUME TypeInv, StillEncrypted, NEW w \in Workers, ReadRegistry(w),
           NEW row \in Rows, NEW f, Owed(row, f), Pledged(row, f), ConstantsAssumption
    PROVE  Pledged(row, f)'
<1> DEFINE q == Resource(w)
           fields == registry[q].encrypt
           state == [worker[w] EXCEPT !.phase = "source", !.fields = fields]
           over == [worker[w] EXCEPT !.phase = "report"]
<1>1. worker[w] \in WorkerState /\ worker[w].phase = "registry" /\ UNCHANGED <<topic, vault>>
  BY RequestType DEF ReadRegistry
<1>2. Settled(row, f) => Settled(row, f)' BY <1>1 DEF Settled, ReadRegistry
<1>3. Concerns(worker[w].msg, row) => q = ResourceOf[row] /\ f \in fields
  BY DEF Concerns, Resource, Owed, StillEncrypted, ConstantsAssumption
<1>4. worker \in [Workers -> WorkerState] BY DEF TypeInv, TypeOK
<1>5. CASE Becomes(w, state)
  <2>1. state.phase = "source" /\ state.msg = worker[w].msg /\ state.fields = fields
    BY <1>1 DEF WorkerState
  <2> HIDE DEF state
  <2>2. worker'[w] = state BY <1>4, <1>5 DEF Becomes
  <2>3. Concerns(worker[w].msg, row) => Attends(w, row, f)' BY <1>3, <2>1, <2>2 DEF Attends
  <2> QED BY <1>1, <1>2, <1>5, <2>1, <2>3, KeepsPledge
<1>6. CASE ~(registry[q].declared /\ fields # {})
  <2>1. Becomes(w, over) /\ dropped' = dropped \cup ({q} \X worker[w].msg.users)
    BY <1>6 DEF ReadRegistry
  <2>2. over.msg = worker[w].msg BY <1>1 DEF WorkerState
  <2>3. Concerns(worker[w].msg, row) => Settled(row, f)' BY <1>3, <2>1 DEF Settled, Concerns
  <2> HIDE DEF over
  <2> QED BY <1>1, <1>2, <2>1, <2>2, <2>3, KeepsPledge
<1> QED BY <1>5, <1>6 DEF ReadRegistry

LEMMA ReadSourcePledge ==
    ASSUME TypeInv, FilledPresent, NEW w \in Workers, ReadSource(w),
           NEW row \in Rows, NEW f, Owed(row, f), Pledged(row, f)
    PROVE  Pledged(row, f)'
<1> DEFINE found == {x \in Rows : /\ ResourceOf[x] = Resource(w)
                                  /\ source[x].present
                                  /\ UserOf[x] \in worker[w].msg.users}
           cells == {c \in found \X worker[w].fields : c[2] \in source[c[1]].filled}
           phase == IF found = {} THEN "report" ELSE "existing"
           state == [worker[w] EXCEPT !.phase = phase, !.rows = found, !.cells = cells]
<1>1. worker[w] \in WorkerState /\ worker[w].phase = "source" /\ UNCHANGED <<topic, vault, dropped>>
  BY RequestType DEF ReadSource
<1>2. Settled(row, f) => Settled(row, f)' BY <1>1 DEF Settled
<1>3. Becomes(w, state) /\ worker \in [Workers -> WorkerState] BY DEF ReadSource, TypeInv, TypeOK
<1>4. Concerns(worker[w].msg, row) => row \in found
  BY DEF Concerns, Resource, Owed, FilledPresent
<1>5. Attends(w, row, f) => f \in worker[w].fields BY <1>1 DEF Attends
<1>6. Concerns(worker[w].msg, row) /\ Attends(w, row, f) => <<row, f>> \in cells
  BY <1>4, <1>5 DEF Owed
<1>7. Concerns(worker[w].msg, row) => phase = "existing" BY <1>4
<1> HIDE DEF found, cells, phase
<1>8. /\ state.phase = phase /\ state.msg = worker[w].msg /\ state.fields = worker[w].fields
      /\ state.rows = found /\ state.cells = cells
  BY <1>1 DEF WorkerState
<1> HIDE DEF state
<1>9. worker'[w] = state BY <1>3 DEF Becomes
<1>10. Concerns(worker[w].msg, row) /\ Attends(w, row, f) => Attends(w, row, f)'
  BY <1>4, <1>5, <1>6, <1>7, <1>8, <1>9 DEF Attends
<1> QED BY <1>1, <1>2, <1>3, <1>8, <1>10, KeepsPledge

\* The diff leaves a value out only if it is in pii_vault.
LEMMA ReadExistingPledge ==
    ASSUME TypeInv, NEW w \in Workers, ReadExisting(w),
           NEW row, NEW f, Pledged(row, f)
    PROVE  Pledged(row, f)'
<1> DEFINE missing == {p \in {UserOf[x] : x \in worker[w].rows} \X worker[w].fields :
                         ~AlreadySynced(Resource(w), p[1], p[2])}
           phase == IF missing = {} THEN "report" ELSE "keys"
           state == [worker[w] EXCEPT !.phase = phase, !.missing = missing]
<1>1. /\ worker[w] \in WorkerState /\ worker[w].phase = "existing"
      /\ UNCHANGED <<topic, vault, dropped>>
  BY RequestType DEF ReadExisting
<1>2. Settled(row, f) => Settled(row, f)' BY <1>1 DEF Settled
<1>3. Becomes(w, state) /\ worker \in [Workers -> WorkerState] BY DEF ReadExisting, TypeInv, TypeOK
<1>4. Attends(w, row, f) => row \in worker[w].rows /\ f \in worker[w].fields
                               /\ <<row, f>> \in worker[w].cells
  BY <1>1 DEF Attends
<1>5. Concerns(worker[w].msg, row) /\ Attends(w, row, f) /\ ~Settled(row, f)
         => <<UserOf[row], f>> \in missing
  BY <1>4 DEF Concerns, Resource, AlreadySynced, Settled
<1>6. <<UserOf[row], f>> \in missing => phase = "keys" OBVIOUS
<1> HIDE DEF missing, phase
<1>7. /\ state.phase = phase /\ state.msg = worker[w].msg
      /\ state.cells = worker[w].cells /\ state.missing = missing
  BY <1>1 DEF WorkerState
<1> HIDE DEF state
<1>8. worker'[w] = state BY <1>3 DEF Becomes
<1>9. Concerns(worker[w].msg, row) /\ Attends(w, row, f) => Attends(w, row, f)' \/ Settled(row, f)'
  BY <1>2, <1>4, <1>5, <1>6, <1>7, <1>8 DEF Attends
<1> QED BY <1>1, <1>2, <1>3, <1>7, <1>9, KeepsPledge

\* The contexts arrive, or the chunk is refused for a shredded user.
LEMMA FetchedPledge ==
    ASSUME TypeInv, NEW w \in Workers, NEW answer, Fetched(w, answer),
           worker[w].phase = "contexts", UNCHANGED <<topic, vault, dropped>>,
           NEW row, NEW f, Pledged(row, f)
    PROVE  Pledged(row, f)'
<1> DEFINE ready == Cached(w) \cup {u \in answer : key[u] = "active"}
           phase == IF \E u \in answer : key[u] = "shredded" THEN "refused" ELSE "unwrap"
           state == [worker[w] EXCEPT !.phase = phase, !.ready = ready]
<1>1. worker[w] \in WorkerState /\ phase \in {"refused", "unwrap"} BY RequestType
<1>2. Settled(row, f) => Settled(row, f)' BY DEF Settled
<1>3. Becomes(w, state) /\ worker \in [Workers -> WorkerState] BY DEF Fetched, TypeInv, TypeOK
<1> HIDE DEF ready, phase
<1>4. /\ state.phase = phase /\ state.msg = worker[w].msg
      /\ state.cells = worker[w].cells /\ state.missing = worker[w].missing
  BY <1>1 DEF WorkerState
<1> HIDE DEF state
<1>5. worker'[w] = state BY <1>3 DEF Becomes
<1>6. Attends(w, row, f) => Attends(w, row, f)' BY <1>1, <1>4, <1>5 DEF Attends
<1> QED BY <1>2, <1>3, <1>4, <1>6, KeepsPledge

\* A user without a context is given up.
LEMMA UnwrapPledge ==
    ASSUME TypeInv, NEW w \in Workers, UnwrapContexts(w),
           NEW row \in Rows, NEW f \in Fields, Pledged(row, f), ConstantsAssumption
    PROVE  Pledged(row, f)'
<1> DEFINE state == [worker[w] EXCEPT !.phase = "insert"]
<1>1. /\ worker[w] \in WorkerState /\ worker[w].phase = "unwrap"
      /\ UNCHANGED <<topic, vault>>
      /\ dropped' = dropped \cup ({Resource(w)} \X (WorkUsers(w) \ worker[w].ready))
  BY RequestType DEF UnwrapContexts
<1>2. Settled(row, f) => Settled(row, f)' BY <1>1 DEF Settled
<1>3. Becomes(w, state) /\ worker \in [Workers -> WorkerState]
  BY DEF UnwrapContexts, TypeInv, TypeOK
<1>4. Attends(w, row, f)
         => <<row, f>> \in worker[w].cells /\ <<UserOf[row], f>> \in worker[w].missing
  BY <1>1 DEF Attends
<1>5. Attends(w, row, f) => UserOf[row] \in WorkUsers(w)
  BY <1>4 DEF WorkUsers, ConstantsAssumption
<1>6. Concerns(worker[w].msg, row) /\ Attends(w, row, f) /\ UserOf[row] \notin worker[w].ready
         => Settled(row, f)'
  BY <1>1, <1>5 DEF Settled, Concerns, Resource
<1>7. /\ state.phase = "insert" /\ state.msg = worker[w].msg /\ state.ready = worker[w].ready
      /\ state.cells = worker[w].cells /\ state.missing = worker[w].missing
  BY <1>1 DEF WorkerState
<1> HIDE DEF state
<1>8. worker'[w] = state BY <1>3 DEF Becomes
<1>9. Attends(w, row, f) /\ UserOf[row] \in worker[w].ready => Attends(w, row, f)'
  BY <1>4, <1>7, <1>8 DEF Attends, Records
<1>10. \A m \in topic : m \in topic' BY <1>1
<1>11. Concerns(worker[w].msg, row) /\ Attends(w, row, f) => Attends(w, row, f)' \/ Settled(row, f)'
  BY <1>6, <1>9
<1> QED BY <1>2, <1>3, <1>7, <1>10, <1>11, KeepsPledge

LEMMA VaultGrows ==
    ASSUME ConstantsAssumption, TypeInv, NEW records, NEW k \in VaultKey
    PROVE  /\ vault[k] > 0 => Inserted(records)[k] > 0
           /\ \A row \in RowsOf(k) : <<row, k[3]>> \in records => Inserted(records)[k] > 0
<1>1. vault[k] \in Nat BY DEF TypeInv, TypeOK
<1>2. Cardinality(Added(k, records)) \in Nat /\ IsFiniteSet(Added(k, records))
  <2>1. Added(k, records) \subseteq RowsOf(k) BY DEF Added
  <2> QED BY <2>1, InsertedCount, FS_Subset
<1>3. Inserted(records)[k] = vault[k] + Cardinality(Added(k, records)) BY DEF Inserted
<1>4. ASSUME NEW row \in RowsOf(k), <<row, k[3]>> \in records
      PROVE  Inserted(records)[k] > 0
  <2>1. Added(k, records) # {} BY <1>4 DEF Added
  <2>2. Cardinality(Added(k, records)) # 0 BY <1>2, <2>1, FS_EmptySet
  <2> QED BY <1>1, <1>2, <1>3, <2>2
<1> QED BY <1>1, <1>2, <1>3, <1>4

LEMMA InsertPledge ==
    ASSUME ConstantsAssumption, TypeInv, NEW w \in Workers,
           InsertRecords(w) \/ \E landed \in SUBSET Records(w) : InsertFails(w, landed),
           NEW row \in Rows, NEW f \in Fields, Pledged(row, f)
    PROVE  Pledged(row, f)'
<1> DEFINE k == <<ResourceOf[row], UserOf[row], f>>
<1>1. worker[w] \in WorkerState /\ worker[w].phase = "insert" /\ UNCHANGED <<topic, dropped>>
  BY RequestType DEF InsertRecords, InsertFails
<1>2. k \in VaultKey /\ row \in RowsOf(k) /\ k[3] = f
  BY DEF ConstantsAssumption, VaultKey, RowsOf
<1>3. PICK records : vault' = Inserted(records) BY DEF InsertRecords, InsertFails
<1>4. Settled(row, f) => Settled(row, f)' BY <1>1, <1>2, <1>3, VaultGrows DEF Settled
<1>5. worker \in [Workers -> WorkerState] BY DEF TypeInv, TypeOK
<1>6. CASE InsertRecords(w)
  <2> DEFINE phase == IF Records(w) # {} /\ Resource(w) \in CopyOpted THEN "copy" ELSE "report"
             state == [worker[w] EXCEPT !.phase = phase]
  <2>1. Becomes(w, state) BY <1>6 DEF InsertRecords
  <2>2. state.msg = worker[w].msg BY <1>1 DEF WorkerState
  <2>3. Attends(w, row, f) => <<row, f>> \in Records(w) BY <1>1 DEF Attends
  <2>4. Attends(w, row, f) => Settled(row, f)'
    BY <1>2, <1>6, <2>3, VaultGrows DEF InsertRecords, Settled
  <2> HIDE DEF state
  <2> QED BY <1>1, <1>4, <2>1, <2>2, <2>4, KeepsPledge
<1>7. ASSUME NEW landed, InsertFails(w, landed) PROVE Pledged(row, f)'
  <2> DEFINE state == [worker[w] EXCEPT !.phase = "failing"]
  <2>1. Becomes(w, state) BY <1>7 DEF InsertFails
  <2>2. state.msg = worker[w].msg /\ state.phase = "failing" BY <1>1 DEF WorkerState
  <2> HIDE DEF state
  <2>3. Attends(w, row, f)' BY <1>5, <2>1, <2>2 DEF Becomes, Attends
  <2> QED BY <1>1, <1>4, <2>1, <2>2, <2>3, KeepsPledge
<1> QED BY <1>6, <1>7

LEMMA EndPledge ==
    ASSUME TypeInv, NEW w \in Workers, NEW row, NEW f, Pledged(row, f),
           AppendCopy(w) \/ AppendCopyFails(w) \/ ReportCompleted(w) \/ ReportCompletedTwice(w)
    PROVE  Pledged(row, f)'
<1>1. worker[w] \in WorkerState /\ worker[w].phase \in {"copy", "report"}
      /\ UNCHANGED <<topic, vault, dropped>>
  BY RequestType DEF AppendCopy, AppendCopyFails, ReportCompleted, ReportCompletedTwice
<1>2. ~Attends(w, row, f) BY <1>1 DEF Attends
<1>3. \E state : Becomes(w, state) /\ state.msg = worker[w].msg
  <2>1. [worker[w] EXCEPT !.phase = "report"].msg = worker[w].msg BY <1>1 DEF WorkerState
  <2>2. [IdleWorker EXCEPT !.phase = "answer", !.msg = worker[w].msg].msg = worker[w].msg
    BY DEF IdleWorker
  <2> QED BY <2>1, <2>2 DEF AppendCopy, AppendCopyFails, ReportCompleted, ReportCompletedTwice
<1>4. Settled(row, f) => Settled(row, f)' BY <1>1 DEF Settled
<1> QED BY <1>1, <1>2, <1>3, <1>4, KeepsPledge

LEMMA InstanceDiesPledge ==
    ASSUME TypeInv, NEW i, InstanceDies(i), NEW row, NEW f, Pledged(row, f)
    PROVE  Pledged(row, f)'
<1>1. /\ \A w \in Workers : worker'[w] = IdleWorker \/ worker'[w] = worker[w]
      /\ UNCHANGED <<topic, vault, dropped>>
  BY DEF InstanceDies
<1>2. IdleWorker.phase = "idle" BY DEF IdleWorker
<1>3. \A w \in Workers : \A m : (worker[w].msg = m => Attends(w, row, f))
                               => (worker'[w].msg = m => Attends(w, row, f)')
  BY <1>1, <1>2 DEF Attends, Records
<1> QED BY <1>1, <1>3 DEF Pledged, Settled, Carried, Concerns

\* Whatever happens, a value that the row still has stays settled or carried.
LEMMA PledgeStays ==
    ASSUME ConstantsAssumption, TypeInv, StillEncrypted, FilledPresent, [Next]_vars,
           NEW row \in Rows, NEW f \in Fields, Owed(row, f), Pledged(row, f)
    PROVE  Pledged(row, f)'
<1>1. CASE EnumerationNext
  <2>1. UNCHANGED <<worker, vault, dropped>> /\ topic \subseteq topic'
    BY <1>1 DEF EnumerationNext, Trigger, RunStep, RunFails, FetchRegistry,
       StartResource, Query, PublishChunk, MarkSynced, MarkAttempted, Finalize,
       FetchRegistryFails, PublishFails, QueryFails, MarkSyncedFails,
       MarkAttemptedFails, FinalizeFails, TriggerDies
  <2> QED BY <2>1, PledgeStands
<1>2. CASE Outside \/ Quiescent \/ UNCHANGED vars
  <2>1. UNCHANGED <<worker, vault, dropped, topic>>
    BY <1>2 DEF Outside, Tick, WriteRow, DeleteRow, Redeclare, AddField, Shred, Quiescent, vars
  <2> QED BY <2>1, PledgeStands
<1>3. ASSUME NEW w \in Workers, NEW m \in topic, Deliver(w, m) PROVE Pledged(row, f)'
  BY <1>3, DeliverPledge
<1>4. ASSUME NEW i \in Instances, InstanceDies(i) PROVE Pledged(row, f)'
  BY <1>4, InstanceDiesPledge
<1>5. ASSUME NEW w \in Workers, WorkerStep(w) \/ WorkerFails(w) PROVE Pledged(row, f)'
  <2>1. CASE ReadRegistry(w) BY <2>1, ReadRegistryPledge
  <2>2. CASE ReadSource(w) BY <2>2, ReadSourcePledge
  <2>3. CASE ReadExisting(w) BY <2>3, ReadExistingPledge
  <2>4. CASE CreateKeys(w) \/ CallFails(w)
    <3>1. UNCHANGED <<topic, vault, dropped>> BY <2>4 DEF CreateKeys, CallFails
    <3>2. \/ worker[w].phase = "keys" /\ Becomes(w, [worker[w] EXCEPT !.phase = "contexts"])
          \/ Becomes(w, [worker[w] EXCEPT !.phase = "failing"])
      BY <2>4 DEF CreateKeys, CallFails
    <3> QED BY <3>1, <3>2, MovesPledge
  <2>5. CASE \E answer \in SUBSET Users : FetchContexts(w, answer) \/ FetchContextsOmits(w, answer)
    BY <2>5, FetchedPledge DEF FetchContexts, FetchContextsOmits
  <2>6. CASE \E warmed \in SUBSET Users : UnwrapRaises(w, warmed)
    BY <2>6, MovesPledge DEF UnwrapRaises
  <2>10. CASE UnwrapContexts(w) BY <2>10, UnwrapPledge
  <2>7. CASE InsertRecords(w) \/ \E landed \in SUBSET Records(w) : InsertFails(w, landed)
    BY <2>7, InsertPledge
  <2>8. CASE AppendCopy(w) \/ AppendCopyFails(w) \/ ReportCompleted(w) \/ ReportCompletedTwice(w)
    BY <2>8, EndPledge
  <2>9. CASE ReportFailed(w) \/ ReportFailedFails(w) \/ ReportCompletedFails(w) \/ AnswerLost(w)
             \/ Answer(w)
    BY <2>9, IdlesPledge DEF ReportFailed, ReportFailedFails, ReportCompletedFails, AnswerLost, Answer
  <2> QED
    BY <1>5, <2>1, <2>2, <2>3, <2>4, <2>5, <2>6, <2>7, <2>8, <2>9, <2>10
    DEF WorkerStep, WorkerFails
<1> QED BY <1>1, <1>2, <1>3, <1>4, <1>5 DEF Next, WorkerNext

-----------------------------------------------------------------------------
(* Times of the past stay justified                                        *)

\* Neither triggers nor chunk requests write to the source tables.
LEMMA TablesStand ==
    ASSUME EnumerationNext \/ WorkerNext
    PROVE  UNCHANGED <<clock, source>>
<1>1. ASSUME NEW r \in Runs, RunStep(r) PROVE UNCHANGED <<clock, source>>
  BY <1>1 DEF RunStep, FetchRegistry, StartResource, Query, PublishChunk, MarkSynced,
     MarkAttempted, Finalize
<1>2. ASSUME NEW r \in Runs, RunFails(r) PROVE UNCHANGED <<clock, source>>
  BY <1>2 DEF RunFails, FetchRegistryFails, PublishFails, QueryFails, MarkSyncedFails,
     MarkAttemptedFails, FinalizeFails, TriggerDies
<1>3. ASSUME NEW w \in Workers, WorkerStep(w) PROVE UNCHANGED <<clock, source>>
  BY <1>3 DEF WorkerStep, ReadRegistry, ReadSource, ReadExisting, CreateKeys,
     FetchContexts, UnwrapContexts, UnwrapRaises, InsertRecords, AppendCopy, ReportCompleted,
     ReportFailed, Answer
<1>4. ASSUME NEW w \in Workers, WorkerFails(w) PROVE UNCHANGED <<clock, source>>
  BY <1>4 DEF WorkerFails, CallFails, FetchContextsOmits, InsertFails, AppendCopyFails,
     ReportCompletedFails, ReportCompletedTwice, ReportFailedFails, AnswerLost
<1> QED BY <1>1, <1>2, <1>3, <1>4 DEF EnumerationNext, WorkerNext, Trigger, Deliver, InstanceDies

LEMMA ClockGrows ==
    ASSUME ConstantsAssumption, TypeInv, [Next]_vars
    PROVE  clock \in Nat /\ clock' \in Nat /\ clock <= clock'
<1>1. clock \in Nat BY DEF TypeInv, TypeOK, ConstantsAssumption, Time
<1>2. CASE EnumerationNext \/ WorkerNext BY <1>1, <1>2, TablesStand
<1>3. CASE Tick BY <1>1, <1>3 DEF Tick
<1>4. CASE (Outside /\ ~Tick) \/ Quiescent \/ UNCHANGED vars
  <2>1. clock' = clock
    BY <1>4 DEF Outside, WriteRow, DeleteRow, Redeclare, AddField, Shred, Quiescent, vars
  <2> QED BY <1>1, <2>1
<1> QED BY <1>2, <1>3, <1>4 DEF Next

LEMMA SourceStands ==
    ASSUME [Next]_vars
    PROVE  \/ UNCHANGED source
           \/ \E row \in Rows, filled \in SUBSET Fields, at \in Time : WriteRow(row, filled, at)
           \/ \E row \in Rows : DeleteRow(row)
<1>1. CASE EnumerationNext \/ WorkerNext BY <1>1, TablesStand
<1>2. CASE Outside \/ Quiescent \/ UNCHANGED vars
  BY <1>2 DEF Outside, Tick, Redeclare, AddField, Shred, Quiescent, vars
<1> QED BY <1>1, <1>2 DEF Next

\* A value committed before a time of the past was committed already: a write
\* is stamped at most StampLag before the clock.
LEMMA CommittedBack ==
    ASSUME ConstantsAssumption, TypeInv, [Next]_vars, NEW row \in Rows, NEW f,
           NEW t \in Nat, t <= clock, Committed(row, f, t)'
    PROVE  Committed(row, f, t)
<1>1. clock \in Nat /\ StampLag \in Nat /\ source \in [Rows -> SourceRow]
  BY DEF TypeInv, TypeOK, ConstantsAssumption, Time
<1>2. CASE UNCHANGED source BY <1>2 DEF Committed
<1>3. ASSUME NEW x \in Rows, NEW filled \in SUBSET Fields, NEW at \in Time,
             WriteRow(x, filled, at)
      PROVE  Committed(row, f, t)
  <2>1. at \in Nat /\ at + StampLag >= clock BY <1>3 DEF WriteRow, Time, ConstantsAssumption
  <2>2. source' = [source EXCEPT ![x] = [present |-> TRUE, at |-> at, filled |-> filled]]
    BY <1>3 DEF WriteRow
  <2>3. CASE row = x
    <3>1. source'[row].at = at BY <1>1, <2>2, <2>3
    <3>2. at + StampLag < t BY <3>1 DEF Committed
    <3> QED BY <1>1, <2>1, <3>2
  <2>4. CASE row # x
    <3>1. source'[row] = source[row] BY <1>1, <2>2, <2>4
    <3> QED BY <3>1 DEF Committed
  <2> QED BY <2>3, <2>4
<1>4. ASSUME NEW x \in Rows, DeleteRow(x) PROVE Committed(row, f, t)
  <2>1. source' = [source EXCEPT ![x] = NoRow] BY <1>4 DEF DeleteRow
  <2>2. CASE row = x
    <3>1. source'[row].filled = {} BY <1>1, <2>1, <2>2 DEF NoRow
    <3> QED BY <3>1 DEF Committed
  <2>3. CASE row # x
    <3>1. source'[row] = source[row] BY <1>1, <2>1, <2>3
    <3> QED BY <3>1 DEF Committed
  <2> QED BY <2>2, <2>3
<1> QED BY <1>2, <1>3, <1>4, SourceStands

LEMMA PledgedBack ==
    ASSUME ConstantsAssumption, TypeInv, StillEncrypted, FilledPresent, [Next]_vars,
           NEW q \in Resources, NEW t \in Nat, t <= clock,
           NEW row \in Rows, NEW f \in Original[q], ResourceOf[row] = q, Committed(row, f, t)'
    PROVE  Committed(row, f, t) /\ (Pledged(row, f) => Pledged(row, f)')
<1>1. Committed(row, f, t) BY CommittedBack
<1>2. f \in Fields BY DEF ConstantsAssumption
<1>3. Owed(row, f) BY <1>1 DEF Owed, Committed
<1> QED BY <1>1, <1>2, <1>3, PledgeStays

LEMMA StaysJustified ==
    ASSUME ConstantsAssumption, TypeInv, StillEncrypted, FilledPresent, [Next]_vars,
           NEW q \in Resources, NEW t \in Time, Justified(q, t)
    PROVE  Justified(q, t)'
<1>1. t \in Nat BY DEF Time, ConstantsAssumption
<1>2. t <= clock /\ clock \in Nat /\ clock' \in Nat /\ clock <= clock'
  BY ClockGrows DEF Justified
<1>3. t <= clock' BY <1>1, <1>2
<1>4. ASSUME Exact(q), NEW row \in Rows, NEW f \in Original[q],
             ResourceOf[row] = q, Committed(row, f, t)'
      PROVE  Pledged(row, f)'
  <2>1. Committed(row, f, t) /\ (Pledged(row, f) => Pledged(row, f)')
    BY <1>1, <1>2, <1>4, PledgedBack
  <2> QED BY <1>4, <2>1 DEF Justified, PledgedBefore
<1> QED BY <1>3, <1>4 DEF Justified, PledgedBefore, Exact

LEMMA StaysEnumerated ==
    ASSUME ConstantsAssumption, TypeInv, StillEncrypted, FilledPresent, [Next]_vars,
           NEW q \in Resources, NEW t \in Time, t <= clock, NEW todo, Enumerated(q, t, todo)
    PROVE  Enumerated(q, t, todo)'
<1>1. t \in Nat BY DEF Time, ConstantsAssumption
<1> SUFFICES ASSUME Exact(q), NEW row \in Rows, NEW f \in Original[q],
                    ResourceOf[row] = q, Committed(row, f, t)'
             PROVE  Pledged(row, f)' \/ row \in todo
  BY DEF Enumerated, Exact
<1>2. Committed(row, f, t) /\ (Pledged(row, f) => Pledged(row, f)')
  BY <1>1, PledgedBack
<1> QED BY <1>2 DEF Enumerated

LEMMA ZeroJustified ==
    ASSUME ConstantsAssumption, TypeInv, NEW q \in Resources
    PROVE  Justified(q, 0)
<1>1. clock \in Nat BY DEF TypeInv, TypeOK, Time, ConstantsAssumption
<1>2. ASSUME NEW row \in Rows, NEW f PROVE ~Committed(row, f, 0)
  <2>1. source[row].at \in Nat /\ StampLag \in Nat
    BY DEF TypeInv, TypeOK, SourceRow, Time, ConstantsAssumption
  <2> QED BY <2>1 DEF Committed
<1> QED BY <1>1, <1>2 DEF Justified, PledgedBefore

LEMMA RunStays ==
    ASSUME ConstantsAssumption, TypeInv, StillEncrypted, FilledPresent, [Next]_vars,
           NEW r \in Runs, run'[r] = run[r], RunJustified(r)
    PROVE  RunJustified(r)'
<1>1. /\ run[r].start \in Time /\ \A q \in Resources : run[r].since[q] \in Time
      /\ run[r].phase \in {"publish", "attempt"} => run[r].current \in Resources
  BY DEF TypeInv, TypeOK, Consistent, RunsConsistent, RunState
<1>2. run'[r].start <= clock'
  <2>1. run[r].start \in Nat BY <1>1 DEF Time, ConstantsAssumption
  <2>2. run[r].start <= clock /\ clock \in Nat /\ clock' \in Nat /\ clock <= clock'
    BY ClockGrows DEF RunJustified
  <2> QED BY <2>1, <2>2
<1>3. ASSUME NEW q \in Resources PROVE Justified(q, run[r].since[q])'
  BY <1>1, StaysJustified DEF RunJustified
<1>4. run'[r].phase = "publish" => Enumerated(run[r].current, run[r].start, run[r].todo)'
  BY <1>1, StaysEnumerated DEF RunJustified
<1>5. run'[r].phase = "attempt" => Justified(run[r].current, run[r].start)'
  BY <1>1, StaysJustified DEF RunJustified
<1> QED BY <1>2, <1>3, <1>4, <1>5 DEF RunJustified

\* A step that leaves every time in the registry justified.
LEMMA RegistryStays ==
    ASSUME ConstantsAssumption, TypeInv, StillEncrypted, FilledPresent, [Next]_vars,
           \A q \in Resources :
               /\ registry'[q].syncedAt \in Time /\ Justified(q, registry'[q].syncedAt)
               /\ registry'[q].attemptedAt \in Time /\ Justified(q, registry'[q].attemptedAt)
    PROVE  RegistryJustified'
<1> SUFFICES ASSUME NEW q \in Resources
             PROVE  Justified(q, registry[q].syncedAt)' /\ Justified(q, registry[q].attemptedAt)'
  BY DEF RegistryJustified
<1>1. \A t \in Time : Justified(q, t) => Justified(q, t)' BY StaysJustified
<1> QED BY <1>1

LEMMA RegistryTimes ==
    ASSUME TypeInv, RegistryJustified, NEW q \in Resources
    PROVE  /\ registry[q].syncedAt \in Time /\ Justified(q, registry[q].syncedAt)
           /\ registry[q].attemptedAt \in Time /\ Justified(q, registry[q].attemptedAt)
BY DEF TypeInv, TypeOK, Declaration, RegistryJustified

\* A step of run r that leaves the registry as justified as before, or less far.
LEMMA RunMoves ==
    ASSUME ConstantsAssumption, TypeInv, CoverageInv, [Next]_vars,
           NEW r \in Runs, NEW state, RunBecomes(r, state),
           UNCHANGED <<clock, source, worker, vault, dropped>>,
           \* its messages
           topic \subseteq topic',
           \A m \in topic' : m \in topic \/ (m.run = r /\ m.n < state.sent),
           state.phase # "idle", state.sent >= run[r].sent,
           \* its times
           state.start <= clock,
           \A q \in Resources : Justified(q, state.since[q]),
           state.phase = "publish" =>
               Enumerated(run[r].current, run[r].start, run[r].todo)',
           state.phase = "attempt" => state.current \in Resources
                   /\ Justified(state.current, state.start),
           \* the registry's times
           \A q \in Resources :
               /\ registry'[q].encrypt = registry[q].encrypt
               /\ registry'[q].syncedAt \in Time /\ Justified(q, registry'[q].syncedAt)
               /\ registry'[q].attemptedAt \in Time /\ Justified(q, registry'[q].attemptedAt)
    PROVE  CoverageInv'
<1> USE DEF CoverageInv
<1>1. run' = [run EXCEPT ![r] = state] /\ run'[r] = state /\ run \in [Runs -> RunState]
      /\ state \in RunState
  BY NextType DEF RunBecomes, TypeInv, TypeOK
<1>2. StillEncrypted' /\ FilledPresent' BY DEF StillEncrypted, FilledPresent
<1>3. Numbered'
  <2>1. \A v \in Runs : run[v].sent \in Nat /\ run'[v].sent \in Nat /\ run'[v].sent >= run[v].sent
    BY <1>1 DEF RunState
  <2>2. ASSUME NEW v \in Runs, run'[v].phase = "idle" PROVE run'[v].sent = 0
    BY <1>1, <2>2 DEF Numbered
  <2>3. ASSUME NEW m \in topic' PROVE m.n < run'[m.run].sent
    <3>1. CASE m \in topic
      <4>1. m.run \in Runs /\ m.n \in Nat BY <3>1 DEF TypeInv, TypeOK, Message
      <4>2. m.n < run[m.run].sent BY <3>1 DEF Numbered
      <4> QED BY <2>1, <4>1, <4>2
    <3> QED BY <1>1, <2>3, <3>1
  <2>4. ASSUME NEW w \in Workers, worker'[w].phase # "idle"
        PROVE  worker'[w].msg.n < run'[worker'[w].msg.run].sent
    <3>1. worker[w].msg.run \in Runs /\ worker[w].msg.n \in Nat
      BY <2>4, BusyType DEF Message
    <3>2. worker[w].msg.n < run[worker[w].msg.run].sent BY <2>4 DEF Numbered
    <3> QED BY <2>1, <3>1, <3>2
  <2> QED BY <2>2, <2>3, <2>4 DEF Numbered
<1>4. RegistryJustified' BY RegistryStays
<1>5. ASSUME NEW v \in Runs PROVE RunJustified(v)'
  <2>1. CASE v # r BY <1>1, <2>1, RunStays
  <2>2. CASE v = r
    <3>1. \A q \in Resources, t \in Time : Justified(q, t) => Justified(q, t)'
      BY StaysJustified
    <3>2. \A q \in Resources : Justified(q, run[r].since[q])'
      BY <1>1, <3>1 DEF RunState
    <3>3. run'[r].phase = "attempt" => Justified(run[r].current, run[r].start)'
      BY <1>1, <3>1 DEF RunState
    <3> QED BY <1>1, <2>2, <3>2, <3>3 DEF RunJustified
  <2> QED BY <2>1, <2>2
<1> QED BY <1>2, <1>3, <1>4, <1>5

\* The same of a step that leaves the registry alone.
LEMMA RunMovesOn ==
    ASSUME ConstantsAssumption, TypeInv, CoverageInv, [Next]_vars,
           NEW r \in Runs, NEW state, RunBecomes(r, state),
           UNCHANGED <<clock, source, registry, worker, vault, dropped>>,
           topic \subseteq topic',
           \A m \in topic' : m \in topic \/ (m.run = r /\ m.n < state.sent),
           state.phase # "idle", state.sent >= run[r].sent,
           state.start <= clock,
           \A q \in Resources : Justified(q, state.since[q]),
           state.phase \notin {"publish", "attempt"}
    PROVE  CoverageInv'
<1>1. \A q \in Resources :
         /\ registry[q].syncedAt \in Time /\ Justified(q, registry[q].syncedAt)
         /\ registry[q].attemptedAt \in Time /\ Justified(q, registry[q].attemptedAt)
  BY RegistryTimes DEF CoverageInv
<1> QED BY <1>1, RunMoves

\* What the invariant says of the times of a run.
LEMMA RunTimes ==
    ASSUME ConstantsAssumption, TypeInv, CoverageInv, NEW r \in Runs
    PROVE  /\ run[r] \in RunState
           /\ run[r].start \in Nat /\ run[r].start <= clock /\ run[r].sent \in Nat
           /\ clock \in Nat /\ clock \in Time
           /\ \A q \in Resources : Justified(q, run[r].since[q])
           /\ run[r].phase \in {"query", "publish", "attempt"} => run[r].current \in Resources
BY DEF TypeInv, TypeOK, Consistent, RunsConsistent, RunState, ConstantsAssumption, Time,
       CoverageInv, RunJustified

LEMMA AdvanceMoves ==
    ASSUME ConstantsAssumption, TypeInv, CoverageInv, [Next]_vars,
           NEW r \in Runs, NEW queued, NEW sent \in Nat, Advance(r, queued, sent),
           UNCHANGED <<clock, source, worker, vault, dropped>>,
           topic \subseteq topic',
           \A m \in topic' : m \in topic \/ (m.run = r /\ m.n < run[r].sent + sent),
           run[r].phase # "idle",
           \A q \in Resources :
               /\ registry'[q].encrypt = registry[q].encrypt
               /\ registry'[q].syncedAt \in Time /\ Justified(q, registry'[q].syncedAt)
               /\ registry'[q].attemptedAt \in Time /\ Justified(q, registry'[q].attemptedAt)
    PROVE  CoverageInv'
<1> DEFINE state == [run[r] EXCEPT
                        !.phase = "next",
                        !.pending = run[r].pending \ {run[r].current},
                        !.current = NoResource,
                        !.start = 0,
                        !.todo = {},
                        !.count = 0,
                        !.total = run[r].total + queued,
                        !.sent = run[r].sent + sent]
<1>1. /\ run[r] \in RunState /\ run[r].sent \in Nat /\ clock \in Nat
      /\ \A q \in Resources : Justified(q, run[r].since[q])
  BY RunTimes
<1>2. RunBecomes(r, state) BY DEF Advance
<1>3. /\ state.phase = "next" /\ state.start = 0 /\ state.sent = run[r].sent + sent
      /\ state.since = run[r].since
  BY <1>1 DEF RunState
<1> HIDE DEF state
<1> QED BY <1>1, <1>2, <1>3, RunMoves

LEMMA StopMoves ==
    ASSUME ConstantsAssumption, TypeInv, CoverageInv, [Next]_vars, NEW r \in Runs, Stop(r),
           UNCHANGED <<clock, source, registry, topic, worker, vault, dropped>>
    PROVE  CoverageInv'
<1> DEFINE state == [IdleRun EXCEPT !.phase = "done", !.tracked = run[r].tracked,
                                    !.sent = run[r].sent]
<1>1. run[r].sent \in Nat /\ clock \in Nat BY RunTimes
<1>2. RunBecomes(r, state) BY DEF Stop
<1>3. /\ state.phase = "done" /\ state.start = 0 /\ state.sent = run[r].sent
      /\ \A q \in Resources : state.since[q] = 0
  BY DEF IdleRun
<1>4. \A q \in Resources : Justified(q, state.since[q]) BY <1>3, ZeroJustified
<1> HIDE DEF state
<1> QED BY <1>1, <1>2, <1>3, <1>4, RunMovesOn

LEMMA TriggerCovers ==
    ASSUME ConstantsAssumption, TypeInv, CoverageInv, [Next]_vars, NEW r \in Runs,
           NEW asked, NEW force, Trigger(r, asked, force)
    PROVE  CoverageInv'
<1>1. PICK tracked \in BOOLEAN :
         RunBecomes(r, [IdleRun EXCEPT !.phase = "fetch", !.asked = asked,
                               !.force = force, !.tracked = tracked])
  BY DEF Trigger
<1> DEFINE state == [IdleRun EXCEPT !.phase = "fetch", !.asked = asked,
                         !.force = force, !.tracked = tracked]
<1>2. /\ state.phase = "fetch" /\ state.start = 0 /\ state.sent = 0
      /\ \A q \in Resources : state.since[q] = 0
  BY DEF IdleRun
<1>3. \A q \in Resources : Justified(q, state.since[q]) BY <1>2, ZeroJustified
<1>4. run[r].sent = 0 BY DEF Trigger, CoverageInv, Numbered
<1>5. clock \in Nat BY RunTimes
<1>6. RunBecomes(r, state) BY <1>1
<1> HIDE DEF state
<1> QED BY <1>2, <1>3, <1>4, <1>5, <1>6, RunMovesOn DEF Trigger

LEMMA FetchRegistryCovers ==
    ASSUME ConstantsAssumption, TypeInv, CoverageInv, [Next]_vars, NEW r \in Runs,
           FetchRegistry(r)
    PROVE  CoverageInv'
<1> DEFINE since == [q \in Resources |-> registry[q].syncedAt]
           state == [run[r] EXCEPT !.phase = "next", !.asked = NoResource, !.since = since,
                         !.pending = {q \in Asked(r) : Enumerable(q)}]
<1>1. run[r] \in RunState /\ run[r].sent \in Nat /\ run[r].start <= clock BY RunTimes
<1>2. RunBecomes(r, state) BY DEF FetchRegistry
<1>3. /\ state.phase = "next" /\ state.start = run[r].start /\ state.sent = run[r].sent
      /\ state.since = since
  BY <1>1 DEF RunState
<1>4. \A q \in Resources : Justified(q, state.since[q])
  BY <1>3, RegistryTimes DEF CoverageInv
<1> HIDE DEF state
<1> QED BY <1>1, <1>2, <1>3, <1>4, RunMovesOn DEF FetchRegistry

LEMMA FetchRegistryFailsCovers ==
    ASSUME ConstantsAssumption, TypeInv, CoverageInv, [Next]_vars, NEW r \in Runs,
           FetchRegistryFails(r)
    PROVE  CoverageInv'
<1> DEFINE state == [run[r] EXCEPT !.phase = "next", !.asked = NoResource]
<1>1. /\ run[r] \in RunState /\ run[r].sent \in Nat /\ run[r].start <= clock
      /\ \A q \in Resources : Justified(q, run[r].since[q])
  BY RunTimes
<1>2. CASE Stop(r) BY <1>2, StopMoves DEF FetchRegistryFails
<1>3. CASE RunBecomes(r, state)
  <2>1. /\ state.phase = "next" /\ state.start = run[r].start /\ state.sent = run[r].sent
        /\ state.since = run[r].since
    BY <1>1 DEF RunState
  <2> HIDE DEF state
  <2> QED BY <1>1, <1>3, <2>1, RunMovesOn DEF FetchRegistryFails
<1> QED BY <1>2, <1>3 DEF FetchRegistryFails

LEMMA StartResourceCovers ==
    ASSUME ConstantsAssumption, TypeInv, CoverageInv, [Next]_vars, NEW r \in Runs,
           NEW q, StartResource(r, q)
    PROVE  CoverageInv'
<1> DEFINE state == [run[r] EXCEPT !.phase = "query", !.current = q, !.start = clock]
<1>1. /\ run[r] \in RunState /\ run[r].sent \in Nat /\ clock \in Nat
      /\ \A x \in Resources : Justified(x, run[r].since[x])
  BY RunTimes
<1>2. RunBecomes(r, state) BY DEF StartResource
<1>3. /\ state.phase = "query" /\ state.start = clock /\ state.sent = run[r].sent
      /\ state.since = run[r].since
  BY <1>1 DEF RunState
<1> HIDE DEF state
<1> QED BY <1>1, <1>2, <1>3, RunMovesOn DEF StartResource

\* A row that the enumeration query leaves out has nothing to encrypt, or was
\* last updated before the watermark that the run fetched.
LEMMA QueryCovers ==
    ASSUME ConstantsAssumption, TypeInv, CoverageInv, [Next]_vars, NEW r \in Runs, Query(r)
    PROVE  CoverageInv'
<1> DEFINE q == run[r].current
           todo == Selected(r)
           state == [run[r] EXCEPT !.phase = "publish", !.todo = todo]
<1>1. /\ run[r] \in RunState /\ run[r].sent \in Nat /\ clock \in Nat
      /\ run[r].start \in Nat /\ run[r].start <= clock
      /\ \A x \in Resources : Justified(x, run[r].since[x])
      /\ q \in Resources /\ run[r].since[q] \in Nat
  BY RunTimes DEF Query, RunState, Time, ConstantsAssumption
<1>2. RunBecomes(r, state) BY DEF Query
<1>3. /\ state.phase = "publish" /\ state.start = run[r].start /\ state.sent = run[r].sent
      /\ state.since = run[r].since /\ state.todo = todo /\ state.current = q
  BY <1>1 DEF RunState
<1>4. UNCHANGED <<clock, source, registry, worker, vault, dropped, topic>> BY DEF Query
<1>5. ASSUME Exact(q), NEW row \in Rows, NEW f \in Original[q],
             ResourceOf[row] = q, Committed(row, f, run[r].start), row \notin todo
      PROVE  Pledged(row, f)
  <2>1. source[row].present BY <1>5 DEF Committed, CoverageInv, FilledPresent
  <2>2. Incremental(r) /\ ~UpdatedSince(row, run[r].since[q])
    BY <1>5, <2>1 DEF Selected
  <2>3. StampLag = 0 BY <1>5, <2>2 DEF Incremental, Exact
  <2>4. source[row].at \in Nat BY DEF TypeInv, TypeOK, SourceRow, Time, ConstantsAssumption
  <2>5. source[row].at + StampLag < run[r].since[q] BY <1>1, <2>2, <2>3, <2>4 DEF UpdatedSince
  <2>6. Committed(row, f, run[r].since[q]) BY <1>5, <2>5 DEF Committed
  <2> QED BY <1>1, <1>5, <2>6 DEF Justified, PledgedBefore
<1>6. Enumerated(q, run[r].start, todo) BY <1>5 DEF Enumerated
<1> HIDE DEF q, todo, state
<1>7. Enumerated(run[r].current, run[r].start, run[r].todo)'
  <2>1. \A x \in Resources, t \in Time : \A y :
           t <= clock /\ Enumerated(x, t, y) => Enumerated(x, t, y)'
    BY StaysEnumerated DEF CoverageInv
  <2>2. run'[r] = state BY <1>2 DEF RunBecomes, TypeInv, TypeOK
  <2>3. run[r].start \in Time BY <1>1 DEF RunState
  <2> QED BY <1>1, <1>3, <1>6, <2>1, <2>2, <2>3
<1>8. \A x \in Resources :
         /\ registry[x].syncedAt \in Time /\ Justified(x, registry[x].syncedAt)
         /\ registry[x].attemptedAt \in Time /\ Justified(x, registry[x].attemptedAt)
  BY RegistryTimes DEF CoverageInv
<1> QED BY <1>1, <1>2, <1>3, <1>4, <1>7, <1>8, RunMoves

\* The users of a chunk that is published: nobody handles that message yet.
LEMMA ChunkCarried ==
    ASSUME TypeInv, Numbered, NEW r \in Runs, NEW S, UNCHANGED worker,
           topic' = topic \cup {ChunkMessage(r, S)},
           NEW row \in S, NEW f, ResourceOf[row] = run[r].current
    PROVE  Pledged(row, f)'
<1> DEFINE m == ChunkMessage(r, S)
<1>1. m.run = r /\ m.n = run[r].sent /\ Concerns(m, row)
  BY DEF ChunkMessage, Concerns
<1>2. ASSUME NEW w \in Workers, worker[w].msg = m PROVE Attends(w, row, f)'
  <2>1. CASE worker[w].phase = "idle" BY <2>1 DEF Attends
  <2>2. CASE worker[w].phase # "idle"
    <3>1. m.n < run[m.run].sent BY <1>2, <2>2 DEF Numbered
    <3>2. run[r].sent \in Nat BY DEF TypeInv, TypeOK, RunState
    <3> QED BY <1>1, <3>1, <3>2
  <2> QED BY <2>1, <2>2
<1>3. m \in topic' OBVIOUS
<1> HIDE DEF m
<1>4. PICK x : x = m OBVIOUS
<1>5. x \in topic' /\ Concerns(x, row) BY <1>1, <1>3, <1>4
<1>6. \A w \in Workers : worker'[w].msg = x => Attends(w, row, f)' BY <1>2, <1>4
<1> QED BY <1>5, <1>6 DEF Pledged, Carried, Concerns

LEMMA PublishChunkCovers ==
    ASSUME ConstantsAssumption, TypeInv, CoverageInv, [Next]_vars, NEW r \in Runs,
           NEW S, PublishChunk(r, S)
    PROVE  CoverageInv'
<1> DEFINE q == run[r].current
           todo == run[r].todo \ S
           state == [run[r] EXCEPT !.todo = todo, !.count = run[r].count + 1,
                                   !.sent = run[r].sent + 1]
<1>1. /\ run[r] \in RunState /\ run[r].sent \in Nat
      /\ run[r].start \in Nat /\ run[r].start <= clock
      /\ \A x \in Resources : Justified(x, run[r].since[x])
      /\ run[r].phase = "publish" /\ q \in Resources
  BY RunTimes DEF PublishChunk
<1>2. RunBecomes(r, state) BY DEF PublishChunk
<1>3. /\ state.phase = "publish" /\ state.start = run[r].start /\ state.sent = run[r].sent + 1
      /\ state.since = run[r].since /\ state.todo = todo /\ state.current = q
  BY <1>1 DEF RunState
<1>4. /\ UNCHANGED <<clock, source, registry, worker, vault, dropped>>
      /\ topic' = topic \cup {ChunkMessage(r, S)}
  BY DEF PublishChunk
<1>5. \A m \in topic' : m \in topic \/ (m.run = r /\ m.n < run[r].sent + 1)
  BY <1>1, <1>4 DEF ChunkMessage
<1>6. run'[r] = state BY <1>2 DEF RunBecomes, TypeInv, TypeOK
<1> HIDE DEF state
<1>7. Enumerated(run[r].current, run[r].start, run[r].todo)'
  <2> SUFFICES ASSUME Exact(q)', NEW row \in Rows, NEW f \in Original[q]',
                      ResourceOf[row] = q', Committed(row, f, run[r].start)',
                      row \notin run'[r].todo
               PROVE  Pledged(row, f)'
    BY DEF Enumerated
  <2>1. q' = q /\ run'[r].start = run[r].start /\ run'[r].todo = todo BY <1>3, <1>6
  <2>2. PICK x \in Resources, t \in Nat : x = q /\ t = run[r].start BY <1>1
  <2>3. f \in Original[x] /\ ResourceOf[row] = x /\ Committed(row, f, t)' /\ t <= clock
    BY <1>1, <2>1, <2>2 DEF Committed
  <2>4. Committed(row, f, t) /\ (Pledged(row, f) => Pledged(row, f)')
    BY <2>3, PledgedBack DEF CoverageInv
  <2>5. Pledged(row, f) \/ row \in run[r].todo
    BY <1>1, <2>1, <2>2, <2>3, <2>4 DEF CoverageInv, RunJustified, Enumerated, Exact
  <2>6. CASE row \in S BY <1>4, <2>1, <2>6, ChunkCarried DEF CoverageInv
  <2>7. CASE row \notin S BY <2>1, <2>4, <2>5, <2>7
  <2> QED BY <2>6, <2>7
<1>8. \A x \in Resources :
         /\ registry[x].syncedAt \in Time /\ Justified(x, registry[x].syncedAt)
         /\ registry[x].attemptedAt \in Time /\ Justified(x, registry[x].attemptedAt)
  BY RegistryTimes DEF CoverageInv
<1> QED BY <1>1, <1>2, <1>3, <1>4, <1>5, <1>7, <1>8, RunMoves

LEMMA EnumerationFailsCovers ==
    ASSUME ConstantsAssumption, TypeInv, CoverageInv, [Next]_vars, NEW r \in Runs,
           QueryFails(r) \/ \E S : PublishFails(r, S)
    PROVE  CoverageInv'
<1>1. run[r].sent \in Nat BY RunTimes
<1>2. \A x \in Resources :
         /\ registry[x].syncedAt \in Time /\ Justified(x, registry[x].syncedAt)
         /\ registry[x].attemptedAt \in Time /\ Justified(x, registry[x].attemptedAt)
  BY RegistryTimes DEF CoverageInv
<1>3. CASE QueryFails(r) BY <1>1, <1>2, <1>3, AdvanceMoves DEF QueryFails
<1>4. ASSUME NEW S, PublishFails(r, S) PROVE CoverageInv'
  <2>1. \A m \in topic' : m \in topic \/ (m.run = r /\ m.n < run[r].sent + 1)
    BY <1>1, <1>4 DEF PublishFails, ChunkMessage
  <2> QED BY <1>2, <1>4, <2>1, AdvanceMoves DEF PublishFails
<1> QED BY <1>3, <1>4

\* Once everything is published, the start of the run is justified.
LEMMA PublishedJustified ==
    ASSUME ConstantsAssumption, TypeInv, CoverageInv, NEW r \in Runs, Published(r)
    PROVE  Justified(run[r].current, run[r].start)
BY RunTimes DEF Published, CoverageInv, RunJustified, Enumerated, Justified, PledgedBefore

LEMMA MarkSyncedCovers ==
    ASSUME ConstantsAssumption, TypeInv, CoverageInv, [Next]_vars, NEW r \in Runs,
           MarkSynced(r) \/ MarkSyncedFails(r)
    PROVE  CoverageInv'
<1> DEFINE q == run[r].current
           t == run[r].start
           state == [run[r] EXCEPT !.phase = "attempt"]
<1>1. /\ run[r] \in RunState /\ run[r].sent \in Nat /\ t <= clock
      /\ t \in Time /\ \A x \in Resources : Justified(x, run[r].since[x])
      /\ Published(r) /\ q \in Resources
  BY RunTimes DEF MarkSynced, MarkSyncedFails, Published, RunState
<1>2. RunBecomes(r, state) BY DEF MarkSynced, MarkSyncedFails
<1>3. /\ state.phase = "attempt" /\ state.start = t /\ state.sent = run[r].sent
      /\ state.since = run[r].since /\ state.current = q
  BY <1>1 DEF RunState
<1>4. UNCHANGED <<clock, source, topic, worker, vault, dropped>>
  BY DEF MarkSynced, MarkSyncedFails
<1>5. Justified(q, t) BY <1>1, PublishedJustified
<1>6. registry' = registry \/ registry' = SyncedAt(q, t) BY DEF MarkSynced, MarkSyncedFails
<1> HIDE DEF state, q, t
<1>7. \A x \in Resources :
         /\ registry'[x].encrypt = registry[x].encrypt
         /\ registry'[x].syncedAt \in Time /\ Justified(x, registry'[x].syncedAt)
         /\ registry'[x].attemptedAt \in Time /\ Justified(x, registry'[x].attemptedAt)
  <2>1. \A x \in Resources :
           /\ registry[x] \in Declaration
           /\ registry[x].syncedAt \in Time /\ Justified(x, registry[x].syncedAt)
           /\ registry[x].attemptedAt \in Time /\ Justified(x, registry[x].attemptedAt)
    BY RegistryTimes DEF CoverageInv, TypeInv, TypeOK
  <2>2. CASE registry' = registry BY <2>1, <2>2
  <2>3. CASE registry' # registry
    <3> DEFINE later == Later(registry[q].syncedAt, t)
               doc == [registry[q] EXCEPT !.syncedAt = later]
    <3>1. registry' = [registry EXCEPT ![q] = doc] BY <1>6, <2>3 DEF SyncedAt
    <3>2. later \in {registry[q].syncedAt, t} BY DEF Later
    <3> HIDE DEF later
    <3>3. /\ doc.encrypt = registry[q].encrypt /\ doc.attemptedAt = registry[q].attemptedAt
          /\ doc.syncedAt \in {registry[q].syncedAt, t}
      BY <1>1, <2>1, <3>2 DEF Declaration
    <3> HIDE DEF doc
    <3>4. \A x \in Resources : registry'[x] = IF x = q THEN doc ELSE registry[x]
      BY <3>1 DEF TypeInv, TypeOK
    <3> QED BY <1>1, <1>5, <2>1, <3>3, <3>4
  <2> QED BY <2>2, <2>3
<1> QED BY <1>1, <1>2, <1>3, <1>4, <1>5, <1>7, RunMoves

LEMMA MarkAttemptedCovers ==
    ASSUME ConstantsAssumption, TypeInv, CoverageInv, [Next]_vars, NEW r \in Runs,
           MarkAttempted(r) \/ MarkAttemptedFails(r)
    PROVE  CoverageInv'
<1> DEFINE q == run[r].current
           t == run[r].start
<1>1. /\ run[r] \in RunState /\ run[r].sent \in Nat /\ t \in Time
      /\ Attempting(r) /\ q \in Resources /\ run[r].phase # "idle"
  BY RunTimes DEF MarkAttempted, MarkAttemptedFails, Attempting, Published, RunState
<1>2. Justified(q, t)
  BY <1>1, PublishedJustified DEF Attempting, CoverageInv, RunJustified
<1>3. registry' = registry \/ registry' = AttemptedAt(q, t)
  BY DEF MarkAttempted, MarkAttemptedFails
<1>4. /\ Advance(r, run[r].count, 0)
      /\ UNCHANGED <<clock, source, topic, worker, vault, dropped>>
  BY DEF MarkAttempted, MarkAttemptedFails
<1> HIDE DEF q, t
<1>5. \A x \in Resources :
         /\ registry'[x].encrypt = registry[x].encrypt
         /\ registry'[x].syncedAt \in Time /\ Justified(x, registry'[x].syncedAt)
         /\ registry'[x].attemptedAt \in Time /\ Justified(x, registry'[x].attemptedAt)
  <2>1. \A x \in Resources :
           /\ registry[x] \in Declaration
           /\ registry[x].syncedAt \in Time /\ Justified(x, registry[x].syncedAt)
           /\ registry[x].attemptedAt \in Time /\ Justified(x, registry[x].attemptedAt)
    BY RegistryTimes DEF CoverageInv, TypeInv, TypeOK
  <2>2. CASE registry' = registry BY <2>1, <2>2
  <2>3. CASE registry' # registry
    <3> DEFINE doc == [registry[q] EXCEPT !.attemptedAt = t]
    <3>1. registry' = [registry EXCEPT ![q] = doc] BY <1>3, <2>3 DEF AttemptedAt
    <3>2. /\ doc.encrypt = registry[q].encrypt /\ doc.syncedAt = registry[q].syncedAt
          /\ doc.attemptedAt = t
      BY <1>1, <2>1 DEF Declaration
    <3> HIDE DEF doc
    <3>3. \A x \in Resources : registry'[x] = IF x = q THEN doc ELSE registry[x]
      BY <3>1 DEF TypeInv, TypeOK
    <3> QED BY <1>1, <1>2, <2>1, <3>2, <3>3
  <2> QED BY <2>2, <2>3
<1>6. \A m \in topic' : m \in topic BY <1>4
<1> QED BY <1>1, <1>4, <1>5, <1>6, AdvanceMoves

LEMMA EnumerationCovers ==
    ASSUME ConstantsAssumption, TypeInv, CoverageInv, EnumerationNext
    PROVE  CoverageInv'
<1>1. [Next]_vars BY DEF Next
<1>2. PICK r \in Runs :
         \/ \E asked \in Resources \cup {NoResource}, force \in BOOLEAN :
               Trigger(r, asked, force)
         \/ RunStep(r)
         \/ RunFails(r)
  BY DEF EnumerationNext
<1>3. CASE \E asked \in Resources \cup {NoResource}, force \in BOOLEAN :
               Trigger(r, asked, force)
  BY <1>1, <1>3, TriggerCovers
<1>4. CASE RunStep(r)
  <2>1. CASE Finalize(r) BY <1>1, <2>1, StopMoves DEF Finalize
  <2> QED BY <1>1, <1>4, <2>1, FetchRegistryCovers, StartResourceCovers, QueryCovers,
             PublishChunkCovers, MarkSyncedCovers, MarkAttemptedCovers DEF RunStep
<1>5. CASE RunFails(r)
  <2>1. CASE FinalizeFails(r) \/ TriggerDies(r)
    BY <1>1, <2>1, StopMoves DEF FinalizeFails, TriggerDies
  <2> QED BY <1>1, <1>5, <2>1, FetchRegistryFailsCovers, EnumerationFailsCovers,
             MarkSyncedCovers, MarkAttemptedCovers DEF RunFails
<1> QED BY <1>2, <1>3, <1>4, <1>5

\* What the answer of Key Vault makes of a request.
LEMMA FetchedBecomes ==
    ASSUME TypeInv, NEW w \in Workers, NEW answer, Fetched(w, answer)
    PROVE  \E state : /\ Becomes(w, state)
                      /\ state.phase \in {"refused", "unwrap"}
                      /\ state.rows = worker[w].rows /\ state.msg = worker[w].msg
<1> DEFINE next == IF \E u \in answer : key[u] = "shredded" THEN "refused" ELSE "unwrap"
           held == Cached(w) \cup {u \in answer : key[u] = "active"}
           state == [worker[w] EXCEPT !.phase = next, !.ready = held]
<1>1. worker[w] \in WorkerState BY RequestType
<1>2. next \in {"refused", "unwrap"} OBVIOUS
<1>3. Becomes(w, state) BY DEF Fetched
<1> HIDE DEF next, held
<1>4. state.phase = next /\ state.rows = worker[w].rows /\ state.msg = worker[w].msg
  BY <1>1 DEF WorkerState
<1> HIDE DEF state
<1> QED BY <1>2, <1>3, <1>4

\* A step of a request leaves the other requests alone, and keeps its message
\* or ends the request.
LEMMA RequestMoves ==
    ASSUME TypeInv, NEW w \in Workers, WorkerStep(w) \/ WorkerFails(w)
    PROVE  /\ worker[w].phase # "idle"
           /\ worker'[w].phase = "idle" \/ worker'[w].msg = worker[w].msg
           /\ worker'[w].phase = "answer" => ReportCompleted(w) \/ ReportCompletedTwice(w)
           /\ \A v \in Workers \ {w} : worker'[v] = worker[v]
<1>1. worker \in [Workers -> WorkerState] /\ worker[w] \in WorkerState
  BY RequestType DEF TypeInv, TypeOK
<1>2. IdleWorker.phase = "idle" BY DEF IdleWorker
<1> USE <1>1 DEF Becomes, WorkerState
<1>3. CASE ReadRegistry(w)
  <2>1. worker[w].phase = "registry" BY <1>3 DEF ReadRegistry
  <2>2. CASE Becomes(w, [worker[w] EXCEPT !.phase = "report"]) BY <2>1, <2>2
  <2>3. CASE \E x : Becomes(w, [worker[w] EXCEPT !.phase = "source", !.fields = x])
    BY <2>1, <2>3
  <2> QED BY <1>3, <2>2, <2>3 DEF ReadRegistry
<1>4. CASE ReadSource(w) BY <1>4 DEF ReadSource
<1>5. CASE ReadExisting(w) BY <1>5 DEF ReadExisting
<1>6. CASE CreateKeys(w) \/ CallFails(w) BY <1>6 DEF CreateKeys, CallFails
<1>7. CASE \E answer \in SUBSET Users : FetchContexts(w, answer) \/ FetchContextsOmits(w, answer)
  <2>1. PICK answer : Fetched(w, answer) /\ worker[w].phase = "contexts"
    BY <1>7 DEF FetchContexts, FetchContextsOmits
  <2>2. PICK state : /\ Becomes(w, state) /\ state.msg = worker[w].msg
                     /\ state.phase \in {"refused", "unwrap"}
    BY <2>1, FetchedBecomes
  <2> QED BY <2>1, <2>2
<1>8. CASE UnwrapContexts(w) \/ \E warmed \in SUBSET Users : UnwrapRaises(w, warmed)
  BY <1>8 DEF UnwrapContexts, UnwrapRaises
<1>9. CASE InsertRecords(w) \/ (\E landed \in SUBSET Records(w) : InsertFails(w, landed))
  BY <1>9 DEF InsertRecords, InsertFails
<1>10. CASE AppendCopy(w) \/ AppendCopyFails(w) BY <1>10 DEF AppendCopy, AppendCopyFails
<1>11. CASE ReportCompleted(w) \/ ReportCompletedTwice(w)
  BY <1>11 DEF ReportCompleted, ReportCompletedTwice, IdleWorker
<1>12. CASE ReportFailed(w) \/ ReportFailedFails(w) \/ ReportCompletedFails(w)
            \/ AnswerLost(w) \/ Answer(w)
  BY <1>2, <1>12 DEF Idle, ReportFailed, ReportFailedFails, ReportCompletedFails,
     AnswerLost, Answer
<1> QED BY <1>3, <1>4, <1>5, <1>6, <1>7, <1>8, <1>9, <1>10, <1>11, <1>12
        DEF WorkerStep, WorkerFails

\* Requests take messages off the topic and publish nothing.
LEMMA MessageStays ==
    ASSUME TypeInv, WorkerNext
    PROVE  /\ UNCHANGED <<run, registry>> /\ topic' \subseteq topic
           /\ \A w \in Workers : worker'[w].phase # "idle"
                 => \/ worker'[w].msg \in topic
                    \/ worker[w].phase # "idle" /\ worker'[w].msg = worker[w].msg
<1>1. worker \in [Workers -> WorkerState] BY DEF TypeInv, TypeOK
<1>2. IdleWorker.phase = "idle" BY DEF IdleWorker
<1>3. UNCHANGED <<run, registry>> /\ topic' \subseteq topic
  <2>1. ASSUME NEW w \in Workers, WorkerStep(w)
        PROVE  UNCHANGED <<run, registry>> /\ topic' \subseteq topic
    BY <2>1 DEF WorkerStep, ReadRegistry, ReadSource, ReadExisting, CreateKeys,
       FetchContexts, UnwrapContexts, UnwrapRaises, InsertRecords, AppendCopy, ReportCompleted,
       ReportFailed, Answer
  <2>2. ASSUME NEW w \in Workers, WorkerFails(w)
        PROVE  UNCHANGED <<run, registry>> /\ topic' \subseteq topic
    BY <2>2 DEF WorkerFails, CallFails, FetchContextsOmits, InsertFails, AppendCopyFails,
       ReportCompletedFails, ReportCompletedTwice, ReportFailedFails, AnswerLost
  <2> QED BY <2>1, <2>2 DEF WorkerNext, Deliver, InstanceDies
<1>4. ASSUME NEW v \in Workers, worker'[v].phase # "idle"
      PROVE  \/ worker'[v].msg \in topic
             \/ worker[v].phase # "idle" /\ worker'[v].msg = worker[v].msg
  <2>1. ASSUME NEW w \in Workers, NEW m \in topic, Deliver(w, m), v = w PROVE worker'[v].msg = m
    BY <1>1, <2>1 DEF Deliver, Becomes, WorkerState
  <2>2. ASSUME NEW w \in Workers, NEW m \in topic, Deliver(w, m), v # w
        PROVE worker'[v] = worker[v]
    BY <1>1, <2>2 DEF Deliver, Becomes
  <2>3. ASSUME NEW i \in Instances, InstanceDies(i) PROVE worker'[v] = worker[v]
    BY <1>2, <1>4, <2>3 DEF InstanceDies
  <2> QED BY <1>4, <2>1, <2>2, <2>3, RequestMoves DEF WorkerNext
<1> QED BY <1>3, <1>4

LEMMA WorkerCovers ==
    ASSUME ConstantsAssumption, TypeInv, CoverageInv, WorkerNext
    PROVE  CoverageInv'
<1>1. [Next]_vars BY DEF Next
<1>2. UNCHANGED <<clock, source, registry, run>> /\ topic' \subseteq topic
  BY TablesStand, MessageStays
<1>3. StillEncrypted' /\ FilledPresent'
  BY <1>2 DEF CoverageInv, StillEncrypted, FilledPresent
<1>4. Numbered'
  <2>1. \A w \in Workers : worker'[w].phase # "idle"
            => worker'[w].msg.n < run[worker'[w].msg.run].sent
    BY MessageStays DEF CoverageInv, Numbered
  <2> QED BY <1>2, <2>1 DEF CoverageInv, Numbered
<1>5. RegistryJustified' BY <1>1, <1>2, RegistryTimes, RegistryStays DEF CoverageInv
<1>6. \A r \in Runs : RunJustified(r)' BY <1>1, <1>2, RunStays DEF CoverageInv
<1> QED BY <1>3, <1>4, <1>5, <1>6 DEF CoverageInv

LEMMA OutsideCovers ==
    ASSUME ConstantsAssumption, TypeInv, CoverageInv, Outside \/ Quiescent \/ UNCHANGED vars
    PROVE  CoverageInv'
<1>1. [Next]_vars BY DEF Next
<1>2. UNCHANGED <<run, topic, worker>>
  BY DEF Outside, Tick, WriteRow, DeleteRow, Redeclare, AddField, Shred, Quiescent, vars
<1>3. ASSUME NEW q \in Resources
      PROVE  /\ registry[q].encrypt \subseteq registry'[q].encrypt
             /\ registry'[q].syncedAt \in {0, registry[q].syncedAt}
             /\ registry'[q].attemptedAt = registry[q].attemptedAt
  <2>1. registry \in [Resources -> Declaration] BY DEF TypeInv, TypeOK
  <2>2. CASE UNCHANGED registry BY <2>2
  <2>3. ASSUME NEW x \in Resources, Redeclare(x)
        PROVE  /\ registry[q].encrypt \subseteq registry'[q].encrypt
               /\ registry'[q].syncedAt \in {0, registry[q].syncedAt}
               /\ registry'[q].attemptedAt = registry[q].attemptedAt
    <3>1. PICK t \in {0, registry[x].syncedAt} :
            registry' = [registry EXCEPT ![x] = [registry[x] EXCEPT
                            !.declared = ~registry[x].declared, !.syncedAt = t]]
      BY <2>3 DEF Redeclare
    <3> DEFINE doc == [registry[x] EXCEPT !.declared = ~registry[x].declared, !.syncedAt = t]
    <3>2. doc.encrypt = registry[x].encrypt /\ doc.attemptedAt = registry[x].attemptedAt
          /\ doc.syncedAt = t
      BY <2>1 DEF Declaration
    <3>3. registry' = [registry EXCEPT ![x] = doc] BY <3>1
    <3> HIDE DEF doc
    <3>4. registry'[q] = IF q = x THEN doc ELSE registry[q] BY <2>1, <3>3
    <3> QED BY <3>1, <3>2, <3>4
  <2>4. ASSUME NEW x \in Resources, NEW f \in Fields, AddField(x, f)
        PROVE  /\ registry[q].encrypt \subseteq registry'[q].encrypt
               /\ registry'[q].syncedAt \in {0, registry[q].syncedAt}
               /\ registry'[q].attemptedAt = registry[q].attemptedAt
    <3> DEFINE doc == [registry[x] EXCEPT !.encrypt = registry[x].encrypt \cup {f}]
    <3>1. doc.encrypt = registry[x].encrypt \cup {f}
          /\ doc.attemptedAt = registry[x].attemptedAt /\ doc.syncedAt = registry[x].syncedAt
      BY <2>1 DEF Declaration
    <3>2. registry' = [registry EXCEPT ![x] = doc] BY <2>4 DEF AddField
    <3> HIDE DEF doc
    <3>3. registry'[q] = IF q = x THEN doc ELSE registry[q] BY <2>1, <3>2
    <3> QED BY <3>1, <3>3
  <2> QED BY <2>2, <2>3, <2>4 DEF Outside, Tick, WriteRow, DeleteRow, Shred, Quiescent, vars
<1>4. StillEncrypted' BY <1>3 DEF CoverageInv, StillEncrypted
<1>5. FilledPresent'
  <2>1. source \in [Rows -> SourceRow] BY DEF TypeInv, TypeOK
  <2>2. CASE UNCHANGED source BY <2>2 DEF CoverageInv, FilledPresent
  <2>3. ASSUME NEW row \in Rows, NEW filled, NEW at, WriteRow(row, filled, at)
        PROVE  FilledPresent'
    BY <2>1, <2>3 DEF WriteRow, CoverageInv, FilledPresent
  <2>4. ASSUME NEW row \in Rows, DeleteRow(row) PROVE FilledPresent'
    BY <2>1, <2>4 DEF DeleteRow, NoRow, CoverageInv, FilledPresent
  <2> QED BY <1>1, <2>2, <2>3, <2>4, SourceStands
<1>6. Numbered' BY <1>2 DEF CoverageInv, Numbered
<1>7. RegistryJustified'
  BY <1>1, <1>3, RegistryTimes, RegistryStays, ZeroJustified, TimeZero DEF CoverageInv
<1>8. \A r \in Runs : RunJustified(r)' BY <1>1, <1>2, RunStays DEF CoverageInv
<1> QED BY <1>4, <1>5, <1>6, <1>7, <1>8 DEF CoverageInv

LEMMA NextCovers == ConstantsAssumption /\ TypeInv /\ CoverageInv /\ [Next]_vars => CoverageInv'
BY EnumerationCovers, WorkerCovers, OutsideCovers DEF Next

LEMMA InitCovers == ConstantsAssumption /\ Init => CoverageInv
<1> SUFFICES ASSUME ConstantsAssumption, Init PROVE CoverageInv OBVIOUS
<1>1. TypeInv BY InitType
<1>2. /\ \A q \in Resources : /\ registry[q].syncedAt = 0 /\ registry[q].attemptedAt = 0
                              /\ registry[q].encrypt = Original[q]
      /\ \A r \in Runs : /\ run[r].phase = "idle" /\ run[r].start = 0 /\ run[r].sent = 0
                         /\ \A q \in Resources : run[r].since[q] = 0
      /\ \A w \in Workers : worker[w].phase = "idle"
      /\ topic = {} /\ clock = 1
  BY DEF Init, IdleRun, IdleWorker
<1>3. FilledPresent BY DEF Init, FilledPresent, NoRow
<1>4. \A q \in Resources : Justified(q, 0) BY <1>1, ZeroJustified
<1>5. StillEncrypted /\ Numbered BY <1>2 DEF StillEncrypted, Numbered
<1>6. RegistryJustified BY <1>2, <1>4 DEF RegistryJustified
<1>7. \A r \in Runs : RunJustified(r) BY <1>2, <1>4 DEF RunJustified
<1> QED BY <1>3, <1>5, <1>6, <1>7 DEF CoverageInv

-----------------------------------------------------------------------------
(* The theorems                                                            *)

LEMMA PledgedCovered ==
    ASSUME NEW row, NEW f, Pledged(row, f)
    PROVE  Covered(row, f)
BY DEF Pledged, Settled, Carried, Concerns, Covered

LEMMA JustifiedCovers ==
    ASSUME ConstantsAssumption, TypeInv, NEW q \in Resources, NEW t \in Time,
           Justified(q, t), Exact(q), StampLag = 0
    PROVE  CoveredBefore(q, t)
<1> SUFFICES ASSUME NEW row \in Rows, NEW f \in Original[q],
                    ResourceOf[row] = q, f \in source[row].filled, source[row].at < t
             PROVE  Pledged(row, f)
  BY PledgedCovered DEF CoveredBefore
<1>1. source[row].at \in Nat BY DEF TypeInv, TypeOK, SourceRow, Time, ConstantsAssumption
<1>2. Committed(row, f, t) BY <1>1 DEF Committed
<1> QED BY <1>2 DEF Justified, PledgedBefore

\* What every reachable state satisfies.
THEOREM CoverageCorrect == Spec => [](TypeInv /\ CoverageInv)
BY ConstantsAssumption, InitType, InitCovers, NextType, NextCovers, PTL DEF Spec

\* When updated_at is the time of the commit, the watermark of a resource never
\* passes a value that is neither in pii_vault nor on its way, however triggers
\* overlap, chunks are redelivered, lost half-way or fail, and rows change
\* (mark_resource_synced with the start of the run, and the >= of the query).
THEOREM WatermarkCorrect ==
    ASSUME StampLag = 0
    PROVE  Spec => []WatermarkCovers
<1>1. TypeInv /\ CoverageInv => WatermarkCovers
  <2> SUFFICES ASSUME TypeInv, CoverageInv, NEW q \in Stamped
               PROVE  CoveredBefore(q, registry[q].syncedAt)
    BY DEF WatermarkCovers
  <2>1. q \in Resources BY ConstantsAssumption DEF ConstantsAssumption
  <2> QED BY <2>1, ConstantsAssumption, RegistryTimes, JustifiedCovers DEF Exact, CoverageInv
<1> QED BY <1>1, CoverageCorrect, PTL

\* The same of the "last attempt" time, of every resource.
THEOREM AttemptCorrect ==
    ASSUME StampLag = 0
    PROVE  Spec => []AttemptCovers
<1>1. TypeInv /\ CoverageInv => AttemptCovers
  <2> SUFFICES ASSUME TypeInv, CoverageInv, NEW q \in Resources
               PROVE  CoveredBefore(q, registry[q].attemptedAt)
    BY DEF AttemptCovers
  <2> QED BY ConstantsAssumption, RegistryTimes, JustifiedCovers DEF Exact, CoverageInv
<1> QED BY <1>1, CoverageCorrect, PTL

\* However far updated_at lags behind the commit: a resource without an
\* updated_at column is always enumerated in full, and every value committed
\* before its last attempt is covered.  Only incremental runs depend on stamps.
FullScansCover ==
    \A q \in Resources \ Stamped, row \in Rows, f \in Fields :
        /\ ResourceOf[row] = q /\ f \in Original[q]
        /\ Committed(row, f, registry[q].attemptedAt)
        => Covered(row, f)

THEOREM FullScansCorrect == Spec => []FullScansCover
<1>1. TypeInv /\ CoverageInv => FullScansCover
  BY PledgedCovered DEF FullScansCover, CoverageInv, RegistryJustified, Justified,
     Exact, PledgedBefore
<1> QED BY <1>1, CoverageCorrect, PTL

-----------------------------------------------------------------------------
(* The encrypted copy                                                      *)

\* What is in the encrypted copy, or about to go there, is in pii_vault.
CopyInv ==
    /\ CopyFollowsVault
    /\ \A w \in Workers :
          /\ \A row \in worker[w].rows : ResourceOf[row] = Resource(w)
          /\ worker[w].phase = "copy" =>
               \A c \in Records(w) : vault[<<ResourceOf[c[1]], UserOf[c[1]], c[2]>>] > 0

\* pii_vault is append-only.
VaultKeeps == \A k \in VaultKey : vault[k] > 0 => vault'[k] > 0

LEMMA VaultOnlyGrows ==
    ASSUME ConstantsAssumption, TypeInv, [Next]_vars
    PROVE  VaultKeeps
<1>1. CASE EnumerationNext \/ Outside \/ Quiescent \/ UNCHANGED vars
  <2>1. UNCHANGED vault
    BY <1>1 DEF Outside, Tick, WriteRow, DeleteRow, Redeclare, AddField, Shred,
       Quiescent, vars, EnumerationNext, Trigger, RunStep, RunFails, FetchRegistry,
       StartResource, Query, PublishChunk, MarkSynced, MarkAttempted, Finalize,
       FetchRegistryFails, PublishFails, QueryFails, MarkSyncedFails,
       MarkAttemptedFails, FinalizeFails, TriggerDies
  <2> QED BY <2>1 DEF VaultKeeps
<1>2. ASSUME NEW records, vault' = Inserted(records) PROVE VaultKeeps
  BY <1>2, VaultGrows DEF VaultKeeps
<1>3. ASSUME NEW w \in Workers, WorkerStep(w) PROVE VaultKeeps
  <2>1. CASE InsertRecords(w) BY <1>2, <2>1 DEF InsertRecords
  <2>2. CASE ~InsertRecords(w)
    <3>1. UNCHANGED vault
      BY <1>3, <2>2 DEF WorkerStep, ReadRegistry, ReadSource, ReadExisting, CreateKeys,
         FetchContexts, UnwrapContexts, UnwrapRaises, AppendCopy, ReportCompleted, ReportFailed, Answer
    <3> QED BY <3>1 DEF VaultKeeps
  <2> QED BY <2>1, <2>2
<1>4. ASSUME NEW w \in Workers, WorkerFails(w) PROVE VaultKeeps
  <2>1. CASE \E landed \in SUBSET Records(w) : InsertFails(w, landed)
    BY <1>2, <2>1 DEF InsertFails
  <2>2. CASE ~\E landed \in SUBSET Records(w) : InsertFails(w, landed)
    <3>1. UNCHANGED vault
      BY <1>4, <2>2 DEF WorkerFails, CallFails, FetchContextsOmits, AppendCopyFails,
         ReportCompletedFails, ReportCompletedTwice, ReportFailedFails, AnswerLost
    <3> QED BY <3>1 DEF VaultKeeps
  <2> QED BY <2>1, <2>2
<1>5. CASE (\E w \in Workers, m \in topic : Deliver(w, m)) \/ \E i \in Instances : InstanceDies(i)
  BY <1>5 DEF Deliver, InstanceDies, VaultKeeps
<1> QED BY <1>1, <1>3, <1>4, <1>5 DEF Next, WorkerNext

\* A key of pii_vault is named by a row and a field.
LEMMA CellKey ==
    ASSUME ConstantsAssumption, NEW row \in Rows, NEW f \in Fields
    PROVE  <<ResourceOf[row], UserOf[row], f>> \in VaultKey
BY DEF ConstantsAssumption, VaultKey

LEMMA StillFollows ==
    ASSUME ConstantsAssumption, TypeInv, CopyFollowsVault, VaultKeeps, UNCHANGED copy
    PROVE  CopyFollowsVault'
BY CellKey DEF CopyFollowsVault, VaultKeeps, TypeInv, TypeOK, CopyRow

\* A step that brings no request to its copy.
LEMMA CopyStands ==
    ASSUME ConstantsAssumption, TypeInv, CopyInv, VaultKeeps, UNCHANGED copy,
           \A w \in Workers :
               \/ worker'[w] = worker[w]
               \/ /\ worker'[w].phase # "copy"
                  /\ \A row \in worker'[w].rows : ResourceOf[row] = worker'[w].msg.resource
    PROVE  CopyInv'
<1>1. CopyFollowsVault' BY StillFollows DEF CopyInv
<1>2. ASSUME NEW w \in Workers
      PROVE  /\ \A row \in worker'[w].rows : ResourceOf[row] = worker'[w].msg.resource
             /\ worker'[w].phase = "copy" =>
                  \A c \in Records(w)' : vault'[<<ResourceOf[c[1]], UserOf[c[1]], c[2]>>] > 0
  <2>1. CASE worker'[w] = worker[w]
    <3>1. Records(w)' = Records(w) /\ Records(w) \subseteq Rows \X Fields
      BY <2>1, RequestType DEF Records, WorkerState
    <3> QED BY <2>1, <3>1, CellKey DEF CopyInv, VaultKeeps, Resource
  <2>2. CASE worker'[w] # worker[w] BY <2>2
  <2> QED BY <2>1, <2>2
<1> QED BY <1>1, <1>2 DEF CopyInv, Resource

\* A step of request w that ends it, or takes it to a phase before the copy.
LEMMA RequestCopyStands ==
    ASSUME ConstantsAssumption, TypeInv, CopyInv, VaultKeeps, UNCHANGED copy,
           NEW w \in Workers, NEW state, Becomes(w, state), state.phase # "copy",
           \/ state.rows = {}
           \/ state.rows = worker[w].rows /\ state.msg = worker[w].msg
    PROVE  CopyInv'
<1>1. worker' = [worker EXCEPT ![w] = state] /\ worker \in [Workers -> WorkerState]
  BY DEF Becomes, TypeInv, TypeOK
<1>2. \A row \in worker[w].rows : ResourceOf[row] = worker[w].msg.resource
  BY DEF CopyInv, Resource
<1> QED BY <1>1, <1>2, CopyStands

LEMMA ReadSourceCopy ==
    ASSUME ConstantsAssumption, TypeInv, CopyInv, VaultKeeps, NEW w \in Workers, ReadSource(w)
    PROVE  CopyInv'
<1> DEFINE found == {x \in Rows : /\ ResourceOf[x] = Resource(w)
                                  /\ source[x].present
                                  /\ UserOf[x] \in worker[w].msg.users}
           cells == {c \in found \X worker[w].fields : c[2] \in source[c[1]].filled}
           phase == IF found = {} THEN "report" ELSE "existing"
           state == [worker[w] EXCEPT !.phase = phase, !.rows = found, !.cells = cells]
<1>1. worker[w] \in WorkerState BY RequestType
<1>2. phase # "copy" /\ \A x \in found : ResourceOf[x] = worker[w].msg.resource
  BY DEF Resource
<1>3. Becomes(w, state) /\ worker \in [Workers -> WorkerState] /\ UNCHANGED copy
  BY DEF ReadSource, TypeInv, TypeOK
<1> HIDE DEF found, cells, phase
<1>4. state.phase = phase /\ state.msg = worker[w].msg /\ state.rows = found
  BY <1>1 DEF WorkerState
<1> HIDE DEF state
<1>5. worker' = [worker EXCEPT ![w] = state] BY <1>3 DEF Becomes
<1> QED BY <1>2, <1>3, <1>4, <1>5, CopyStands

\* The copy is written after the insert has returned.
LEMMA InsertRecordsCopy ==
    ASSUME ConstantsAssumption, TypeInv, CopyInv, VaultKeeps, NEW w \in Workers,
           InsertRecords(w)
    PROVE  CopyInv'
<1> DEFINE phase == IF Records(w) # {} /\ Resource(w) \in CopyOpted THEN "copy" ELSE "report"
           state == [worker[w] EXCEPT !.phase = phase]
<1>1. worker[w] \in WorkerState BY RequestType
<1>2. Becomes(w, state) /\ worker \in [Workers -> WorkerState] /\ UNCHANGED copy
      /\ vault' = Inserted(Records(w))
  BY DEF InsertRecords, TypeInv, TypeOK
<1> HIDE DEF phase
<1>3. /\ state.msg = worker[w].msg /\ state.rows = worker[w].rows
      /\ state.cells = worker[w].cells /\ state.missing = worker[w].missing
      /\ state.ready = worker[w].ready
  BY <1>1 DEF WorkerState
<1> HIDE DEF state
<1>4. worker' = [worker EXCEPT ![w] = state] /\ worker'[w] = state BY <1>2 DEF Becomes
<1>5. CopyFollowsVault' BY <1>2, StillFollows DEF CopyInv
<1>6. ASSUME NEW v \in Workers
      PROVE  /\ \A row \in worker'[v].rows : ResourceOf[row] = worker'[v].msg.resource
             /\ Records(v)' = Records(v) /\ Records(v) \subseteq Rows \X Fields
  <2>1. \A row \in worker[v].rows : ResourceOf[row] = worker[v].msg.resource
    BY DEF CopyInv, Resource
  <2>2. worker[v] \in WorkerState BY RequestType
  <2>3. CASE v = w BY <1>3, <1>4, <2>1, <2>2, <2>3 DEF Records, WorkerState
  <2>4. CASE v # w
    <3>1. worker'[v] = worker[v] BY <1>2, <1>4, <2>4
    <3> QED BY <2>1, <2>2, <3>1 DEF Records, WorkerState
  <2> QED BY <2>3, <2>4
<1>7. ASSUME NEW v \in Workers, worker'[v].phase = "copy", NEW c \in Records(v)'
      PROVE  vault'[<<ResourceOf[c[1]], UserOf[c[1]], c[2]>>] > 0
  <2> DEFINE k == <<ResourceOf[c[1]], UserOf[c[1]], c[2]>>
  <2>1. c \in Records(v) /\ c[1] \in Rows /\ c[2] \in Fields /\ c = <<c[1], c[2]>>
    BY <1>6, <1>7
  <2>2. k \in VaultKey BY <2>1, CellKey
  <2>3. CASE v = w
    <3>1. c[1] \in RowsOf(k) /\ k[3] = c[2] BY <2>1 DEF RowsOf
    <3> QED BY <1>2, <2>1, <2>2, <2>3, <3>1, VaultGrows
  <2>4. CASE v # w
    <3>1. worker'[v] = worker[v] BY <1>2, <1>4, <2>4
    <3>2. vault[k] > 0 BY <1>7, <2>1, <3>1 DEF CopyInv
    <3> QED BY <2>2, <3>2 DEF VaultKeeps
  <2> QED BY <2>3, <2>4
<1> QED BY <1>5, <1>6, <1>7 DEF CopyInv, Resource

LEMMA AppendCopyCopy ==
    ASSUME ConstantsAssumption, TypeInv, CopyInv, NEW w \in Workers,
           AppendCopy(w) \/ AppendCopyFails(w)
    PROVE  CopyInv'
<1>1. /\ worker[w].phase = "copy" /\ worker[w] \in WorkerState
      /\ worker \in [Workers -> WorkerState]
      /\ copy' \subseteq copy \cup CopyRows(w) /\ UNCHANGED vault
      /\ Becomes(w, [worker[w] EXCEPT !.phase = "report"])
  BY RequestType DEF AppendCopy, AppendCopyFails, TypeInv, TypeOK
<1>2. ASSUME NEW c \in CopyRows(w), NEW f \in c.cipher
      PROVE  vault[<<ResourceOf[c.row], UserOf[c.row], f>>] > 0
  <2>1. PICK x \in Records(w) : UserOf[x[1]] = UserOf[c.row] /\ x[2] = f
    BY <1>2 DEF CopyRows
  <2>2. c.row \in worker[w].rows BY <1>2 DEF CopyRows
  <2>3. ResourceOf[c.row] = worker[w].msg.resource BY <2>2 DEF CopyInv, Resource
  <2>4. x \in worker[w].cells BY <2>1 DEF Records
  <2>5. ResourceOf[x[1]] = worker[w].msg.resource
    BY <1>1, <2>4, RequestType DEF RequestConsistent
  <2> QED BY <1>1, <2>1, <2>3, <2>5 DEF CopyInv
<1>3. CopyFollowsVault' BY <1>1, <1>2 DEF CopyInv, CopyFollowsVault
<1> DEFINE state == [worker[w] EXCEPT !.phase = "report"]
<1>4. state.phase = "report" /\ state.rows = worker[w].rows /\ state.msg = worker[w].msg
  BY <1>1 DEF WorkerState
<1>5. Becomes(w, state) BY <1>1
<1> HIDE DEF state
<1>6. worker' = [worker EXCEPT ![w] = state] BY <1>5 DEF Becomes
<1>7. ASSUME NEW v \in Workers
      PROVE  /\ \A row \in worker'[v].rows : ResourceOf[row] = worker'[v].msg.resource
             /\ worker'[v].phase = "copy" =>
                  \A c \in Records(v)' : vault'[<<ResourceOf[c[1]], UserOf[c[1]], c[2]>>] > 0
  <2>1. \A row \in worker[v].rows : ResourceOf[row] = worker[v].msg.resource
    BY DEF CopyInv, Resource
  <2>2. CASE v = w BY <1>1, <1>4, <1>6, <2>1, <2>2
  <2>3. CASE v # w
    <3>1. worker'[v] = worker[v] BY <1>1, <1>6, <2>3
    <3> QED BY <1>1, <2>1, <3>1 DEF CopyInv, Records
  <2> QED BY <2>2, <2>3
<1> QED BY <1>3, <1>7 DEF CopyInv, Resource

LEMMA WorkerCopy ==
    ASSUME ConstantsAssumption, TypeInv, CopyInv, WorkerNext
    PROVE  CopyInv'
<1>1. VaultKeeps BY VaultOnlyGrows DEF Next
<1>2. IdleWorker.phase = "idle" /\ IdleWorker.rows = {} BY DEF IdleWorker
<1>3. ASSUME NEW w \in Workers, NEW m \in topic, Deliver(w, m) PROVE CopyInv'
  <2> DEFINE state == [worker[w] EXCEPT !.phase = "registry", !.msg = m]
  <2>1. worker[w] \in WorkerState /\ worker[w].rows = {}
    BY <1>2, <1>3, RequestType DEF Deliver, RequestConsistent
  <2>2. state.phase = "registry" /\ state.rows = {} BY <2>1 DEF WorkerState
  <2>3. Becomes(w, state) /\ UNCHANGED copy BY <1>3 DEF Deliver
  <2> HIDE DEF state
  <2> QED BY <1>1, <2>2, <2>3, RequestCopyStands
<1>4. ASSUME NEW i \in Instances, InstanceDies(i) PROVE CopyInv'
  <2>1. \A w \in Workers : worker'[w] = worker[w] \/ worker'[w] = IdleWorker
    BY <1>4 DEF InstanceDies
  <2>2. UNCHANGED copy BY <1>4 DEF InstanceDies
  <2> QED BY <1>1, <1>2, <2>1, <2>2, CopyStands
<1>5. ASSUME NEW w \in Workers, WorkerStep(w) \/ WorkerFails(w) PROVE CopyInv'
  <2>1. CASE ReadSource(w) BY <1>1, <2>1, ReadSourceCopy
  <2>2. CASE InsertRecords(w) BY <1>1, <2>2, InsertRecordsCopy
  <2>3. CASE AppendCopy(w) \/ AppendCopyFails(w) BY <2>3, AppendCopyCopy
  <2>4. ASSUME NEW phase, phase # "copy", UNCHANGED copy,
               \/ Becomes(w, [worker[w] EXCEPT !.phase = phase])
               \/ \E x : Becomes(w, [worker[w] EXCEPT !.phase = phase, !.fields = x])
               \/ \E x : Becomes(w, [worker[w] EXCEPT !.phase = phase, !.missing = x])
               \/ \E x : Becomes(w, [worker[w] EXCEPT !.phase = phase, !.ready = x])
        PROVE  CopyInv'
    <3>1. worker[w] \in WorkerState BY RequestType
    <3>2. worker \in [Workers -> WorkerState] BY DEF TypeInv, TypeOK
    <3>3. PICK state : Becomes(w, state) BY <2>4
    <3>4. state = worker'[w] BY <3>2, <3>3 DEF Becomes
    <3>5. /\ worker'[w].phase = phase /\ worker'[w].rows = worker[w].rows
          /\ worker'[w].msg = worker[w].msg
      <4> USE <3>1, <3>2 DEF WorkerState, Becomes
      <4>1. CASE Becomes(w, [worker[w] EXCEPT !.phase = phase]) BY <4>1
      <4>2. CASE \E x : Becomes(w, [worker[w] EXCEPT !.phase = phase, !.fields = x]) BY <4>2
      <4>3. CASE \E x : Becomes(w, [worker[w] EXCEPT !.phase = phase, !.missing = x]) BY <4>3
      <4>4. CASE \E x : Becomes(w, [worker[w] EXCEPT !.phase = phase, !.ready = x]) BY <4>4
      <4> QED BY <2>4, <4>1, <4>2, <4>3, <4>4
    <3> QED BY <1>1, <2>4, <3>3, <3>4, <3>5, RequestCopyStands
  <2>5. ASSUME NEW state, Becomes(w, state), UNCHANGED copy, state.phase # "copy", state.rows = {}
        PROVE  CopyInv'
    BY <1>1, <2>5, RequestCopyStands
  <2>6. CASE ReadRegistry(w) BY <2>4, <2>6 DEF ReadRegistry
  <2>7. CASE ReadExisting(w) BY <2>4, <2>7 DEF ReadExisting
  <2>8. CASE CreateKeys(w) \/ CallFails(w) BY <2>4, <2>8 DEF CreateKeys, CallFails
  <2>9. CASE \E answer \in SUBSET Users : FetchContexts(w, answer) \/ FetchContextsOmits(w, answer)
    <3>1. PICK answer : Fetched(w, answer) /\ UNCHANGED copy
      BY <2>9 DEF FetchContexts, FetchContextsOmits
    <3>2. PICK state : /\ Becomes(w, state)
                       /\ state.phase \in {"refused", "unwrap"}
                       /\ state.rows = worker[w].rows /\ state.msg = worker[w].msg
      BY <3>1, FetchedBecomes
    <3> QED BY <1>1, <3>1, <3>2, RequestCopyStands
  <2>10. CASE UnwrapContexts(w) \/ \E warmed \in SUBSET Users : UnwrapRaises(w, warmed)
    BY <2>4, <2>10 DEF UnwrapContexts, UnwrapRaises
  <2>11. CASE \E landed \in SUBSET Records(w) : InsertFails(w, landed)
    BY <2>4, <2>11 DEF InsertFails
  <2>12. CASE ReportCompleted(w) \/ ReportCompletedTwice(w)
    <3> DEFINE state == [IdleWorker EXCEPT !.phase = "answer", !.msg = worker[w].msg]
    <3>1. state.phase = "answer" /\ state.rows = {} BY DEF IdleWorker
    <3>2. Becomes(w, state) /\ UNCHANGED copy
      BY <2>12 DEF ReportCompleted, ReportCompletedTwice
    <3> HIDE DEF state
    <3> QED BY <2>5, <3>1, <3>2
  <2>13. CASE ReportFailed(w) \/ ReportFailedFails(w) \/ ReportCompletedFails(w)
              \/ AnswerLost(w) \/ Answer(w)
    BY <1>2, <2>5, <2>13 DEF Idle, ReportFailed, ReportFailedFails, ReportCompletedFails,
       AnswerLost, Answer
  <2> QED BY <1>5, <2>1, <2>2, <2>3, <2>6, <2>7, <2>8, <2>9, <2>10, <2>11, <2>12, <2>13
          DEF WorkerStep, WorkerFails
<1> QED BY <1>3, <1>4, <1>5 DEF WorkerNext

LEMMA NextCopy == ConstantsAssumption /\ TypeInv /\ CopyInv /\ [Next]_vars => CopyInv'
<1> SUFFICES ASSUME ConstantsAssumption, TypeInv, CopyInv, [Next]_vars PROVE CopyInv'
  OBVIOUS
<1>1. CASE WorkerNext BY <1>1, WorkerCopy
<1>2. CASE EnumerationNext \/ Outside \/ Quiescent \/ UNCHANGED vars
  <2>1. UNCHANGED <<worker, copy>>
    BY <1>2 DEF Outside, Tick, WriteRow, DeleteRow, Redeclare, AddField, Shred,
       Quiescent, vars, EnumerationNext, Trigger, RunStep, RunFails, FetchRegistry,
       StartResource, Query, PublishChunk, MarkSynced, MarkAttempted, Finalize,
       FetchRegistryFails, PublishFails, QueryFails, MarkSyncedFails,
       MarkAttemptedFails, FinalizeFails, TriggerDies
  <2> QED BY <2>1, VaultOnlyGrows, CopyStands
<1> QED BY <1>1, <1>2 DEF Next

LEMMA InitCopy == ConstantsAssumption /\ Init => CopyInv
BY DEF Init, IdleWorker, CopyInv, CopyFollowsVault

\* A ciphertext of the encrypted copy always has its pii_vault row: the wide
\* rows are appended only after insert_with_retry has returned, and a chunk is
\* written into the table its message names.
THEOREM CopyCorrect == Spec => []CopyFollowsVault
<1>1. CopyInv => CopyFollowsVault BY DEF CopyInv
<1> QED BY <1>1, ConstantsAssumption, InitType, InitCopy, NextType, NextCopy, PTL DEF Spec

-----------------------------------------------------------------------------
(* The progress of a run                                                   *)

\* What the failures so far may have cost the count: the chunks of a resource
\* that are missing from the total, and the chunks counted once too often.
Lost == Cardinality(Rows) * faults.uncounted

Repeats == Cardinality(Workers) * faults.repeated

\* Requests that have not reported their chunk of run r yet.
Open(r) ==
    {w \in Workers : worker[w].phase \notin {"idle", "answer"} /\ worker[w].msg.run = r}

\* Chunks of run r that are on the topic and that no request has.
Waiting(r) ==
    {m \in topic : /\ m.run = r
                   /\ \A w \in Workers : worker[w].phase # "idle" => worker[w].msg # m}

\* What was published is in the total, is still being counted, or was lost.
Tallied(r) ==
    /\ run[r].phase # "done" => /\ ~syncRun[r].final
                                /\ run[r].sent <= run[r].total + run[r].count + Lost
    /\ run[r].phase = "publish" => run[r].count + Cardinality(run[r].todo) <= Cardinality(Rows)
    /\ run[r].phase = "attempt" => run[r].count <= Cardinality(Rows)
    /\ run[r].phase \notin {"publish", "attempt"} => run[r].count = 0
    /\ syncRun[r].final => run[r].sent <= syncRun[r].total + Lost

\* What is counted as completed, at a request or waiting was published, or
\* repeated.
Balanced(r) ==
    syncRun[r].completed + Cardinality(Open(r)) + Cardinality(Waiting(r))
        <= run[r].sent + Repeats

ProgressInv ==
    /\ IsFiniteSet(topic)
    /\ \A r \in Runs : Tallied(r) /\ Balanced(r)

LEMMA Scales ==
    ASSUME NEW x \in Nat, NEW n \in Nat
    PROVE  x * n \in Nat /\ x * (n + 1) = x * n + x
OBVIOUS

\* A failure adds to the costs; nothing takes from them.
LEMMA FaultCosts ==
    ASSUME ConstantsAssumption, TypeInv
    PROVE  /\ Lost \in Nat /\ Repeats \in Nat
           /\ \A k : Fault(k) =>
                 /\ Lost' = IF k \in Uncounting THEN Lost + Cardinality(Rows) ELSE Lost
                 /\ Repeats' = IF k \in Repeating THEN Repeats + Cardinality(Workers)
                               ELSE Repeats
<1>1. Cardinality(Rows) \in Nat /\ Cardinality(Workers) \in Nat
  BY FS_CardinalityType DEF ConstantsAssumption
<1>2. faults.uncounted \in Nat /\ faults.repeated \in Nat
  BY DEF TypeInv, TypeOK, FaultTally
<1>3. ASSUME NEW k, Fault(k)
      PROVE  /\ Lost' = IF k \in Uncounting THEN Lost + Cardinality(Rows) ELSE Lost
             /\ Repeats' = IF k \in Repeating THEN Repeats + Cardinality(Workers) ELSE Repeats
  <2>1. faults'.uncounted = IF k \in Uncounting THEN faults.uncounted + 1 ELSE faults.uncounted
    BY <1>2, <1>3 DEF Fault
  <2>2. faults'.repeated = IF k \in Repeating THEN faults.repeated + 1 ELSE faults.repeated
    BY <1>2, <1>3 DEF Fault
  <2>3. Lost' = IF k \in Uncounting THEN Lost + Cardinality(Rows) ELSE Lost
    <3>1. Cardinality(Rows) * (faults.uncounted + 1)
             = Cardinality(Rows) * faults.uncounted + Cardinality(Rows)
      BY <1>1, <1>2, Scales
    <3> QED BY <2>1, <3>1 DEF Lost
  <2>4. Repeats' = IF k \in Repeating THEN Repeats + Cardinality(Workers) ELSE Repeats
    <3>1. Cardinality(Workers) * (faults.repeated + 1)
             = Cardinality(Workers) * faults.repeated + Cardinality(Workers)
      BY <1>1, <1>2, Scales
    <3> QED BY <2>2, <3>1 DEF Repeats
  <2> QED BY <2>3, <2>4
<1> QED BY <1>1, <1>2, <1>3, Scales DEF Lost, Repeats

LEMMA CostsGrow ==
    ASSUME ConstantsAssumption, TypeInv, UNCHANGED faults \/ \E k : Fault(k)
    PROVE  /\ Lost \in Nat /\ Repeats \in Nat /\ Lost' \in Nat /\ Repeats' \in Nat
           /\ Lost <= Lost' /\ Repeats <= Repeats'
<1>1. Cardinality(Rows) \in Nat /\ Cardinality(Workers) \in Nat
  BY FS_CardinalityType DEF ConstantsAssumption
<1>2. CASE UNCHANGED faults BY <1>2, FaultCosts DEF Lost, Repeats
<1>3. ASSUME NEW k, Fault(k)
      PROVE  /\ Lost' \in Nat /\ Repeats' \in Nat /\ Lost <= Lost' /\ Repeats <= Repeats'
  BY <1>1, <1>3, FaultCosts
<1> QED BY <1>2, <1>3, FaultCosts

\* The sets that are counted.
LEMMA CountsFinite ==
    ASSUME ConstantsAssumption, IsFiniteSet(topic), NEW r
    PROVE  /\ IsFiniteSet(Open(r)) /\ Cardinality(Open(r)) \in Nat
           /\ IsFiniteSet(Waiting(r)) /\ Cardinality(Waiting(r)) \in Nat
<1>1. Open(r) \subseteq Workers /\ Waiting(r) \subseteq topic BY DEF Open, Waiting
<1> QED BY <1>1, FS_Subset, FS_CardinalityType DEF ConstantsAssumption

\* A set with at most one more element.
LEMMA OneMore ==
    ASSUME NEW S, NEW T, NEW x, IsFiniteSet(S), T \subseteq S \cup {x}
    PROVE  /\ IsFiniteSet(T) /\ Cardinality(T) \in Nat /\ Cardinality(S) \in Nat
           /\ Cardinality(T) <= Cardinality(S) + 1
           /\ T \subseteq S => Cardinality(T) <= Cardinality(S)
           /\ x \in S /\ x \notin T => Cardinality(T) + 1 <= Cardinality(S)
<1>1. IsFiniteSet(S \cup {x}) /\ Cardinality(S \cup {x}) <= Cardinality(S) + 1
  <2>1. Cardinality(S) \in Nat BY FS_CardinalityType
  <2>2. /\ IsFiniteSet(S \cup {x})
        /\ Cardinality(S \cup {x}) = IF x \in S THEN Cardinality(S) ELSE Cardinality(S) + 1
    BY FS_AddElement
  <2> QED BY <2>1, <2>2
<1>2. IsFiniteSet(T) /\ Cardinality(T) <= Cardinality(S \cup {x}) BY <1>1, FS_Subset
<1>3. T \subseteq S => Cardinality(T) <= Cardinality(S) BY FS_Subset
<1>4. ASSUME x \in S, x \notin T PROVE Cardinality(T) + 1 <= Cardinality(S)
  <2>1. T \subseteq S \ {x} /\ IsFiniteSet(S \ {x}) BY <1>4, FS_Subset
  <2>2. Cardinality(S \ {x}) = Cardinality(S) - 1 BY <1>4, FS_RemoveElement
  <2>3. Cardinality(T) <= Cardinality(S \ {x}) BY <2>1, FS_Subset
  <2> QED BY <1>2, <2>1, <2>2, <2>3, FS_CardinalityType
<1> QED BY <1>1, <1>2, <1>3, <1>4, FS_CardinalityType

\* Two finite sets together have at most the elements of both.
LEMMA TogetherAtMost ==
    ASSUME NEW S, NEW T, IsFiniteSet(S), IsFiniteSet(T)
    PROVE  /\ IsFiniteSet(S \cup T)
           /\ Cardinality(S \cup T) <= Cardinality(S) + Cardinality(T)
<1>1. /\ IsFiniteSet(S \cup T)
      /\ Cardinality(S \cup T) = Cardinality(S) + Cardinality(T) - Cardinality(S \cap T)
  BY FS_Union
<1>2. Cardinality(S \cap T) \in Nat /\ Cardinality(S) \in Nat /\ Cardinality(T) \in Nat
  BY FS_Intersection, FS_CardinalityType
<1> QED BY <1>1, <1>2

\* A step that leaves run r and its totals alone.
LEMMA TallyStands ==
    ASSUME ConstantsAssumption, TypeInv, NEW r \in Runs, Tallied(r),
           UNCHANGED faults \/ \E k : Fault(k), run'[r] = run[r],
           syncRun'[r].final = syncRun[r].final, syncRun'[r].total = syncRun[r].total
    PROVE  Tallied(r)'
<1>1. /\ run[r].sent \in Nat /\ run[r].total \in Nat /\ run[r].count \in Nat
      /\ syncRun[r].total \in Nat
  BY DEF TypeInv, TypeOK, RunState, Progress
<1>2. Lost \in Nat /\ Lost' \in Nat /\ Lost <= Lost' BY CostsGrow
<1>3. run'[r].phase # "done" => /\ ~syncRun'[r].final
                                /\ run'[r].sent <= run'[r].total + run'[r].count + Lost'
  BY <1>1, <1>2 DEF Tallied
<1>4. syncRun'[r].final => run'[r].sent <= syncRun'[r].total + Lost'
  BY <1>1, <1>2 DEF Tallied
<1> QED BY <1>3, <1>4 DEF Tallied

\* A step of run r that publishes nothing, or one chunk.
LEMMA RunProgresses ==
    ASSUME ConstantsAssumption, TypeInv, ProgressInv,
           UNCHANGED faults \/ \E k : Fault(k),
           UNCHANGED <<syncRun, worker>>, NEW r \in Runs, NEW state, RunBecomes(r, state),
           run[r].phase # "done",
           \/ topic' = topic /\ state.sent \in Nat /\ state.sent >= run[r].sent
           \/ \E m : topic' = topic \cup {m} /\ m.run = r /\ state.sent = run[r].sent + 1,
           state.phase # "done" => state.sent <= state.total + state.count + Lost',
           state.phase = "publish" => state.count + Cardinality(state.todo) <= Cardinality(Rows),
           state.phase = "attempt" => state.count <= Cardinality(Rows),
           state.phase \notin {"publish", "attempt"} => state.count = 0
    PROVE  ProgressInv'
<1>1. /\ run' = [run EXCEPT ![r] = state] /\ run'[r] = state
      /\ \A v \in Runs \ {r} : run'[v] = run[v]
  BY DEF RunBecomes, TypeInv, TypeOK
<1>2. IsFiniteSet(topic) /\ IsFiniteSet(topic')
  <2>1. IsFiniteSet(topic) BY DEF ProgressInv
  <2> QED BY <2>1, FS_AddElement
<1>3. Repeats \in Nat /\ Repeats' \in Nat /\ Repeats <= Repeats' BY CostsGrow
<1>4. \A v \in Runs : Open(v)' = Open(v) BY DEF Open
<1>5. ASSUME NEW v \in Runs \ {r} PROVE Tallied(v)' /\ Balanced(v)'
  <2>1. Tallied(v)' BY <1>1, <1>5, TallyStands DEF ProgressInv
  <2>2. Waiting(v)' = Waiting(v) BY DEF Waiting
  <2>3. Balanced(v) /\ run[v].sent \in Nat /\ syncRun[v].completed \in Nat
    BY DEF ProgressInv, TypeInv, TypeOK, RunState, Progress
  <2>4. Cardinality(Open(v)) \in Nat /\ Cardinality(Waiting(v)) \in Nat
    BY <1>2, CountsFinite
  <2> QED BY <1>1, <1>3, <1>4, <1>5, <2>1, <2>2, <2>3, <2>4 DEF Balanced
<1>6. Tallied(r)' BY <1>1 DEF ProgressInv, Tallied
<1>7. Balanced(r)'
  <2>1. Balanced(r) /\ run[r].sent \in Nat /\ syncRun[r].completed \in Nat
    BY DEF ProgressInv, TypeInv, TypeOK, RunState, Progress
  <2>2. Cardinality(Open(r)) \in Nat /\ IsFiniteSet(Waiting(r)) /\ Cardinality(Waiting(r)) \in Nat
    BY <1>2, CountsFinite
  <2>3. CASE topic' = topic /\ state.sent \in Nat /\ state.sent >= run[r].sent
    <3>1. Waiting(r)' = Waiting(r) BY <2>3 DEF Waiting
    <3> QED BY <1>1, <1>3, <1>4, <2>1, <2>2, <2>3, <3>1 DEF Balanced
  <2>4. ASSUME NEW m, topic' = topic \cup {m}, state.sent = run[r].sent + 1 PROVE Balanced(r)'
    <3>1. Waiting(r)' \subseteq Waiting(r) \cup {m} BY <2>4 DEF Waiting
    <3>2. Cardinality(Waiting(r)') \in Nat /\ Cardinality(Waiting(r)') <= Cardinality(Waiting(r)) + 1
      BY <2>2, <3>1, OneMore
    <3> QED BY <1>1, <1>3, <1>4, <2>1, <2>2, <2>4, <3>2 DEF Balanced
  <2> QED BY <2>3, <2>4
<1> QED BY <1>2, <1>5, <1>6, <1>7 DEF ProgressInv

\* A run may stop anywhere before its total is reported.
LEMMA StopProgresses ==
    ASSUME ConstantsAssumption, TypeInv, ProgressInv, NEW r \in Runs, Stop(r),
           UNCHANGED faults \/ \E k : Fault(k),
           UNCHANGED <<syncRun, topic, worker>>, run[r].phase # "done"
    PROVE  ProgressInv'
<1> DEFINE state == [IdleRun EXCEPT !.phase = "done", !.tracked = run[r].tracked,
                                    !.sent = run[r].sent]
<1>1. state.phase = "done" /\ state.count = 0 /\ state.sent = run[r].sent BY DEF IdleRun
<1>2. RunBecomes(r, state) /\ run[r].sent \in Nat BY DEF Stop, TypeInv, TypeOK, RunState
<1> HIDE DEF state
<1> QED BY <1>1, <1>2, RunProgresses

\* The loop goes on with the next resource; chunks that the result leaves out
\* are paid for.
LEMMA AdvanceProgresses ==
    ASSUME ConstantsAssumption, TypeInv, ProgressInv, NEW r \in Runs,
           NEW queued \in Nat, NEW sent \in Nat, Advance(r, queued, sent),
           UNCHANGED faults \/ \E k : Fault(k),
           UNCHANGED <<syncRun, worker>>, run[r].phase # "done",
           \/ topic' = topic
           \/ sent = 1 /\ \E m : topic' = topic \cup {m} /\ m.run = r,
           run[r].count + sent + Lost <= queued + Lost'
    PROVE  ProgressInv'
<1> DEFINE state == [run[r] EXCEPT
                        !.phase = "next",
                        !.pending = run[r].pending \ {run[r].current},
                        !.current = NoResource,
                        !.start = 0,
                        !.todo = {},
                        !.count = 0,
                        !.total = run[r].total + queued,
                        !.sent = run[r].sent + sent]
<1>1. run[r] \in RunState /\ run[r].sent \in Nat /\ run[r].total \in Nat /\ run[r].count \in Nat
  BY DEF TypeInv, TypeOK, RunState
<1>2. RunBecomes(r, state) BY DEF Advance
<1>3. /\ state.phase = "next" /\ state.count = 0
      /\ state.total = run[r].total + queued /\ state.sent = run[r].sent + sent
  BY <1>1 DEF RunState
<1>4. run[r].sent <= run[r].total + run[r].count + Lost BY DEF ProgressInv, Tallied
<1>5. Lost \in Nat /\ Lost' \in Nat BY CostsGrow
<1>6. state.sent <= state.total + state.count + Lost' BY <1>1, <1>3, <1>4, <1>5
<1>7. /\ state.sent \in Nat /\ state.sent >= run[r].sent
      /\ sent = 1 => state.sent = run[r].sent + 1
  BY <1>1, <1>3
<1> HIDE DEF state
<1> QED BY <1>2, <1>3, <1>6, <1>7, RunProgresses

\* What a chunk takes from the rows left.
LEMMA ChunkTakes ==
    ASSUME TypeInv, ConstantsAssumption, NEW r \in Runs, NEW S, Chunk(r, S)
    PROVE  /\ Cardinality(run[r].todo) \in Nat /\ Cardinality(run[r].todo \ S) \in Nat
           /\ Cardinality(run[r].todo \ S) + 1 <= Cardinality(run[r].todo)
<1>1. IsFiniteSet(run[r].todo)
  <2>1. run[r].todo \subseteq Rows BY DEF TypeInv, TypeOK, RunState
  <2> QED BY <2>1, FS_Subset DEF ConstantsAssumption
<1>2. PICK x : x \in S /\ x \in run[r].todo BY DEF Chunk
<1> QED BY <1>1, <1>2, OneMore

LEMMA PublishProgresses ==
    ASSUME ConstantsAssumption, TypeInv, ProgressInv, NEW r \in Runs, NEW S,
           PublishChunk(r, S) \/ PublishFails(r, S)
    PROVE  ProgressInv'
<1> DEFINE m == ChunkMessage(r, S)
<1>1. /\ run[r] \in RunState /\ run[r].phase = "publish" /\ Chunk(r, S)
      /\ run[r].sent \in Nat /\ run[r].count \in Nat /\ run[r].total \in Nat
  BY DEF PublishChunk, PublishFails, TypeInv, TypeOK, RunState
<1>2. m.run = r BY DEF ChunkMessage
<1> HIDE DEF m
<1>3. /\ run[r].sent <= run[r].total + run[r].count + Lost
      /\ run[r].count + Cardinality(run[r].todo) <= Cardinality(Rows)
  BY <1>1 DEF ProgressInv, Tallied
<1>4. /\ Cardinality(run[r].todo) \in Nat /\ Cardinality(run[r].todo \ S) \in Nat
      /\ Cardinality(run[r].todo \ S) + 1 <= Cardinality(run[r].todo)
      /\ Cardinality(Rows) \in Nat
  BY <1>1, ChunkTakes, FS_CardinalityType DEF ConstantsAssumption
<1>5. CASE PublishChunk(r, S)
  <2> DEFINE state == [run[r] EXCEPT !.todo = run[r].todo \ S,
                                     !.count = run[r].count + 1,
                                     !.sent = run[r].sent + 1]
  <2>1. /\ state.phase = "publish" /\ state.todo = run[r].todo \ S
        /\ state.total = run[r].total /\ state.count = run[r].count + 1
        /\ state.sent = run[r].sent + 1
    BY <1>1 DEF RunState
  <2>2. /\ RunBecomes(r, state) /\ topic' = topic \cup {m}
        /\ UNCHANGED <<syncRun, worker, faults>>
    BY <1>5 DEF PublishChunk, m
  <2>3. Lost \in Nat /\ Lost' = Lost BY <2>2, FaultCosts DEF Lost
  <2> HIDE DEF state
  <2>4. state.sent <= state.total + state.count + Lost' BY <1>1, <1>3, <2>1, <2>3
  <2>5. state.count + Cardinality(state.todo) <= Cardinality(Rows) BY <1>1, <1>3, <1>4, <2>1
  <2> QED BY <1>1, <1>2, <2>1, <2>2, <2>4, <2>5, RunProgresses
<1>6. CASE PublishFails(r, S)
  <2>1. /\ Fault("publish") /\ Advance(r, 0, 1) /\ UNCHANGED <<syncRun, worker>>
        /\ topic' = topic \/ topic' = topic \cup {m}
    BY <1>6 DEF PublishFails, m
  <2>2. Lost \in Nat /\ Lost' = Lost + Cardinality(Rows)
    BY <2>1, FaultCosts DEF Uncounting
  <2>3. run[r].count + 1 + Lost <= 0 + Lost' BY <1>1, <1>3, <1>4, <2>2
  <2> QED BY <1>1, <1>2, <2>1, <2>3, AdvanceProgresses
<1> QED BY <1>5, <1>6

\* finalize_sync_run_total reports the chunks of the results.
LEMMA FinalizeProgresses ==
    ASSUME ConstantsAssumption, TypeInv, ProgressInv, NEW r \in Runs, Finalize(r)
    PROVE  ProgressInv'
<1>1. CASE ~run[r].tracked BY <1>1, StopProgresses DEF Finalize
<1>2. CASE run[r].tracked
  <2> DEFINE doc == [syncRun[r] EXCEPT !.final = TRUE, !.total = run[r].total]
             state == [IdleRun EXCEPT !.phase = "done", !.tracked = run[r].tracked,
                                      !.sent = run[r].sent]
  <2>1. /\ syncRun \in [Runs -> Progress] /\ syncRun[r] \in Progress
        /\ run \in [Runs -> RunState] /\ run[r].total \in Nat /\ run[r].sent \in Nat
    BY DEF TypeInv, TypeOK, RunState
  <2>2. doc.final /\ doc.total = run[r].total /\ doc.completed = syncRun[r].completed
    BY <2>1 DEF Progress
  <2>3. state.phase = "done" /\ state.count = 0 /\ state.sent = run[r].sent BY DEF IdleRun
  <2>4. /\ syncRun' = [syncRun EXCEPT ![r] = doc] /\ run' = [run EXCEPT ![r] = state]
        /\ run[r].phase = "next" /\ UNCHANGED <<topic, worker, faults>>
    BY <1>2 DEF Finalize, Stop, RunBecomes
  <2> HIDE DEF doc, state
  <2>5. /\ \A v : Open(v)' = Open(v) /\ Waiting(v)' = Waiting(v)
        /\ Repeats' = Repeats /\ Lost' = Lost /\ Lost \in Nat
    BY <2>4, FaultCosts DEF Open, Waiting, Repeats, Lost
  <2>6. run[r].sent <= run[r].total + Lost
    <3>1. run[r].sent <= run[r].total + run[r].count + Lost /\ run[r].count = 0
      BY <2>4 DEF ProgressInv, Tallied
    <3> QED BY <2>1, <2>5, <3>1
  <2>7. ASSUME NEW v \in Runs PROVE Balanced(v)' /\ Tallied(v)'
    <3>1. Balanced(v) /\ Tallied(v) BY DEF ProgressInv
    <3>2. CASE v = r
      <4>1. syncRun'[r] = doc /\ run'[r] = state BY <2>1, <2>4
      <4>2. Balanced(v)' BY <2>2, <2>3, <2>5, <3>1, <3>2, <4>1 DEF Balanced
      <4>3. Tallied(v)' BY <2>2, <2>3, <2>5, <2>6, <3>2, <4>1 DEF Tallied
      <4> QED BY <4>2, <4>3
    <3>3. CASE v # r
      <4>1. syncRun'[v] = syncRun[v] /\ run'[v] = run[v] BY <2>1, <2>4, <3>3
      <4> QED BY <2>5, <3>1, <4>1 DEF Balanced, Tallied
    <3> QED BY <3>2, <3>3
  <2> QED BY <2>4, <2>7 DEF ProgressInv
<1> QED BY <1>1, <1>2

LEMMA EnumerationProgresses ==
    ASSUME ConstantsAssumption, TypeInv, Numbered, ProgressInv, EnumerationNext
    PROVE  ProgressInv'
<1>1. PICK r \in Runs :
         \/ \E asked \in Resources \cup {NoResource}, force \in BOOLEAN :
               Trigger(r, asked, force)
         \/ RunStep(r)
         \/ RunFails(r)
  BY DEF EnumerationNext
<1>2. /\ run[r] \in RunState /\ run[r].sent \in Nat /\ run[r].total \in Nat
      /\ run[r].count \in Nat /\ Tallied(r)
  BY DEF TypeInv, TypeOK, RunState, ProgressInv
<1>3. Lost \in Nat /\ Cardinality(Rows) \in Nat
  BY FaultCosts, FS_CardinalityType DEF ConstantsAssumption
<1>4. ASSUME UNCHANGED faults \/ \E k : Fault(k)
      PROVE  Lost' \in Nat /\ Lost <= Lost'
  BY <1>4, CostsGrow
<1>5. ASSUME NEW asked, NEW force, Trigger(r, asked, force) PROVE ProgressInv'
  <2>1. PICK tracked \in BOOLEAN :
           /\ RunBecomes(r, [IdleRun EXCEPT !.phase = "fetch", !.asked = asked,
                                 !.force = force, !.tracked = tracked])
           /\ UNCHANGED faults \/ Fault("runRecord")
    BY <1>5 DEF Trigger
  <2> DEFINE state == [IdleRun EXCEPT !.phase = "fetch", !.asked = asked,
                           !.force = force, !.tracked = tracked]
  <2>2. state.phase = "fetch" /\ state.sent = 0 /\ state.total = 0 /\ state.count = 0
    BY DEF IdleRun
  <2>3. run[r].phase = "idle" /\ run[r].sent = 0 /\ UNCHANGED <<syncRun, topic, worker>>
    BY <1>5 DEF Trigger, Numbered
  <2>4. RunBecomes(r, state) BY <2>1
  <2> HIDE DEF state
  <2>5. state.sent <= state.total + state.count + Lost' BY <1>4, <2>1, <2>2
  <2> QED BY <2>1, <2>2, <2>3, <2>4, <2>5, RunProgresses
\* A step that goes on with the same resource, or before the first.
<1>6. ASSUME NEW state, RunBecomes(r, state), UNCHANGED <<syncRun, topic, worker>>,
             UNCHANGED faults \/ \E k : Fault(k), run[r].phase # "done",
             state.sent = run[r].sent, state.total = run[r].total, state.count = run[r].count,
             state.phase = "publish" => run[r].count + Cardinality(state.todo) <= Cardinality(Rows),
             state.phase = "attempt" => run[r].count <= Cardinality(Rows),
             state.phase \notin {"publish", "attempt"} => run[r].count = 0
      PROVE  ProgressInv'
  <2>1. state.sent <= state.total + state.count + Lost'
    BY <1>2, <1>3, <1>4, <1>6 DEF Tallied
  <2> QED BY <1>2, <1>6, <2>1, RunProgresses
<1>7. CASE FetchRegistry(r)
  <2> DEFINE state == [run[r] EXCEPT !.phase = "next", !.asked = NoResource,
                           !.since = [q \in Resources |-> registry[q].syncedAt],
                           !.pending = {q \in Asked(r) : Enumerable(q)}]
  <2>1. /\ state.phase = "next" /\ state.sent = run[r].sent
        /\ state.total = run[r].total /\ state.count = run[r].count
    BY <1>2 DEF RunState
  <2>2. RunBecomes(r, state) /\ run[r].phase = "fetch" /\ run[r].count = 0
        /\ UNCHANGED <<syncRun, topic, worker, faults>>
    BY <1>2, <1>7 DEF FetchRegistry, Tallied
  <2> HIDE DEF state
  <2> QED BY <1>6, <2>1, <2>2
<1>8. CASE FetchRegistryFails(r)
  <2> DEFINE state == [run[r] EXCEPT !.phase = "next", !.asked = NoResource]
  <2>1. /\ state.phase = "next" /\ state.sent = run[r].sent
        /\ state.total = run[r].total /\ state.count = run[r].count
    BY <1>2 DEF RunState
  <2>2. /\ RunBecomes(r, state) \/ Stop(r)
        /\ run[r].phase = "fetch" /\ run[r].count = 0 /\ Fault("enumerate")
        /\ UNCHANGED <<syncRun, topic, worker>>
    BY <1>2, <1>8 DEF FetchRegistryFails, Tallied
  <2> HIDE DEF state
  <2> QED BY <1>6, <2>1, <2>2, StopProgresses
<1>9. ASSUME NEW q \in Resources, StartResource(r, q) PROVE ProgressInv'
  <2> DEFINE state == [run[r] EXCEPT !.phase = "query", !.current = q, !.start = clock]
  <2>1. /\ state.phase = "query" /\ state.sent = run[r].sent
        /\ state.total = run[r].total /\ state.count = run[r].count
    BY <1>2 DEF RunState
  <2>2. RunBecomes(r, state) /\ run[r].phase = "next" /\ run[r].count = 0
        /\ UNCHANGED <<syncRun, topic, worker, faults>>
    BY <1>2, <1>9 DEF StartResource, Tallied
  <2> HIDE DEF state
  <2> QED BY <1>6, <2>1, <2>2
<1>10. CASE Query(r)
  <2> DEFINE state == [run[r] EXCEPT !.phase = "publish", !.todo = Selected(r)]
  <2>1. /\ state.phase = "publish" /\ state.sent = run[r].sent /\ state.todo = Selected(r)
        /\ state.total = run[r].total /\ state.count = run[r].count
    BY <1>2 DEF RunState
  <2>2. RunBecomes(r, state) /\ run[r].phase = "query" /\ run[r].count = 0
        /\ UNCHANGED <<syncRun, topic, worker, faults>>
    BY <1>2, <1>10 DEF Query, Tallied
  <2> HIDE DEF state
  <2>3. Cardinality(Selected(r)) \in Nat /\ Cardinality(Selected(r)) <= Cardinality(Rows)
    <3>1. Selected(r) \subseteq Rows BY DEF Selected
    <3> QED BY <3>1, FS_Subset, FS_CardinalityType DEF ConstantsAssumption
  <2>4. run[r].count + Cardinality(state.todo) <= Cardinality(Rows) BY <1>3, <2>1, <2>2, <2>3
  <2> QED BY <1>6, <2>1, <2>2, <2>4
\* Once everything is published.
<1>11. ASSUME Published(r) \/ run[r].phase = "attempt" PROVE run[r].count <= Cardinality(Rows)
  <2>1. CASE Published(r)
    <3>1. run[r].count + Cardinality(run[r].todo) <= Cardinality(Rows) /\ run[r].todo = {}
      BY <1>2, <2>1 DEF Published, Tallied
    <3> QED BY <1>2, <1>3, <3>1, FS_EmptySet
  <2>2. CASE run[r].phase = "attempt" BY <1>2, <2>2 DEF Tallied
  <2> QED BY <1>11, <2>1, <2>2
<1>12. CASE MarkSynced(r) \/ MarkSyncedFails(r)
  <2> DEFINE state == [run[r] EXCEPT !.phase = "attempt"]
  <2>1. /\ state.phase = "attempt" /\ state.sent = run[r].sent
        /\ state.total = run[r].total /\ state.count = run[r].count
    BY <1>2 DEF RunState
  <2>2. /\ RunBecomes(r, state) /\ run[r].phase = "publish" /\ Published(r)
        /\ UNCHANGED <<syncRun, topic, worker>>
        /\ UNCHANGED faults \/ Fault("mark")
    BY <1>12 DEF MarkSynced, MarkSyncedFails, Published
  <2> HIDE DEF state
  <2> QED BY <1>6, <1>11, <2>1, <2>2
<1>13. CASE MarkAttempted(r) \/ MarkAttemptedFails(r)
  <2>1. /\ Advance(r, run[r].count, 0) /\ run[r].phase # "done"
        /\ UNCHANGED <<syncRun, topic, worker>>
        /\ UNCHANGED faults \/ Fault("mark")
    BY <1>13 DEF MarkAttempted, MarkAttemptedFails, Attempting, Published
  <2>2. run[r].count + 0 + Lost <= run[r].count + Lost' BY <1>2, <1>3, <1>4, <2>1
  <2> QED BY <1>2, <2>1, <2>2, AdvanceProgresses
<1>14. CASE QueryFails(r)
  <2>1. /\ Advance(r, 0, 0) /\ run[r].phase \in {"query", "publish"} /\ Fault("enumerate")
        /\ UNCHANGED <<syncRun, topic, worker>>
    BY <1>14 DEF QueryFails
  <2>2. Lost' = Lost + Cardinality(Rows) BY <2>1, FaultCosts DEF Uncounting
  <2>3. run[r].count <= Cardinality(Rows)
    <3>1. CASE run[r].phase = "query" BY <1>2, <1>3, <3>1 DEF Tallied
    <3>2. CASE run[r].phase = "publish"
      <4>1. run[r].count + Cardinality(run[r].todo) <= Cardinality(Rows)
        BY <1>2, <3>2 DEF Tallied
      <4>2. Cardinality(run[r].todo) \in Nat
        BY <1>2, FS_Subset, FS_CardinalityType DEF RunState, ConstantsAssumption
      <4> QED BY <1>2, <1>3, <4>1, <4>2
    <3> QED BY <2>1, <3>1, <3>2
  <2>4. run[r].count + 0 + Lost <= 0 + Lost' BY <1>2, <1>3, <2>2, <2>3
  <2> QED BY <2>1, <2>4, AdvanceProgresses
<1>15. CASE FinalizeFails(r) \/ TriggerDies(r)
  <2>1. /\ Stop(r) /\ run[r].phase # "done" /\ UNCHANGED <<syncRun, topic, worker>>
        /\ Fault("runRecord") \/ Fault("trigger")
    BY <1>15 DEF FinalizeFails, TriggerDies
  <2> QED BY <2>1, StopProgresses
<1>16. CASE RunStep(r)
  BY <1>7, <1>9, <1>10, <1>12, <1>13, <1>16, PublishProgresses, FinalizeProgresses DEF RunStep
<1>17. CASE RunFails(r)
  BY <1>8, <1>12, <1>13, <1>14, <1>15, <1>17, PublishProgresses DEF RunFails
<1> QED BY <1>1, <1>5, <1>16, <1>17

-----------------------------------------------------------------------------
\* Progressed adds to the counters of the message's run and to nothing else.
LEMMA ProgressedFields ==
    ASSUME TypeInv, NEW w \in Workers, worker[w].phase # "idle",
           NEW completed \in Nat, NEW failed \in Nat, NEW r \in Runs
    PROVE  LET new == Progressed(w, completed, failed)[r] IN
           /\ new.final = syncRun[r].final /\ new.total = syncRun[r].total
           /\ new.completed = IF worker[w].msg.tracked /\ worker[w].msg.run = r
                              THEN syncRun[r].completed + completed
                              ELSE syncRun[r].completed
<1> DEFINE x == worker[w].msg.run
           failedNow == IF syncRun[x].failed < MaxReports
                        THEN syncRun[x].failed + failed ELSE syncRun[x].failed
           doc == [syncRun[x] EXCEPT !.completed = syncRun[x].completed + completed,
                                     !.failed = failedNow]
<1>1. syncRun \in [Runs -> Progress] /\ x \in Runs BY BusyType DEF TypeInv, TypeOK
<1>2. Progressed(w, completed, failed)
        = IF worker[w].msg.tracked THEN [syncRun EXCEPT ![x] = doc] ELSE syncRun
  BY DEF Progressed
<1> HIDE DEF failedNow
<1>3. /\ doc.final = syncRun[x].final /\ doc.total = syncRun[x].total
      /\ doc.completed = syncRun[x].completed + completed
  BY <1>1 DEF Progress
<1> HIDE DEF doc, x
<1>4. Progressed(w, completed, failed)[r]
        = IF worker[w].msg.tracked /\ x = r THEN doc ELSE syncRun[r]
  BY <1>1, <1>2
<1> QED BY <1>3, <1>4 DEF x

\* A step of the chunk requests keeps the balance of every run if it counts,
\* opens and puts back no more than it closes, takes off and pays for.
LEMMA WorkerBalance ==
    ASSUME ConstantsAssumption, TypeInv, ProgressInv,
           UNCHANGED faults \/ \E k : Fault(k),
           UNCHANGED run, topic' \subseteq topic,
           \A r \in Runs :
               /\ syncRun'[r].final = syncRun[r].final /\ syncRun'[r].total = syncRun[r].total
               /\ syncRun'[r].completed \in Nat
               /\ syncRun'[r].completed + Cardinality(Open(r)') + Cardinality(Waiting(r)') + Repeats
                     <= syncRun[r].completed + Cardinality(Open(r)) + Cardinality(Waiting(r))
                           + Repeats'
    PROVE  ProgressInv'
<1>1. IsFiniteSet(topic) /\ IsFiniteSet(topic') BY FS_Subset DEF ProgressInv
<1>2. ASSUME NEW r \in Runs PROVE Tallied(r)' BY <1>2, TallyStands DEF ProgressInv
<1>3. ASSUME NEW r \in Runs PROVE Balanced(r)'
  <2>1. /\ Cardinality(Open(r)) \in Nat /\ Cardinality(Waiting(r)) \in Nat
        /\ Cardinality(Open(r)') \in Nat /\ Cardinality(Waiting(r)') \in Nat
    <3>1. Open(r)' \subseteq Workers /\ Waiting(r)' \subseteq topic' BY DEF Open, Waiting
    <3> QED BY <1>1, <3>1, CountsFinite, FS_Subset, FS_CardinalityType DEF ConstantsAssumption
  <2>2. Balanced(r) /\ run[r].sent \in Nat /\ syncRun[r].completed \in Nat
    BY DEF ProgressInv, TypeInv, TypeOK, RunState, Progress
  <2>3. Repeats \in Nat /\ Repeats' \in Nat BY CostsGrow
  <2> QED BY <2>1, <2>2, <2>3 DEF Balanced
<1> QED BY <1>1, <1>2, <1>3 DEF ProgressInv

\* There is a request, so that each repeating failure pays for one chunk.
LEMMA OnePaid ==
    ASSUME ConstantsAssumption, TypeInv, NEW w \in Workers, NEW k \in Repeating, Fault(k)
    PROVE  Repeats \in Nat /\ Repeats' \in Nat /\ Repeats + 1 <= Repeats'
<1>1. Cardinality(Workers) \in Nat /\ Cardinality(Workers) # 0
  BY FS_EmptySet, FS_CardinalityType DEF ConstantsAssumption
<1> QED BY <1>1, FaultCosts

LEMMA DeliverProgresses ==
    ASSUME ConstantsAssumption, TypeInv, ProgressInv,
           NEW w \in Workers, NEW m \in topic, Deliver(w, m)
    PROVE  ProgressInv'
<1>1. worker'[w].msg = m /\ worker'[w].phase = "registry" /\ worker[w].phase = "idle"
      /\ \A v \in Workers \ {w} : worker'[v] = worker[v]
  BY DEF Deliver, Becomes, TypeInv, TypeOK, WorkerState
<1>2. UNCHANGED <<syncRun, run, topic>> /\ IsFiniteSet(topic) BY DEF Deliver, ProgressInv
<1>3. /\ ~Held(m) /\ UNCHANGED faults
      \/ Fault("duplicate")
  BY DEF Deliver
<1>4. ASSUME NEW r \in Runs
      PROVE  syncRun[r].completed + Cardinality(Open(r)') + Cardinality(Waiting(r)') + Repeats
                <= syncRun[r].completed + Cardinality(Open(r)) + Cardinality(Waiting(r)) + Repeats'
  <2>1. /\ IsFiniteSet(Open(r)) /\ Cardinality(Open(r)) \in Nat
        /\ IsFiniteSet(Waiting(r)) /\ Cardinality(Waiting(r)) \in Nat
    BY <1>2, CountsFinite
  <2>2. syncRun[r].completed \in Nat /\ Repeats \in Nat /\ Repeats' \in Nat /\ Repeats <= Repeats'
    <3>1. syncRun[r].completed \in Nat BY DEF TypeInv, TypeOK, Progress
    <3> QED BY <1>3, <3>1, CostsGrow
  <2>3. Waiting(r)' \subseteq Waiting(r) BY <1>1, <1>2 DEF Waiting
  <2>4. Open(r)' \subseteq Open(r) \cup {w} BY <1>1 DEF Open
  <2>5. /\ Cardinality(Open(r)') \in Nat /\ Cardinality(Open(r)') <= Cardinality(Open(r)) + 1
        /\ Cardinality(Waiting(r)') \in Nat /\ Cardinality(Waiting(r)') <= Cardinality(Waiting(r))
    <3>1. Waiting(r)' \subseteq Waiting(r) \cup {m} BY <2>3
    <3> QED BY <2>1, <2>3, <2>4, <3>1, OneMore
  <2>6. CASE Fault("duplicate")
    <3>1. Repeats + 1 <= Repeats' BY <2>6, OnePaid DEF Repeating
    <3> QED BY <2>1, <2>2, <2>5, <3>1
  <2>7. CASE m.run # r
    <3>1. Open(r)' \subseteq Open(r) BY <1>1, <2>7 DEF Open
    <3>2. Cardinality(Open(r)') <= Cardinality(Open(r)) BY <2>1, <3>1, FS_Subset
    <3> QED BY <2>1, <2>2, <2>5, <3>2
  <2>8. CASE m.run = r /\ ~Held(m)
    <3>1. m \in Waiting(r) BY <2>8 DEF Waiting, Held
    <3>2. m \notin Waiting(r)' BY <1>1 DEF Waiting
    <3>3. Waiting(r)' \subseteq Waiting(r) \cup {m} BY <2>3
    <3>4. Cardinality(Waiting(r)') + 1 <= Cardinality(Waiting(r))
      BY <2>1, <3>1, <3>2, <3>3, OneMore
    <3> QED BY <2>1, <2>2, <2>5, <3>4
  <2> QED BY <1>3, <2>6, <2>7, <2>8
<1>5. UNCHANGED faults \/ \E k : Fault(k) BY <1>3
<1>6. \A r \in Runs : syncRun[r].completed \in Nat BY DEF TypeInv, TypeOK, Progress
<1> QED BY <1>2, <1>4, <1>5, <1>6, WorkerBalance

\* A request that ends puts back at most its own chunk.
LEMMA EndsCounts ==
    ASSUME ConstantsAssumption, TypeInv, ProgressInv, NEW w \in Workers,
           worker[w].phase # "idle", topic' \subseteq topic, NEW r \in Runs,
           worker'[w].phase = "idle" \/ worker'[w].msg = worker[w].msg,
           worker[w].phase = "answer" => worker'[w].phase \in {"idle", "answer"},
           \A v \in Workers \ {w} : worker'[v] = worker[v]
    PROVE  /\ Cardinality(Open(r)) \in Nat /\ Cardinality(Waiting(r)) \in Nat
           /\ Cardinality(Open(r)') \in Nat /\ Cardinality(Waiting(r)') \in Nat
           /\ Cardinality(Open(r)') <= Cardinality(Open(r))
           /\ Cardinality(Waiting(r)') <= Cardinality(Waiting(r)) + 1
           /\ worker'[w].phase # "idle" \/ topic' = topic \ {worker[w].msg}
                  \/ worker[w].msg.run # r
                 => Cardinality(Waiting(r)') <= Cardinality(Waiting(r))
           /\ worker[w].phase # "answer" /\ worker[w].msg.run = r
                  /\ worker'[w].phase \in {"idle", "answer"}
                 => Cardinality(Open(r)') + 1 <= Cardinality(Open(r))
<1> DEFINE m == worker[w].msg
<1>1. /\ IsFiniteSet(Open(r)) /\ Cardinality(Open(r)) \in Nat
      /\ IsFiniteSet(Waiting(r)) /\ Cardinality(Waiting(r)) \in Nat
  BY CountsFinite DEF ProgressInv
<1>2. Open(r)' \subseteq Open(r) BY DEF Open
<1>3. Waiting(r)' \subseteq Waiting(r) \cup {m} BY DEF Waiting
<1>4. worker'[w].phase # "idle" \/ topic' = topic \ {m} \/ m.run # r
         => Waiting(r)' \subseteq Waiting(r)
  BY DEF Waiting
<1>5. worker[w].phase # "answer" /\ m.run = r /\ worker'[w].phase \in {"idle", "answer"}
         => w \in Open(r) /\ w \notin Open(r)'
  BY DEF Open
<1> HIDE DEF m
<1>6. /\ Cardinality(Waiting(r)') \in Nat /\ Cardinality(Waiting(r)') <= Cardinality(Waiting(r)) + 1
      /\ Waiting(r)' \subseteq Waiting(r) => Cardinality(Waiting(r)') <= Cardinality(Waiting(r))
  BY <1>1, <1>3, OneMore
<1>7. /\ Cardinality(Open(r)') \in Nat /\ Cardinality(Open(r)') <= Cardinality(Open(r))
      /\ w \in Open(r) /\ w \notin Open(r)' => Cardinality(Open(r)') + 1 <= Cardinality(Open(r))
  <2>1. Open(r)' \subseteq Open(r) \cup {w} BY <1>2
  <2> QED BY <1>1, <1>2, <2>1, OneMore
<1> QED BY <1>1, <1>4, <1>5, <1>6, <1>7 DEF m

\* What a request's step does to the counters, by the phase it is in.
LEMMA RequestEffects ==
    ASSUME NEW w \in Workers, WorkerStep(w) \/ WorkerFails(w)
    PROVE  /\ UNCHANGED run /\ topic' \subseteq topic
           /\ UNCHANGED faults \/ \E k : Fault(k)
           /\ \/ /\ UNCHANGED topic /\ worker[w].phase # "answer"
                 /\ syncRun' = syncRun \/ syncRun' = Progressed(w, 0, 1)
              \/ Answer(w) \/ AnswerLost(w)
              \/ ReportCompleted(w) \/ ReportCompletedTwice(w) \/ ReportCompletedFails(w)
<1>1. CASE WorkerStep(w)
  BY <1>1 DEF WorkerStep, ReadRegistry, ReadSource, ReadExisting, CreateKeys, FetchContexts,
     UnwrapContexts, UnwrapRaises, InsertRecords, AppendCopy, ReportCompleted, ReportFailed,
     Answer
<1>2. CASE WorkerFails(w)
  BY <1>2 DEF WorkerFails, CallFails, FetchContextsOmits, InsertFails, AppendCopyFails,
     ReportCompletedFails, ReportCompletedTwice, ReportFailedFails, AnswerLost
<1> QED BY <1>1, <1>2

\* Requests hold no more chunks than there are requests.
LEMMA MessagesFew ==
    ASSUME NEW S, IsFiniteSet(S)
    PROVE  LET messages == {worker[v].msg : v \in S} IN
           /\ IsFiniteSet(messages) /\ Cardinality(messages) \in Nat
           /\ Cardinality(messages) <= Cardinality(S)
<1> DEFINE messages == {worker[v].msg : v \in S}
           f == [v \in S |-> worker[v].msg]
<1>1. f \in Surjection(S, messages) BY DEF Surjection
<1> HIDE DEF messages, f
<1>2. IsFiniteSet(messages) /\ Cardinality(messages) <= Cardinality(S) BY <1>1, FS_Surjection
<1> QED BY <1>2, FS_CardinalityType DEF messages

LEMMA RequestProgresses ==
    ASSUME ConstantsAssumption, TypeInv, ProgressInv,
           NEW w \in Workers, WorkerStep(w) \/ WorkerFails(w)
    PROVE  ProgressInv'
<1>1. /\ worker[w].phase # "idle"
      /\ worker'[w].phase = "idle" \/ worker'[w].msg = worker[w].msg
      /\ worker'[w].phase = "answer" => ReportCompleted(w) \/ ReportCompletedTwice(w)
      /\ \A v \in Workers \ {w} : worker'[v] = worker[v]
  BY RequestMoves
<1>2. /\ UNCHANGED run /\ topic' \subseteq topic
      /\ UNCHANGED faults \/ \E k : Fault(k)
  BY RequestEffects
<1>3. Repeats \in Nat /\ Repeats' \in Nat /\ Repeats <= Repeats' BY <1>2, CostsGrow
<1>4. \A k \in Repeating : Fault(k) => Repeats + 1 <= Repeats' BY OnePaid
\* The counters of a run after one more report.
<1>5. ASSUME NEW n \in Nat, NEW failed \in Nat, NEW r \in Runs,
             syncRun' = Progressed(w, n, failed)
      PROVE  /\ syncRun'[r].final = syncRun[r].final /\ syncRun'[r].total = syncRun[r].total
             /\ syncRun[r].completed \in Nat /\ syncRun'[r].completed \in Nat
             /\ syncRun'[r].completed <= syncRun[r].completed + n
             /\ worker[w].msg.run # r => syncRun'[r].completed = syncRun[r].completed
  <2>1. syncRun[r].completed \in Nat BY DEF TypeInv, TypeOK, Progress
  <2> QED BY <1>1, <1>5, <2>1, ProgressedFields
<1>6. ASSUME UNCHANGED syncRun, NEW r \in Runs
      PROVE  /\ syncRun'[r].final = syncRun[r].final /\ syncRun'[r].total = syncRun[r].total
             /\ syncRun[r].completed \in Nat /\ syncRun'[r].completed \in Nat
             /\ syncRun'[r].completed = syncRun[r].completed
  BY <1>6 DEF TypeInv, TypeOK, Progress
<1> DEFINE Kept(r) ==
       /\ syncRun'[r].final = syncRun[r].final /\ syncRun'[r].total = syncRun[r].total
       /\ syncRun'[r].completed \in Nat
       /\ syncRun'[r].completed + Cardinality(Open(r)') + Cardinality(Waiting(r)') + Repeats
             <= syncRun[r].completed + Cardinality(Open(r)) + Cardinality(Waiting(r)) + Repeats'
<1>7. SUFFICES ASSUME NEW r \in Runs PROVE Kept(r)
  BY <1>2, WorkerBalance
<1> DEFINE own == worker[w].msg.run = r
<1>8. /\ Cardinality(Open(r)) \in Nat /\ Cardinality(Waiting(r)) \in Nat
      /\ Cardinality(Open(r)') \in Nat /\ Cardinality(Waiting(r)') \in Nat
  <2>1. IsFiniteSet(topic) /\ IsFiniteSet(topic') BY <1>2, FS_Subset DEF ProgressInv
  <2>2. Open(r)' \subseteq Workers /\ Waiting(r)' \subseteq topic' BY DEF Open, Waiting
  <2> QED BY <2>1, <2>2, CountsFinite, FS_Subset, FS_CardinalityType DEF ConstantsAssumption
\* How the open requests and the waiting chunks may change.
<1>9. ASSUME worker[w].phase = "answer" => worker'[w].phase \in {"idle", "answer"}
      PROVE  /\ Cardinality(Open(r)') <= Cardinality(Open(r))
             /\ Cardinality(Waiting(r)') <= Cardinality(Waiting(r)) + 1
             /\ worker'[w].phase # "idle" \/ topic' = topic \ {worker[w].msg} \/ ~own
                    => Cardinality(Waiting(r)') <= Cardinality(Waiting(r))
             /\ worker[w].phase # "answer" /\ own /\ worker'[w].phase \in {"idle", "answer"}
                    => Cardinality(Open(r)') + 1 <= Cardinality(Open(r))
  BY <1>1, <1>2, <1>9, EndsCounts
<1>10. IdleWorker.phase = "idle" /\ worker \in [Workers -> WorkerState]
  BY DEF IdleWorker, TypeInv, TypeOK
\* A step before the report, or after a failure.
<1>11. CASE /\ UNCHANGED topic /\ worker[w].phase # "answer"
            /\ syncRun' = syncRun \/ syncRun' = Progressed(w, 0, 1)
  <2>1. /\ syncRun'[r].final = syncRun[r].final /\ syncRun'[r].total = syncRun[r].total
        /\ syncRun[r].completed \in Nat /\ syncRun'[r].completed \in Nat
        /\ syncRun'[r].completed <= syncRun[r].completed
    BY <1>5, <1>6, <1>11
  <2>2. Cardinality(Open(r)') + Cardinality(Waiting(r)')
           <= Cardinality(Open(r)) + Cardinality(Waiting(r))
    BY <1>8, <1>9, <1>11
  <2> QED BY <1>3, <1>8, <2>1, <2>2
<1>12. CASE Answer(w)
  <2>1. /\ worker[w].phase = "answer" /\ worker'[w].phase = "idle"
        /\ topic' = topic \ {worker[w].msg} /\ UNCHANGED syncRun
    BY <1>10, <1>12 DEF Answer, Idle, Becomes
  <2> QED BY <1>3, <1>6, <1>8, <1>9, <2>1
<1>13. CASE AnswerLost(w)
  <2>1. /\ worker[w].phase = "answer" /\ worker'[w].phase = "idle" /\ UNCHANGED syncRun
        /\ Repeats + 1 <= Repeats'
    BY <1>4, <1>10, <1>13 DEF AnswerLost, Idle, Becomes, Repeating
  <2> QED BY <1>3, <1>6, <1>8, <1>9, <2>1
<1>14. CASE ReportCompleted(w)
  <2>1. /\ worker[w].phase = "report" /\ worker'[w].phase = "answer"
        /\ syncRun' = Progressed(w, 1, 0)
    BY <1>10, <1>14 DEF ReportCompleted, Becomes, IdleWorker
  <2> QED BY <1>3, <1>5, <1>8, <1>9, <2>1
<1>15. CASE ReportCompletedTwice(w)
  <2>1. /\ worker[w].phase = "report" /\ worker'[w].phase = "answer"
        /\ syncRun' = Progressed(w, 2, 0) /\ Repeats + 1 <= Repeats'
    BY <1>4, <1>10, <1>15 DEF ReportCompletedTwice, Becomes, IdleWorker, Repeating
  <2> QED BY <1>3, <1>5, <1>8, <1>9, <2>1
<1>16. CASE ReportCompletedFails(w)
  <2>1. /\ worker[w].phase = "report" /\ worker'[w].phase = "idle"
        /\ syncRun' = syncRun \/ syncRun' = Progressed(w, 1, 0)
        /\ Repeats + 1 <= Repeats'
    BY <1>4, <1>10, <1>16 DEF ReportCompletedFails, Idle, Becomes, Repeating
  <2>2. CASE syncRun' = syncRun BY <1>3, <1>6, <1>8, <1>9, <2>1, <2>2
  <2>3. CASE syncRun' = Progressed(w, 1, 0) BY <1>3, <1>5, <1>8, <1>9, <2>1, <2>3
  <2> QED BY <2>1, <2>2, <2>3
<1> QED BY <1>11, <1>12, <1>13, <1>14, <1>15, <1>16, RequestEffects

\* A dead instance puts back the chunks of its requests.
LEMMA InstanceDiesProgresses ==
    ASSUME ConstantsAssumption, TypeInv, ProgressInv, NEW i \in Instances, InstanceDies(i)
    PROVE  ProgressInv'
<1>1. /\ \A v \in Workers : worker'[v] = IdleWorker \/ worker'[v] = worker[v]
      /\ UNCHANGED <<syncRun, run, topic>> /\ Fault("crash")
  BY DEF InstanceDies
<1>2. IdleWorker.phase = "idle" BY DEF IdleWorker
<1>3. /\ Repeats \in Nat /\ Repeats' = Repeats + Cardinality(Workers)
      /\ Cardinality(Workers) \in Nat
  BY <1>1, FaultCosts, FS_CardinalityType DEF Repeating, ConstantsAssumption
<1>4. ASSUME NEW r \in Runs
      PROVE  /\ syncRun[r].completed \in Nat
             /\ syncRun[r].completed + Cardinality(Open(r)') + Cardinality(Waiting(r)') + Repeats
                   <= syncRun[r].completed + Cardinality(Open(r)) + Cardinality(Waiting(r))
                         + Repeats'
  <2> DEFINE messages == {worker[v].msg : v \in Workers}
  <2>1. /\ IsFiniteSet(Open(r)) /\ Cardinality(Open(r)) \in Nat
        /\ IsFiniteSet(Waiting(r)) /\ Cardinality(Waiting(r)) \in Nat
    BY CountsFinite DEF ProgressInv
  <2>2. /\ IsFiniteSet(messages) /\ Cardinality(messages) \in Nat
        /\ Cardinality(messages) <= Cardinality(Workers)
    BY MessagesFew DEF ConstantsAssumption
  <2>3. Open(r)' \subseteq Open(r) BY <1>1, <1>2 DEF Open
  <2>4. Waiting(r)' \subseteq Waiting(r) \cup messages BY <1>1 DEF Waiting
  <2> HIDE DEF messages
  <2>5. /\ IsFiniteSet(Waiting(r) \cup messages)
        /\ Cardinality(Waiting(r) \cup messages) <= Cardinality(Waiting(r)) + Cardinality(messages)
    BY <2>1, <2>2, TogetherAtMost
  <2>6. Cardinality(Waiting(r)') \in Nat
        /\ Cardinality(Waiting(r)') <= Cardinality(Waiting(r) \cup messages)
        /\ Cardinality(Waiting(r) \cup messages) \in Nat
    BY <2>4, <2>5, FS_Subset, FS_CardinalityType
  <2>7. Cardinality(Open(r)') \in Nat /\ Cardinality(Open(r)') <= Cardinality(Open(r))
    BY <2>1, <2>3, FS_Subset, FS_CardinalityType
  <2>8. syncRun[r].completed \in Nat BY DEF TypeInv, TypeOK, Progress
  <2> QED BY <1>3, <2>1, <2>2, <2>5, <2>6, <2>7, <2>8
<1> QED BY <1>1, <1>4, WorkerBalance

LEMMA NextProgresses ==
    ASSUME ConstantsAssumption, TypeInv, Numbered, ProgressInv, [Next]_vars
    PROVE  ProgressInv'
<1>1. CASE Outside \/ Quiescent \/ UNCHANGED vars
  <2>1. UNCHANGED <<syncRun, run, topic, worker, faults>>
    BY <1>1 DEF Outside, Tick, WriteRow, DeleteRow, Redeclare, AddField, Shred, Quiescent, vars
  <2> QED BY <2>1 DEF ProgressInv, Tallied, Balanced, Open, Waiting, Lost, Repeats
<1>2. CASE WorkerNext
  BY <1>2, DeliverProgresses, RequestProgresses, InstanceDiesProgresses DEF WorkerNext
<1> QED BY <1>1, <1>2, EnumerationProgresses DEF Next

LEMMA InitProgresses == ConstantsAssumption /\ Init => ProgressInv
<1> SUFFICES ASSUME ConstantsAssumption, Init PROVE ProgressInv OBVIOUS
<1>1. /\ topic = {} /\ \A w \in Workers : worker[w].phase = "idle"
      /\ \A r \in Runs : /\ run[r].phase = "idle" /\ run[r].sent = 0 /\ run[r].total = 0
                         /\ run[r].count = 0
                         /\ syncRun[r].final = FALSE /\ syncRun[r].completed = 0
  BY DEF Init, IdleRun, IdleWorker
<1>2. Lost \in Nat /\ Repeats \in Nat
  BY InitType, FaultCosts
<1>3. ASSUME NEW r \in Runs PROVE Balanced(r) /\ Tallied(r)
  <2>1. Open(r) = {} /\ Waiting(r) = {} BY <1>1 DEF Open, Waiting
  <2>2. Balanced(r) BY <1>1, <1>2, <2>1, FS_EmptySet DEF Balanced
  <2> QED BY <1>1, <1>2, <2>2 DEF Tallied
<1> QED BY <1>1, <1>3, FS_EmptySet DEF ProgressInv

\* A chunk that is not processed yet is at a request or waits for one.
LEMMA UnreportedBounded ==
    ASSUME ConstantsAssumption, ProgressInv, NEW r
    PROVE  /\ Cardinality(Unreported(r)) \in Nat
           /\ Cardinality(Unreported(r)) <= Cardinality(Open(r)) + Cardinality(Waiting(r))
<1> DEFINE messages == {worker[v].msg : v \in Open(r)}
<1>1. /\ IsFiniteSet(Open(r)) /\ Cardinality(Open(r)) \in Nat
      /\ IsFiniteSet(Waiting(r)) /\ Cardinality(Waiting(r)) \in Nat
  BY CountsFinite DEF ProgressInv
<1>2. /\ IsFiniteSet(messages) /\ Cardinality(messages) \in Nat
      /\ Cardinality(messages) <= Cardinality(Open(r))
  BY <1>1, MessagesFew
<1>3. Unreported(r) \subseteq Waiting(r) \cup messages BY DEF Unreported, Waiting, Open
<1> HIDE DEF messages
<1>4. /\ IsFiniteSet(Waiting(r) \cup messages)
      /\ Cardinality(Waiting(r) \cup messages) <= Cardinality(Waiting(r)) + Cardinality(messages)
  BY <1>1, <1>2, TogetherAtMost
<1>5. /\ Cardinality(Unreported(r)) \in Nat
      /\ Cardinality(Unreported(r)) <= Cardinality(Waiting(r) \cup messages)
      /\ Cardinality(Waiting(r) \cup messages) \in Nat
  BY <1>3, <1>4, FS_Subset, FS_CardinalityType
<1> QED BY <1>1, <1>2, <1>4, <1>5

\* For every number of rows, runs and requests, and whatever fails: what a final
\* run counts as completed and what it has not processed yet are no more than
\* its total and what the failures account for.
THEOREM ProgressCorrect == Spec => []ProgressBounded
<1>1. Spec => []ProgressInv
  <2>1. CoverageInv => Numbered BY DEF CoverageInv
  <2>2. TypeInv /\ CoverageInv /\ ProgressInv /\ [Next]_vars => ProgressInv'
    BY ConstantsAssumption, <2>1, NextProgresses
  <2>3. Init => ProgressInv BY ConstantsAssumption, InitProgresses
  <2> QED BY <2>2, <2>3, CoverageCorrect, PTL DEF Spec
<1>2. TypeInv /\ ProgressInv => ProgressBounded
  <2> SUFFICES ASSUME TypeInv, ProgressInv, NEW r \in Runs, syncRun[r].final
               PROVE  syncRun[r].completed + Cardinality(Unreported(r))
                         <= syncRun[r].total + Lost + Repeats
    BY DEF ProgressBounded, Lost, Repeats
  <2>1. /\ syncRun[r].completed \in Nat /\ syncRun[r].total \in Nat /\ run[r].sent \in Nat
        /\ Lost \in Nat /\ Repeats \in Nat
    BY ConstantsAssumption, FaultCosts DEF TypeInv, TypeOK, Progress, RunState
  <2>2. /\ Cardinality(Unreported(r)) \in Nat
        /\ Cardinality(Unreported(r)) <= Cardinality(Open(r)) + Cardinality(Waiting(r))
        /\ Cardinality(Open(r)) \in Nat /\ Cardinality(Waiting(r)) \in Nat
    BY ConstantsAssumption, UnreportedBounded, CountsFinite DEF ProgressInv
  <2>3. /\ syncRun[r].completed + Cardinality(Open(r)) + Cardinality(Waiting(r))
              <= run[r].sent + Repeats
        /\ run[r].sent <= syncRun[r].total + Lost
    BY DEF ProgressInv, Balanced, Tallied
  <2> QED BY <2>1, <2>2, <2>3
<1> QED BY <1>1, <1>2, CoverageCorrect, PTL

-----------------------------------------------------------------------------
(* The refinement of SyncPromise                                           *)

LEMMA PledgedValue ==
    ASSUME NEW v \in Values
    PROVE  /\ Settled(v[1], v[2]) <=> v \in Stored \cup Forgone
           /\ v \in Due <=> Filled(v) /\ Carried(v[1], v[2])
           /\ Owed(v[1], v[2]) <=> Filled(v)
           /\ v[1] \in Rows /\ v[2] \in Fields /\ v[2] \in Original[ResourceOf[v[1]]]
BY DEF Values, Stored, Forgone, Due, Settled, Owed, Filled

\* Neither a row of pii_vault nor a decision to give up is ever undone.
LEMMA SettledGrows ==
    ASSUME ConstantsAssumption, TypeInv, [Next]_vars
    PROVE  Stored \subseteq Stored' /\ Forgone \subseteq Forgone'
<1>1. Stored \subseteq Stored'
  <2>1. \A v \in Values : <<ResourceOf[v[1]], UserOf[v[1]], v[2]>> \in VaultKey
    BY CellKey DEF Values, VaultKey
  <2> QED BY <2>1, VaultOnlyGrows DEF VaultKeeps, Stored
<1>2. dropped \subseteq dropped'
  <2>1. CASE EnumerationNext \/ Outside \/ Quiescent \/ UNCHANGED vars
    BY <2>1 DEF Outside, Tick, WriteRow, DeleteRow, Redeclare, AddField, Shred,
       Quiescent, vars, EnumerationNext, Trigger, RunStep, RunFails, FetchRegistry,
       StartResource, Query, PublishChunk, MarkSynced, MarkAttempted, Finalize,
       FetchRegistryFails, PublishFails, QueryFails, MarkSyncedFails,
       MarkAttemptedFails, FinalizeFails, TriggerDies
  <2>2. ASSUME NEW w \in Workers, WorkerStep(w) PROVE dropped \subseteq dropped'
    BY <2>2 DEF WorkerStep, ReadRegistry, ReadSource, ReadExisting, CreateKeys, FetchContexts,
       UnwrapContexts, UnwrapRaises, InsertRecords, AppendCopy, ReportCompleted,
       ReportFailed, Answer
  <2>3. ASSUME NEW w \in Workers, WorkerFails(w) PROVE dropped \subseteq dropped'
    BY <2>3 DEF WorkerFails, CallFails, FetchContextsOmits, InsertFails,
       AppendCopyFails, ReportCompletedFails, ReportCompletedTwice, ReportFailedFails, AnswerLost
  <2>4. CASE (\E w \in Workers, m \in topic : Deliver(w, m)) \/ \E i \in Instances : InstanceDies(i)
    BY <2>4 DEF Deliver, InstanceDies
  <2> QED BY <2>1, <2>2, <2>3, <2>4 DEF Next, WorkerNext
<1> QED BY <1>1, <1>2 DEF Forgone

\* A step that leaves the tables alone keeps what is due, or settles it.
LEMMA DueStays ==
    ASSUME ConstantsAssumption, TypeInv, CoverageInv, [Next]_vars, NEW v \in Due, Filled(v)'
    PROVE  v \in Due' \cup Stored' \cup Forgone'
<1>1. v \in Values BY DEF Due
<1>2. Owed(v[1], v[2]) /\ Pledged(v[1], v[2]) /\ v[1] \in Rows /\ v[2] \in Fields
  BY <1>1, PledgedValue DEF Pledged
<1>3. Pledged(v[1], v[2])' BY <1>2, PledgeStays DEF CoverageInv
<1>4. CASE Settled(v[1], v[2])' BY <1>1, <1>4 DEF Settled, Stored, Forgone
<1>5. CASE Carried(v[1], v[2])' BY <1>1, <1>5 DEF Due
<1> QED BY <1>3, <1>4, <1>5 DEF Pledged

LEMMA SyncPromised ==
    ASSUME ConstantsAssumption, TypeInv, CoverageInv, [Next]_vars,
           UNCHANGED <<source, Recorded>>
    PROVE  Promise!Sync
<1>1. UNCHANGED Written BY DEF Written, Filled
<1>2. \A v \in Values : Filled(v) => Filled(v)' BY DEF Filled
<1>3. Due \subseteq Due' \cup Stored' \cup Forgone' BY <1>2, DueStays DEF Due
<1>4. Due' \subseteq Values /\ Stored' \subseteq Values /\ Forgone' \subseteq Values
  BY DEF Due, Stored, Forgone
<1> QED BY <1>1, <1>3, <1>4, SettledGrows DEF Promise!Sync

\* Times are recorded by steps that do nothing else to what is promised.
LEMMA RecordPromised ==
    ASSUME ConstantsAssumption, TypeInv', CoverageInv', StampLag = 0,
           UNCHANGED <<source, topic, worker, vault, dropped>>
    PROVE  Promise!Record
<1>1. \A row, f : Carried(row, f)' <=> Carried(row, f)
  BY DEF Carried, Concerns, Attends, Records
<1>2. UNCHANGED <<Written, Due, Stored, Forgone>>
  BY <1>1 DEF Written, Due, Stored, Forgone, Filled
<1>3. ASSUME NEW q \in Resources, NEW t \in Recorded'[q]
      PROVE  t \in Nat /\ Promise!Accounted(q, t)
  <2>1. t \in Time /\ Justified(q, t)'
    BY <1>3, RegistryTimes DEF CoverageInv, RegistryJustified, Recorded, TypeInv, TypeOK, Declaration
  <2> SUFFICES ASSUME NEW v \in Values, ResourceOf[v[1]] = q, Written[v] # 0, Written[v] < t
               PROVE  v \in Due \cup Stored \cup Forgone
    BY <2>1 DEF Promise!Accounted, Time, ConstantsAssumption
  <2>2. Filled(v) /\ source[v[1]].at < t BY DEF Written
  <2>3. source[v[1]].at \in Nat
    BY PledgedValue DEF TypeInv, TypeOK, SourceRow, Time, ConstantsAssumption
  <2>4. Committed(v[1], v[2], t)' BY <2>2, <2>3 DEF Committed, Filled
  <2>5. Pledged(v[1], v[2])'
    BY <2>1, <2>4, PledgedValue DEF Justified, Exact, PledgedBefore
  <2>6. Pledged(v[1], v[2]) BY <1>1, <2>5 DEF Pledged, Settled
  <2> QED BY <2>2, <2>6, PledgedValue DEF Pledged
<1>4. Recorded' \in [Resources -> SUBSET Nat] BY <1>3 DEF Recorded
<1> QED BY <1>2, <1>3, <1>4 DEF Promise!Record

\* The customer's writes: what is new is stamped with the time of its commit.
LEMMA ChangePromised ==
    ASSUME ConstantsAssumption, TypeInv, TypeInv', CoverageInv, StampLag = 0, Next,
           UNCHANGED <<registry, vault, dropped>>,
           \/ \E row \in Rows, filled \in SUBSET Fields, at \in Time : WriteRow(row, filled, at)
           \/ \E row \in Rows : DeleteRow(row)
    PROVE  Promise!Change
<1>1. UNCHANGED <<Stored, Forgone, Recorded>> BY DEF Stored, Forgone, Recorded
<1>2. Written' \in [Values -> Nat]
  BY PledgedValue DEF Written, TypeInv, TypeOK, SourceRow, Time, ConstantsAssumption
<1>3. ASSUME NEW v \in Values
      PROVE  \/ Written'[v] \in {0, Written[v]}
             \/ \A t \in Recorded[ResourceOf[v[1]]] : Written'[v] >= t
  <2>1. CASE source'[v[1]] = source[v[1]] BY <2>1 DEF Written, Filled
  <2>2. CASE source'[v[1]] = NoRow BY <2>2 DEF Written, Filled, NoRow
  <2>3. CASE source'[v[1]].at = clock
    <3>1. \A t \in Recorded[ResourceOf[v[1]]] : t \in Nat /\ t <= clock
      BY PledgedValue, RegistryTimes DEF Recorded, CoverageInv, RegistryJustified, Justified,
         Time, ConstantsAssumption
    <3>2. clock \in Nat BY DEF TypeInv, TypeOK, Time, ConstantsAssumption
    <3> QED BY <2>3, <3>1, <3>2 DEF Written
  <2>4. ASSUME NEW row \in Rows, NEW filled \in SUBSET Fields, NEW at \in Time,
               WriteRow(row, filled, at)
        PROVE  source'[v[1]].at = clock \/ source'[v[1]] = source[v[1]]
    <3>1. at = clock
      BY <2>4 DEF WriteRow, Time, TypeInv, TypeOK, ConstantsAssumption
    <3> QED BY <2>4, <3>1, PledgedValue DEF WriteRow, TypeInv, TypeOK
  <2>5. ASSUME NEW row \in Rows, DeleteRow(row)
        PROVE  source'[v[1]] = NoRow \/ source'[v[1]] = source[v[1]]
    BY <2>5, PledgedValue DEF DeleteRow, TypeInv, TypeOK
  <2> QED BY <2>1, <2>2, <2>3, <2>4, <2>5
<1>4. ASSUME NEW v \in Due, Written'[v] # 0 PROVE v \in Due'
  <2>1. v \in Values /\ Carried(v[1], v[2]) BY DEF Due
  <2>2. Filled(v)' BY <1>4, <2>1 DEF Written
  <2>3. UNCHANGED <<topic, worker>> BY DEF WriteRow, DeleteRow
  <2>4. Carried(v[1], v[2])' BY <2>1, <2>3 DEF Carried, Concerns, Attends, Records
  <2> QED BY <2>1, <2>2, <2>4 DEF Due
<1>5. Due' \subseteq Values BY DEF Due
<1> QED BY <1>1, <1>2, <1>3, <1>4, <1>5 DEF Promise!Change

LEMMA NextPromised ==
    ASSUME ConstantsAssumption, TypeInv, TypeInv', CoverageInv, CoverageInv', StampLag = 0,
           [Next]_vars
    PROVE  [Promise!Next]_(Promise!promise)
<1>1. CASE UNCHANGED <<source, registry>>
  <2>1. UNCHANGED Recorded BY <1>1 DEF Recorded
  <2> QED BY <1>1, <2>1, SyncPromised DEF Promise!Next
<1>2. CASE UNCHANGED <<source, topic, worker, vault, dropped>>
  BY <1>2, RecordPromised DEF Promise!Next
<1>3. EnumerationNext => UNCHANGED <<source, registry>>
                            \/ UNCHANGED <<source, topic, worker, vault, dropped>>
  BY DEF EnumerationNext, Trigger, RunStep, RunFails, FetchRegistry, StartResource, Query,
     PublishChunk, MarkSynced, MarkAttempted, Finalize, FetchRegistryFails, PublishFails,
     QueryFails, MarkSyncedFails, MarkAttemptedFails, FinalizeFails, TriggerDies
<1>4. WorkerNext => UNCHANGED <<source, registry>>
  <2>1. ASSUME NEW w \in Workers, WorkerStep(w) PROVE UNCHANGED registry
    BY <2>1 DEF WorkerStep, ReadRegistry, ReadSource, ReadExisting, CreateKeys, FetchContexts,
       UnwrapContexts, UnwrapRaises, InsertRecords, AppendCopy, ReportCompleted, ReportFailed, Answer
  <2>2. ASSUME NEW w \in Workers, WorkerFails(w) PROVE UNCHANGED registry
    BY <2>2 DEF WorkerFails, CallFails, FetchContextsOmits, InsertFails, AppendCopyFails,
       ReportCompletedFails, ReportCompletedTwice, ReportFailedFails, AnswerLost
  <2> QED BY <2>1, <2>2, TablesStand DEF WorkerNext, Deliver, InstanceDies
<1>5. ASSUME \/ \E row \in Rows, filled \in SUBSET Fields, at \in Time : WriteRow(row, filled, at)
             \/ \E row \in Rows : DeleteRow(row)
      PROVE  [Promise!Next]_(Promise!promise)
  <2>1. UNCHANGED <<registry, vault, dropped>> BY <1>5 DEF WriteRow, DeleteRow
  <2>2. Next BY <1>5 DEF Next, Outside
  <2> QED BY <1>5, <2>1, <2>2, ChangePromised DEF Promise!Next
<1>6. Outside => \/ \E row \in Rows, filled \in SUBSET Fields, at \in Time :
                       WriteRow(row, filled, at)
                 \/ \E row \in Rows : DeleteRow(row)
                 \/ UNCHANGED <<source, topic, worker, vault, dropped>>
  BY DEF Outside, Tick, Redeclare, AddField, Shred
<1>7. Quiescent \/ UNCHANGED vars => UNCHANGED <<source, registry>> BY DEF Quiescent, vars
<1> QED BY <1>1, <1>2, <1>3, <1>4, <1>5, <1>6, <1>7 DEF Next

LEMMA InitPromised ==
    ASSUME ConstantsAssumption, Init
    PROVE  Promise!Init
<1>1. \A q \in Resources : registry[q].syncedAt = 0 /\ registry[q].attemptedAt = 0 BY DEF Init
<1>2. Recorded = [q \in Resources |-> {0}] BY <1>1 DEF Recorded
<1>3. Due = {} BY DEF Init, Due, Carried
<1>4. Stored = {}
  <2>1. ASSUME NEW v \in Values PROVE vault[<<ResourceOf[v[1]], UserOf[v[1]], v[2]>>] = 0
    BY CellKey, PledgedValue DEF Init
  <2> QED BY <2>1 DEF Stored
<1>5. Forgone = {} BY DEF Init, Forgone
<1>6. Written \in [Values -> Nat]
  BY InitType, PledgedValue DEF Written, TypeInv, TypeOK, SourceRow, Time, ConstantsAssumption
<1> QED BY <1>2, <1>3, <1>4, <1>5, <1>6 DEF Promise!Init

\* When updated_at is the time of the commit, the sync implements SyncPromise:
\* a time is recorded only over values accounted for, and a value that is due
\* stays due until it is in pii_vault, given up or no longer in its table,
\* through every redelivery, crash and half-failed insert (sync_all and
\* process_chunk together).
THEOREM PledgesKept ==
    ASSUME StampLag = 0
    PROVE  Spec => KeepsPledges
<1>1. Init => TypeInv /\ CoverageInv /\ Promise!Init
  BY ConstantsAssumption, InitType, InitCovers, InitPromised
<1>2. TypeInv /\ CoverageInv /\ [Next]_vars => (TypeInv /\ CoverageInv)'
  BY ConstantsAssumption, NextType, NextCovers
<1>3. /\ TypeInv /\ TypeInv' /\ CoverageInv /\ CoverageInv' /\ [Next]_vars
      => [Promise!Next]_(Promise!promise)
  BY ConstantsAssumption, NextPromised
<1> QED BY <1>1, <1>2, <1>3, PTL DEF Spec, KeepsPledges, Promise!Spec

\* What SyncPromise is worth: in each of its behaviours, all that was in a
\* resource before a recorded time is due, stored or forgone, although due
\* values, tables and times go on changing (mark_resource_synced and
\* mark_resource_sync_attempted, read by the registry's users).
THEOREM PromiseMeans == Promise!Spec => []Promise!Kept
<1> DEFINE times == Recorded
           home == [v \in Values |-> ResourceOf[v[1]]]
           Inv == Promise!Kept /\ times \in [Resources -> SUBSET Nat]
<1>1. Promise!Init => Inv
  <2> SUFFICES ASSUME Promise!Init PROVE Inv OBVIOUS
  <2>1. Written \in [Values -> Nat] /\ times = [q \in Resources |-> {0}] BY DEF Promise!Init
  <2>2. \A v \in Values : ~(Written[v] < 0) BY <2>1
  <2> HIDE DEF times
  <2> QED BY <2>1, <2>2 DEF Promise!Kept, Promise!Accounted, times
<1>2. Inv /\ [Promise!Next]_(Promise!promise) => Inv'
  <2> SUFFICES ASSUME Inv, [Promise!Next]_(Promise!promise) PROVE Inv' OBVIOUS
  <2>1. CASE UNCHANGED Promise!promise
    BY <2>1 DEF Promise!promise, Promise!Kept, Promise!Accounted
  <2>2. CASE Promise!Change
    <3>1. times' = times /\ Written' \in [Values -> Nat] BY <2>2 DEF Promise!Change
    <3>2. ASSUME NEW q \in Resources, NEW t \in times[q],
                 NEW v \in Values, home[v] = q, Written'[v] # 0, Written'[v] < t
          PROVE  v \in Due' \cup Stored' \cup Forgone'
      <4>1. t \in Nat /\ Written'[v] \in Nat BY <3>1
      <4>2. \/ Written'[v] = Written[v]
            \/ \A s \in times[home[v]] : Written'[v] >= s
        BY <2>2, <3>2 DEF Promise!Change
      <4>3. Written'[v] = Written[v] BY <3>2, <4>1, <4>2
      <4>4. v \in Due \cup Stored \cup Forgone
        BY <3>2, <4>3 DEF Promise!Kept, Promise!Accounted
      <4> QED BY <2>2, <3>2, <4>4 DEF Promise!Change
    <3> QED BY <3>1, <3>2 DEF Promise!Kept, Promise!Accounted
  <2>3. CASE Promise!Sync
    BY <2>3 DEF Promise!Sync, Promise!Kept, Promise!Accounted
  <2>4. CASE Promise!Record
    BY <2>4 DEF Promise!Record, Promise!Kept, Promise!Accounted
  <2> QED BY <2>1, <2>2, <2>3, <2>4 DEF Promise!Next
<1> QED BY <1>1, <1>2, PTL DEF Promise!Spec
=============================================================================
