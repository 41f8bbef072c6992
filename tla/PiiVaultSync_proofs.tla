------------------------ MODULE PiiVaultSync_proofs ------------------------
(***************************************************************************)
(* Machine-checked facts about PiiVaultSync, for every value of the        *)
(* constants.                                                              *)
(***************************************************************************)
EXTENDS PiiVaultSync, FiniteSetTheorems, TLAPS

\* TypeOK is not inductive alone: a published message is well-typed only
\* because a run that publishes works on a resource.
TypeInv == TypeOK /\ Consistent

LEMMA TimeZero == ConstantsAssumption => 0 \in Time
BY DEF ConstantsAssumption, Time

-----------------------------------------------------------------------------
(* Steps that change one run or one request                                *)

LEMMA RunBecomesType ==
    ASSUME TypeInv, NEW r \in Runs, NEW state \in RunState, RunBecomes(r, state),
           state.phase \in {"query", "publish", "attempt"}
               => state.current \in Resources
    PROVE  run' \in [Runs -> RunState] /\ RunsConsistent'
BY DEF TypeInv, TypeOK, Consistent, RunsConsistent, RunBecomes

LEMMA BecomesType ==
    ASSUME TypeInv, NEW w \in Workers, NEW state \in WorkerState,
           Becomes(w, state), RequestConsistent(state)
    PROVE  /\ worker' \in [Workers -> WorkerState]
           /\ \A v \in Workers : RequestConsistent(worker'[v])
BY DEF TypeInv, TypeOK, Consistent, RequestConsistent, Becomes

LEMMA AdvanceType ==
    ASSUME ConstantsAssumption, TypeInv, NEW r \in Runs, NEW queued \in Nat,
           NEW sent \in Nat, Advance(r, queued, sent)
    PROVE  run' \in [Runs -> RunState] /\ RunsConsistent'
<1> DEFINE state == [run[r] EXCEPT
                        !.phase = "next",
                        !.pending = run[r].pending \ {run[r].current},
                        !.current = NoResource,
                        !.start = 0,
                        !.todo = {},
                        !.count = 0,
                        !.total = run[r].total + queued,
                        !.sent = run[r].sent + sent]
<1>1. run[r] \in RunState BY DEF TypeInv, TypeOK
<1>2. /\ run[r].pending \ {run[r].current} \in SUBSET Resources
      /\ run[r].total + queued \in Nat
      /\ run[r].sent + sent \in Nat
  BY <1>1 DEF RunState
<1>3. 0 \in Time BY TimeZero
<1>4. state \in RunState /\ state.phase = "next"
  BY <1>1, <1>2, <1>3 DEF RunState, RunPhase
<1>5. RunBecomes(r, state) BY DEF Advance
<1> QED BY <1>4, <1>5, RunBecomesType

LEMMA StopType ==
    ASSUME ConstantsAssumption, TypeInv, NEW r \in Runs, Stop(r)
    PROVE  run' \in [Runs -> RunState] /\ RunsConsistent'
<1> DEFINE state == [IdleRun EXCEPT !.phase = "done", !.tracked = run[r].tracked,
                                    !.sent = run[r].sent]
<1>1. run[r].tracked \in BOOLEAN /\ run[r].sent \in Nat
  BY DEF TypeInv, TypeOK, RunState
<1>2. state \in RunState /\ state.phase = "done"
  BY <1>1, TimeZero DEF RunState, RunPhase, IdleRun
<1>3. RunBecomes(r, state) BY DEF Stop
<1> QED BY <1>2, <1>3, RunBecomesType

LEMMA FaultType ==
    ASSUME ConstantsAssumption, TypeInv, NEW k, Fault(k)
    PROVE  faults' \in FaultTally
BY DEF ConstantsAssumption, TypeInv, TypeOK, Fault, FaultTally

-----------------------------------------------------------------------------
(* The trigger                                                             *)

\* What a step of a trigger may change, and what is left to show of it.
LEMMA RunChangeType ==
    ASSUME TypeInv,
           run' \in [Runs -> RunState], RunsConsistent',
           registry' \in [Resources -> Declaration],
           syncRun' \in [Runs -> Progress],
           topic' \subseteq Message,
           faults' \in FaultTally,
           UNCHANGED <<clock, source, key, worker, cache, vault, copy, dropped>>
    PROVE  TypeInv'
BY DEF TypeInv, TypeOK, Consistent, RunsConsistent

LEMMA TriggerType ==
    ASSUME ConstantsAssumption, TypeInv, NEW r \in Runs,
           NEW asked \in Resources \cup {NoResource}, NEW force \in BOOLEAN,
           Trigger(r, asked, force)
    PROVE  TypeInv'
<1>1. PICK tracked \in BOOLEAN :
         /\ RunBecomes(r, [IdleRun EXCEPT !.phase = "fetch", !.asked = asked,
                               !.force = force, !.tracked = tracked])
         /\ IF tracked THEN UNCHANGED faults ELSE Fault("runRecord")
  BY DEF Trigger
<1> DEFINE state == [IdleRun EXCEPT !.phase = "fetch", !.asked = asked,
                         !.force = force, !.tracked = tracked]
<1>2. state \in RunState /\ state.phase = "fetch"
  BY TimeZero DEF IdleRun, RunState, RunPhase
<1>3. run' \in [Runs -> RunState] /\ RunsConsistent'
  BY <1>1, <1>2, RunBecomesType
<1>4. faults' \in FaultTally
  BY <1>1, FaultType DEF TypeInv, TypeOK
<1> QED BY <1>3, <1>4, RunChangeType DEF Trigger, TypeInv, TypeOK

LEMMA FetchRegistryType ==
    ASSUME ConstantsAssumption, TypeInv, NEW r \in Runs, FetchRegistry(r)
    PROVE  TypeInv'
<1> DEFINE since == [q \in Resources |-> registry[q].syncedAt]
           pending == {q \in Asked(r) : Enumerable(q)}
           state == [run[r] EXCEPT !.phase = "next", !.asked = NoResource,
                                   !.since = since, !.pending = pending]
<1>1. since \in [Resources -> Time] BY DEF TypeInv, TypeOK, Declaration
<1>2. pending \in SUBSET Resources BY DEF Asked
<1>3. run[r] \in RunState BY DEF TypeInv, TypeOK
<1>4. RunBecomes(r, state) BY DEF FetchRegistry
<1> HIDE DEF since, pending
<1>5. state \in RunState /\ state.phase = "next"
  BY <1>1, <1>2, <1>3 DEF RunState, RunPhase
<1>6. run' \in [Runs -> RunState] /\ RunsConsistent'
  BY <1>4, <1>5, RunBecomesType
<1> QED BY <1>6, RunChangeType DEF FetchRegistry, TypeInv, TypeOK

LEMMA FetchRegistryFailsType ==
    ASSUME ConstantsAssumption, TypeInv, NEW r \in Runs, FetchRegistryFails(r)
    PROVE  TypeInv'
<1> DEFINE state == [run[r] EXCEPT !.phase = "next", !.asked = NoResource]
<1>1. run[r] \in RunState BY DEF TypeInv, TypeOK
<1>2. state \in RunState /\ state.phase = "next"
  BY <1>1 DEF RunState, RunPhase
<1>3. Stop(r) \/ RunBecomes(r, state) BY DEF FetchRegistryFails
<1>4. run' \in [Runs -> RunState] /\ RunsConsistent'
  BY <1>2, <1>3, RunBecomesType, StopType
<1>5. faults' \in FaultTally BY FaultType DEF FetchRegistryFails
<1> QED BY <1>4, <1>5, RunChangeType DEF FetchRegistryFails, TypeInv, TypeOK

LEMMA StartResourceType ==
    ASSUME ConstantsAssumption, TypeInv, NEW r \in Runs, NEW q \in Resources,
           StartResource(r, q)
    PROVE  TypeInv'
<1> DEFINE state == [run[r] EXCEPT !.phase = "query", !.current = q,
                                   !.start = clock]
<1>1. run[r] \in RunState /\ clock \in Time BY DEF TypeInv, TypeOK
<1>2. state \in RunState /\ state.current = q
  BY <1>1 DEF RunState, RunPhase
<1>3. RunBecomes(r, state) BY DEF StartResource
<1>4. run' \in [Runs -> RunState] /\ RunsConsistent'
  BY <1>2, <1>3, RunBecomesType
<1> QED BY <1>4, RunChangeType DEF StartResource, TypeInv, TypeOK

LEMMA QueryType ==
    ASSUME ConstantsAssumption, TypeInv, NEW r \in Runs, Query(r)
    PROVE  TypeInv'
<1> DEFINE todo == Selected(r)
           state == [run[r] EXCEPT !.phase = "publish", !.todo = todo]
<1>1. run[r] \in RunState BY DEF TypeInv, TypeOK
<1>2. todo \in SUBSET Rows BY DEF Selected
<1>3. RunBecomes(r, state) BY DEF Query
<1>4. run[r].current \in Resources BY DEF Query, TypeInv, Consistent, RunsConsistent
<1> HIDE DEF todo
<1>5. state \in RunState /\ state.current = run[r].current
  BY <1>1, <1>2 DEF RunState, RunPhase
<1>6. run' \in [Runs -> RunState] /\ RunsConsistent'
  BY <1>3, <1>4, <1>5, RunBecomesType
<1> QED BY <1>6, RunChangeType DEF Query, TypeInv, TypeOK

\* A chunk published by a run is a well-formed message.
LEMMA ChunkMessageType ==
    ASSUME ConstantsAssumption, TypeInv, NEW r \in Runs,
           run[r].phase = "publish", NEW S, S \subseteq run[r].todo
    PROVE  ChunkMessage(r, S) \in Message
<1>1. run[r] \in RunState BY DEF TypeInv, TypeOK
<1>2. run[r].current \in Resources BY DEF TypeInv, Consistent, RunsConsistent
<1>3. S \subseteq Rows BY <1>1 DEF RunState
<1>4. {UserOf[row] : row \in S} \in SUBSET Users
  BY <1>3 DEF ConstantsAssumption
<1>5. run[r].tracked \in BOOLEAN /\ run[r].sent \in Nat
  BY <1>1 DEF RunState
<1> QED BY <1>2, <1>4, <1>5 DEF ChunkMessage, Message

LEMMA PublishChunkType ==
    ASSUME ConstantsAssumption, TypeInv, NEW r \in Runs, NEW S, PublishChunk(r, S)
    PROVE  TypeInv'
<1> DEFINE state == [run[r] EXCEPT !.todo = run[r].todo \ S,
                                   !.count = run[r].count + 1,
                                   !.sent = run[r].sent + 1]
<1>1. run[r] \in RunState BY DEF TypeInv, TypeOK
<1>2. /\ run[r].todo \ S \in SUBSET Rows
      /\ run[r].count + 1 \in Nat
      /\ run[r].sent + 1 \in Nat
  BY <1>1 DEF RunState
<1>3. state \in RunState /\ state.current = run[r].current
  BY <1>1, <1>2 DEF RunState
<1>4. run[r].current \in Resources BY DEF PublishChunk, TypeInv, Consistent, RunsConsistent
<1>5. RunBecomes(r, state) BY DEF PublishChunk
<1>6. run' \in [Runs -> RunState] /\ RunsConsistent'
  BY <1>3, <1>4, <1>5, RunBecomesType
<1>7. ChunkMessage(r, S) \in Message
  BY ChunkMessageType DEF PublishChunk, Chunk
<1>8. topic' \subseteq Message BY <1>7 DEF PublishChunk, TypeInv, TypeOK
<1> QED BY <1>6, <1>8, RunChangeType DEF PublishChunk, TypeInv, TypeOK

LEMMA PublishFailsType ==
    ASSUME ConstantsAssumption, TypeInv, NEW r \in Runs, NEW S, PublishFails(r, S)
    PROVE  TypeInv'
<1>1. run' \in [Runs -> RunState] /\ RunsConsistent'
  BY AdvanceType DEF PublishFails
<1>2. ChunkMessage(r, S) \in Message
  BY ChunkMessageType DEF PublishFails, Chunk
<1>3. topic' \subseteq Message BY <1>2 DEF PublishFails, TypeInv, TypeOK
<1>4. faults' \in FaultTally BY FaultType DEF PublishFails
<1> QED BY <1>1, <1>3, <1>4, RunChangeType DEF PublishFails, TypeInv, TypeOK

LEMMA QueryFailsType ==
    ASSUME ConstantsAssumption, TypeInv, NEW r \in Runs, QueryFails(r)
    PROVE  TypeInv'
<1>1. run' \in [Runs -> RunState] /\ RunsConsistent'
  BY AdvanceType DEF QueryFails
<1>2. faults' \in FaultTally BY FaultType DEF QueryFails
<1> QED BY <1>1, <1>2, RunChangeType DEF QueryFails, TypeInv, TypeOK

LEMMA SyncedAtType ==
    ASSUME TypeInv, NEW q \in Resources, NEW t \in Time
    PROVE  SyncedAt(q, t) \in [Resources -> Declaration]
<1>1. registry[q] \in Declaration BY DEF TypeInv, TypeOK
<1>2. Later(registry[q].syncedAt, t) \in Time BY <1>1 DEF Declaration, Later
<1>3. [registry[q] EXCEPT !.syncedAt = Later(registry[q].syncedAt, t)] \in Declaration
  BY <1>1, <1>2 DEF Declaration
<1> QED BY <1>3 DEF SyncedAt, TypeInv, TypeOK

LEMMA AttemptedAtType ==
    ASSUME TypeInv, NEW q \in Resources, NEW t \in Time
    PROVE  AttemptedAt(q, t) \in [Resources -> Declaration]
<1>1. registry[q] \in Declaration BY DEF TypeInv, TypeOK
<1>2. [registry[q] EXCEPT !.attemptedAt = t] \in Declaration
  BY <1>1 DEF Declaration
<1> QED BY <1>2 DEF AttemptedAt, TypeInv, TypeOK

LEMMA MarkSyncedType ==
    ASSUME ConstantsAssumption, TypeInv, NEW r \in Runs,
           MarkSynced(r) \/ MarkSyncedFails(r)
    PROVE  TypeInv'
<1> DEFINE state == [run[r] EXCEPT !.phase = "attempt"]
<1>1. run[r] \in RunState BY DEF TypeInv, TypeOK
<1>2. run[r].current \in Resources
  BY DEF MarkSynced, MarkSyncedFails, Published, TypeInv, Consistent, RunsConsistent
<1>3. state \in RunState /\ state.current = run[r].current
  BY <1>1 DEF RunState, RunPhase
<1>4. RunBecomes(r, state) BY DEF MarkSynced, MarkSyncedFails
<1>5. run' \in [Runs -> RunState] /\ RunsConsistent'
  BY <1>2, <1>3, <1>4, RunBecomesType
<1>6. run[r].start \in Time BY <1>1 DEF RunState
<1>7. registry' \in [Resources -> Declaration]
  BY <1>2, <1>6, SyncedAtType DEF MarkSynced, MarkSyncedFails, TypeInv, TypeOK
<1>8. faults' \in FaultTally
  BY FaultType DEF MarkSynced, MarkSyncedFails, TypeInv, TypeOK
<1> QED BY <1>5, <1>7, <1>8, RunChangeType
        DEF MarkSynced, MarkSyncedFails, TypeInv, TypeOK

LEMMA MarkAttemptedType ==
    ASSUME ConstantsAssumption, TypeInv, NEW r \in Runs,
           MarkAttempted(r) \/ MarkAttemptedFails(r)
    PROVE  TypeInv'
<1>1. run[r] \in RunState BY DEF TypeInv, TypeOK
<1>2. run[r].current \in Resources
  BY DEF MarkAttempted, MarkAttemptedFails, Attempting, Published, TypeInv, Consistent, RunsConsistent
<1>3. run[r].count \in Nat /\ run[r].start \in Time BY <1>1 DEF RunState
<1>4. run' \in [Runs -> RunState] /\ RunsConsistent'
  BY <1>3, AdvanceType DEF MarkAttempted, MarkAttemptedFails
<1>5. registry' \in [Resources -> Declaration]
  BY <1>2, <1>3, AttemptedAtType
     DEF MarkAttempted, MarkAttemptedFails, TypeInv, TypeOK
<1>6. faults' \in FaultTally
  BY FaultType DEF MarkAttempted, MarkAttemptedFails, TypeInv, TypeOK
<1> QED BY <1>4, <1>5, <1>6, RunChangeType
        DEF MarkAttempted, MarkAttemptedFails, TypeInv, TypeOK

LEMMA FinalizeType ==
    ASSUME ConstantsAssumption, TypeInv, NEW r \in Runs, Finalize(r)
    PROVE  TypeInv'
<1>1. run[r].total \in Nat BY DEF TypeInv, TypeOK, RunState
<1>2. syncRun[r] \in Progress BY DEF TypeInv, TypeOK
<1>3. [syncRun[r] EXCEPT !.final = TRUE, !.total = run[r].total] \in Progress
  BY <1>1, <1>2 DEF Progress
<1>4. syncRun' \in [Runs -> Progress] BY <1>3 DEF Finalize, TypeInv, TypeOK
<1>5. run' \in [Runs -> RunState] /\ RunsConsistent' BY StopType DEF Finalize
<1> QED BY <1>4, <1>5, RunChangeType DEF Finalize, TypeInv, TypeOK

LEMMA StoppedType ==
    ASSUME ConstantsAssumption, TypeInv, NEW r \in Runs,
           FinalizeFails(r) \/ TriggerDies(r)
    PROVE  TypeInv'
<1>1. run' \in [Runs -> RunState] /\ RunsConsistent'
  BY StopType DEF FinalizeFails, TriggerDies
<1>2. faults' \in FaultTally BY FaultType DEF FinalizeFails, TriggerDies
<1> QED BY <1>1, <1>2, RunChangeType DEF FinalizeFails, TriggerDies, TypeInv, TypeOK

LEMMA EnumerationType ==
    ASSUME ConstantsAssumption, TypeInv, EnumerationNext
    PROVE  TypeInv'
<1>1. PICK r \in Runs :
         \/ \E asked \in Resources \cup {NoResource}, force \in BOOLEAN :
               Trigger(r, asked, force)
         \/ RunStep(r)
         \/ RunFails(r)
  BY DEF EnumerationNext
<1>2. CASE \E asked \in Resources \cup {NoResource}, force \in BOOLEAN :
               Trigger(r, asked, force)
  BY <1>2, TriggerType
<1>3. CASE RunStep(r)
  BY <1>3, FetchRegistryType, StartResourceType, QueryType, PublishChunkType,
     MarkSyncedType, MarkAttemptedType, FinalizeType DEF RunStep
<1>4. CASE RunFails(r)
  BY <1>4, FetchRegistryFailsType, PublishFailsType, QueryFailsType,
     MarkSyncedType, MarkAttemptedType, StoppedType DEF RunFails
<1> QED BY <1>1, <1>2, <1>3, <1>4

-----------------------------------------------------------------------------
(* The chunk requests                                                      *)

LEMMA RequestType ==
    ASSUME TypeInv, NEW w \in Workers
    PROVE  worker[w] \in WorkerState /\ RequestConsistent(worker[w])
BY DEF TypeInv, TypeOK, Consistent, RequestConsistent

LEMMA BusyType ==
    ASSUME TypeInv, NEW w \in Workers, worker[w].phase # "idle"
    PROVE  /\ worker[w].msg \in Message
           /\ Resource(w) \in Resources
           /\ worker[w].msg.users \in SUBSET Users
           /\ worker[w].msg.run \in Runs
           /\ worker[w].msg.tracked \in BOOLEAN
BY DEF TypeInv, Consistent, RequestConsistent, Resource, Message

\* A step that only moves a request to another phase.
LEMMA PhaseType ==
    ASSUME TypeInv, NEW w \in Workers, NEW phase \in WorkerPhase,
           phase # "idle", worker[w].phase # "idle", Becomes(w, [worker[w] EXCEPT !.phase = phase])
    PROVE  /\ worker' \in [Workers -> WorkerState]
           /\ \A v \in Workers : RequestConsistent(worker'[v])
<1> DEFINE state == [worker[w] EXCEPT !.phase = phase]
<1>1. worker[w] \in WorkerState /\ RequestConsistent(worker[w])
  BY RequestType
<1>2. state \in WorkerState BY <1>1 DEF WorkerState
<1>3. state.msg = worker[w].msg /\ state.cells = worker[w].cells
  BY <1>1 DEF WorkerState
<1>4. RequestConsistent(state) BY <1>1, <1>3 DEF RequestConsistent
<1> QED BY <1>2, <1>4, BecomesType

LEMMA IdleType ==
    ASSUME TypeInv, NEW w \in Workers, Idle(w)
    PROVE  /\ worker' \in [Workers -> WorkerState]
           /\ \A v \in Workers : RequestConsistent(worker'[v])
<1>1. IdleWorker \in WorkerState /\ RequestConsistent(IdleWorker)
  BY DEF IdleWorker, WorkerState, WorkerPhase, RequestConsistent
<1> QED BY <1>1, BecomesType DEF Idle

\* What a step of a request may change, and what is left to show of it.
LEMMA RequestChangeType ==
    ASSUME TypeInv,
           worker' \in [Workers -> WorkerState],
           \A w \in Workers : RequestConsistent(worker'[w]),
           key' \in [Users -> KeyState],
           syncRun' \in [Runs -> Progress],
           topic' \subseteq Message,
           cache' \in [Instances -> SUBSET Users],
           vault' \in [VaultKey -> Nat],
           copy' \subseteq CopyRow,
           dropped' \subseteq Resources \X Users,
           faults' \in FaultTally,
           UNCHANGED <<clock, source, registry, run>>
    PROVE  TypeInv'
BY DEF TypeInv, TypeOK, Consistent, RunsConsistent, RequestConsistent

LEMMA DeliverType ==
    ASSUME ConstantsAssumption, TypeInv, NEW w \in Workers, NEW m, Deliver(w, m)
    PROVE  TypeInv'
<1> DEFINE state == [worker[w] EXCEPT !.phase = "registry", !.msg = m]
<1>1. m \in Message BY DEF Deliver, TypeInv, TypeOK
<1>2. worker[w] \in WorkerState BY RequestType
<1>3. state \in WorkerState BY <1>1, <1>2 DEF WorkerState, WorkerPhase
<1>4. worker[w].cells = {} BY RequestType DEF Deliver, RequestConsistent, IdleWorker
<1>5. state.phase = "registry" /\ state.msg = m /\ state.cells = {}
  BY <1>2, <1>4 DEF WorkerState
<1>6. RequestConsistent(state) BY <1>1, <1>5 DEF RequestConsistent
<1>7. Becomes(w, state) BY DEF Deliver
<1>8. /\ worker' \in [Workers -> WorkerState]
      /\ \A v \in Workers : RequestConsistent(worker'[v])
  BY <1>3, <1>6, <1>7, BecomesType
<1>9. faults' \in FaultTally BY FaultType DEF Deliver, TypeInv, TypeOK
<1> QED BY <1>8, <1>9, RequestChangeType DEF Deliver, TypeInv, TypeOK

LEMMA ReadRegistryType ==
    ASSUME ConstantsAssumption, TypeInv, NEW w \in Workers, ReadRegistry(w)
    PROVE  TypeInv'
<1> DEFINE q == Resource(w)
           fields == registry[q].encrypt
           state == [worker[w] EXCEPT !.phase = "source", !.fields = fields]
<1>1. worker[w] \in WorkerState /\ RequestConsistent(worker[w])
  BY RequestType
<1>2. /\ worker[w].phase = "registry"
      /\ q \in Resources
      /\ worker[w].msg.users \in SUBSET Users
  BY BusyType DEF ReadRegistry
<1>3. fields \in SUBSET Fields BY <1>2 DEF TypeInv, TypeOK, Declaration
<1>4. CASE Becomes(w, state) /\ UNCHANGED dropped
  <2>1. state \in WorkerState BY <1>1, <1>3 DEF WorkerState, WorkerPhase
  <2>2. /\ state.phase = "source"
        /\ state.msg = worker[w].msg
        /\ state.cells = worker[w].cells
    BY <1>1 DEF WorkerState
  <2>3. RequestConsistent(state) BY <1>1, <1>2, <2>2 DEF RequestConsistent
  <2>4. /\ worker' \in [Workers -> WorkerState]
        /\ \A v \in Workers : RequestConsistent(worker'[v])
    BY <1>4, <2>1, <2>3, BecomesType
  <2> QED BY <1>4, <2>4, RequestChangeType DEF ReadRegistry, TypeInv, TypeOK
<1>5. CASE /\ Becomes(w, [worker[w] EXCEPT !.phase = "report"])
           /\ dropped' = dropped \cup ({q} \X worker[w].msg.users)
  <2>1. /\ worker' \in [Workers -> WorkerState]
        /\ \A v \in Workers : RequestConsistent(worker'[v])
    BY <1>2, <1>5, PhaseType DEF WorkerPhase
  <2>2. dropped' \subseteq Resources \X Users
    BY <1>2, <1>5 DEF TypeInv, TypeOK
  <2> QED BY <2>1, <2>2, RequestChangeType DEF ReadRegistry, TypeInv, TypeOK
<1> QED BY <1>4, <1>5 DEF ReadRegistry

LEMMA ReadSourceType ==
    ASSUME ConstantsAssumption, TypeInv, NEW w \in Workers, ReadSource(w)
    PROVE  TypeInv'
<1> DEFINE found == {row \in Rows : /\ ResourceOf[row] = Resource(w)
                                    /\ source[row].present
                                    /\ UserOf[row] \in worker[w].msg.users}
           cells == {c \in found \X worker[w].fields : c[2] \in source[c[1]].filled}
           phase == IF found = {} THEN "report" ELSE "existing"
           state == [worker[w] EXCEPT !.phase = phase, !.rows = found,
                                      !.cells = cells]
<1>1. worker[w] \in WorkerState /\ worker[w].phase = "source"
  BY RequestType DEF ReadSource
<1>2. worker[w].msg \in Message BY <1>1, BusyType
<1>3. found \in SUBSET Rows OBVIOUS
<1>4. cells \in SUBSET (Rows \X Fields) BY <1>1, <1>3 DEF WorkerState
<1>5. \A c \in cells : ResourceOf[c[1]] = worker[w].msg.resource
  BY DEF Resource
<1>6. phase \in WorkerPhase /\ phase # "idle" BY DEF WorkerPhase
<1>7. Becomes(w, state) BY DEF ReadSource
<1> HIDE DEF found, cells, phase
<1>8. state \in WorkerState BY <1>1, <1>3, <1>4, <1>6 DEF WorkerState
<1>9. state.phase = phase /\ state.msg = worker[w].msg /\ state.cells = cells
  BY <1>1 DEF WorkerState
<1>10. RequestConsistent(state) BY <1>2, <1>5, <1>6, <1>9 DEF RequestConsistent
<1>11. /\ worker' \in [Workers -> WorkerState]
       /\ \A v \in Workers : RequestConsistent(worker'[v])
  BY <1>7, <1>8, <1>10, BecomesType
<1> QED BY <1>11, RequestChangeType DEF ReadSource, TypeInv, TypeOK

LEMMA ReadExistingType ==
    ASSUME ConstantsAssumption, TypeInv, NEW w \in Workers, ReadExisting(w)
    PROVE  TypeInv'
<1> DEFINE missing == {p \in {UserOf[row] : row \in worker[w].rows}
                                \X worker[w].fields :
                          ~AlreadySynced(Resource(w), p[1], p[2])}
           phase == IF missing = {} THEN "report" ELSE "keys"
           state == [worker[w] EXCEPT !.phase = phase, !.missing = missing]
<1>1. worker[w] \in WorkerState /\ worker[w].phase = "existing"
      /\ RequestConsistent(worker[w])
  BY RequestType DEF ReadExisting
<1>2. worker[w].rows \in SUBSET Rows /\ worker[w].fields \in SUBSET Fields
  BY <1>1 DEF WorkerState
<1>3. {UserOf[row] : row \in worker[w].rows} \in SUBSET Users
  BY <1>2 DEF ConstantsAssumption
<1>4. missing \in SUBSET (Users \X Fields) BY <1>2, <1>3
<1>5. phase \in WorkerPhase /\ phase # "idle" BY DEF WorkerPhase
<1>6. Becomes(w, state) BY DEF ReadExisting
<1> HIDE DEF missing, phase
<1>7. state \in WorkerState BY <1>1, <1>4, <1>5 DEF WorkerState
<1>8. /\ state.phase = phase
      /\ state.msg = worker[w].msg
      /\ state.cells = worker[w].cells
  BY <1>1 DEF WorkerState
<1>9. RequestConsistent(state) BY <1>1, <1>5, <1>8 DEF RequestConsistent
<1>10. /\ worker' \in [Workers -> WorkerState]
       /\ \A v \in Workers : RequestConsistent(worker'[v])
  BY <1>6, <1>7, <1>9, BecomesType
<1> QED BY <1>10, RequestChangeType DEF ReadExisting, TypeInv, TypeOK

LEMMA WithKeysType ==
    ASSUME TypeInv, NEW users
    PROVE  WithKeys(users) \in [Users -> KeyState]
BY DEF TypeInv, TypeOK, WithKeys, KeyState

LEMMA CreateKeysType ==
    ASSUME ConstantsAssumption, TypeInv, NEW w \in Workers, CreateKeys(w)
    PROVE  TypeInv'
<1>1. /\ worker' \in [Workers -> WorkerState]
      /\ \A v \in Workers : RequestConsistent(worker'[v])
  BY PhaseType DEF CreateKeys, WorkerPhase
<1>2. key' \in [Users -> KeyState] BY WithKeysType DEF CreateKeys
<1> QED BY <1>1, <1>2, RequestChangeType DEF CreateKeys, TypeInv, TypeOK

LEMMA FetchContextsType ==
    ASSUME ConstantsAssumption, TypeInv, NEW w \in Workers, NEW answer \in SUBSET Users,
           FetchContexts(w, answer) \/ FetchContextsOmits(w, answer)
    PROVE  TypeInv'
<1> DEFINE ready == Cached(w) \cup {u \in answer : key[u] = "active"}
           phase == IF \E u \in answer : key[u] = "shredded" THEN "refused" ELSE "unwrap"
           state == [worker[w] EXCEPT !.phase = phase, !.ready = ready]
<1>1. worker[w] \in WorkerState /\ RequestConsistent(worker[w])
      /\ worker[w].phase = "contexts"
  BY RequestType DEF FetchContexts, FetchContextsOmits
<1>2. ready \in SUBSET Users BY DEF Cached, WorkUsers
<1>3. phase \in WorkerPhase /\ phase # "idle" BY DEF WorkerPhase
<1>4. Becomes(w, state) BY DEF FetchContexts, FetchContextsOmits, Fetched
<1> HIDE DEF ready, phase
<1>5. state \in WorkerState BY <1>1, <1>2, <1>3 DEF WorkerState
<1>6. state.phase = phase /\ state.msg = worker[w].msg /\ state.cells = worker[w].cells
  BY <1>1 DEF WorkerState
<1>7. RequestConsistent(state) BY <1>1, <1>3, <1>6 DEF RequestConsistent
<1>8. /\ worker' \in [Workers -> WorkerState]
      /\ \A v \in Workers : RequestConsistent(worker'[v])
  BY <1>4, <1>5, <1>7, BecomesType
<1>9. faults' \in FaultTally
  BY FaultType DEF FetchContexts, FetchContextsOmits, TypeInv, TypeOK
<1> QED BY <1>8, <1>9, RequestChangeType
        DEF FetchContexts, FetchContextsOmits, TypeInv, TypeOK

LEMMA CachingType ==
    ASSUME ConstantsAssumption, TypeInv, NEW w \in Workers, NEW users \in SUBSET Users
    PROVE  Caching(w, users) \in [Instances -> SUBSET Users]
BY DEF Caching, ConstantsAssumption, TypeInv, TypeOK

LEMMA UnwrapType ==
    ASSUME ConstantsAssumption, TypeInv, NEW w \in Workers,
           UnwrapContexts(w) \/ \E warmed \in SUBSET Users : UnwrapRaises(w, warmed)
    PROVE  TypeInv'
<1>1. worker[w].ready \in SUBSET Users BY RequestType DEF WorkerState
<1>2. /\ worker' \in [Workers -> WorkerState]
      /\ \A v \in Workers : RequestConsistent(worker'[v])
  BY PhaseType DEF UnwrapContexts, UnwrapRaises, WorkerPhase
<1>3. cache' \in [Instances -> SUBSET Users]
  BY <1>1, CachingType DEF UnwrapContexts, UnwrapRaises
<1>4. dropped' \subseteq Resources \X Users
  <2>1. CASE UnwrapContexts(w)
    <3>1. Resource(w) \in Resources BY <2>1, BusyType DEF UnwrapContexts
    <3>2. WorkUsers(w) \subseteq Users BY DEF WorkUsers
    <3> QED BY <2>1, <3>1, <3>2 DEF UnwrapContexts, TypeInv, TypeOK
  <2>2. CASE \E warmed \in SUBSET Users : UnwrapRaises(w, warmed)
    BY <2>2 DEF UnwrapRaises, TypeInv, TypeOK
  <2> QED BY <2>1, <2>2
<1> QED BY <1>2, <1>3, <1>4, RequestChangeType
        DEF UnwrapContexts, UnwrapRaises, TypeInv, TypeOK

\* The rows an insert adds under one natural key are finitely many: at most the
\* source rows that share the key.
LEMMA InsertedCount ==
    ASSUME ConstantsAssumption, NEW k, NEW records
    PROVE  /\ IsFiniteSet(RowsOf(k))
           /\ Cardinality(RowsOf(k)) \in Nat
           /\ Cardinality(Added(k, records)) \in Nat
           /\ Cardinality(Added(k, records)) <= Cardinality(RowsOf(k))
<1>1. IsFiniteSet(RowsOf(k)) BY FS_Subset DEF ConstantsAssumption, RowsOf
<1>2. Added(k, records) \subseteq RowsOf(k) BY DEF Added
<1>3. /\ IsFiniteSet(Added(k, records))
      /\ Cardinality(Added(k, records)) <= Cardinality(RowsOf(k))
  BY <1>1, <1>2, FS_Subset
<1> QED BY <1>1, <1>3, FS_CardinalityType

LEMMA InsertedType ==
    ASSUME ConstantsAssumption, TypeInv, NEW records
    PROVE  Inserted(records) \in [VaultKey -> Nat]
<1>1. \A k \in VaultKey : vault[k] \in Nat BY DEF TypeInv, TypeOK
<1>2. \A k \in VaultKey : Cardinality(Added(k, records)) \in Nat
  BY InsertedCount
<1> QED BY <1>1, <1>2 DEF Inserted

LEMMA InsertRecordsType ==
    ASSUME ConstantsAssumption, TypeInv, NEW w \in Workers, InsertRecords(w)
    PROVE  TypeInv'
<1>1. /\ worker' \in [Workers -> WorkerState]
      /\ \A v \in Workers : RequestConsistent(worker'[v])
  BY PhaseType DEF InsertRecords, WorkerPhase
<1>2. vault' \in [VaultKey -> Nat] BY InsertedType DEF InsertRecords
<1> QED BY <1>1, <1>2, RequestChangeType DEF InsertRecords, TypeInv, TypeOK

LEMMA InsertFailsType ==
    ASSUME ConstantsAssumption, TypeInv, NEW w \in Workers, NEW landed,
           InsertFails(w, landed)
    PROVE  TypeInv'
<1>1. /\ worker' \in [Workers -> WorkerState]
      /\ \A v \in Workers : RequestConsistent(worker'[v])
  BY PhaseType DEF InsertFails, WorkerPhase
<1>2. vault' \in [VaultKey -> Nat] BY InsertedType DEF InsertFails
<1>3. faults' \in FaultTally BY FaultType DEF InsertFails
<1> QED BY <1>1, <1>2, <1>3, RequestChangeType DEF InsertFails, TypeInv, TypeOK

LEMMA CopyRowsType ==
    ASSUME TypeInv, NEW w \in Workers
    PROVE  CopyRows(w) \subseteq CopyRow
<1>1. worker[w].rows \in SUBSET Rows BY DEF TypeInv, TypeOK, WorkerState
<1>2. SUFFICES ASSUME NEW c \in CopyRows(w) PROVE c \in CopyRow
  OBVIOUS
<1>3. PICK row \in worker[w].rows, cipher \in SUBSET Fields, plain \in SUBSET Fields :
         c = [row |-> row, cipher |-> cipher, plain |-> plain]
  BY DEF CopyRows
<1> QED BY <1>1, <1>3 DEF CopyRow

LEMMA AppendCopyType ==
    ASSUME ConstantsAssumption, TypeInv, NEW w \in Workers,
           AppendCopy(w) \/ AppendCopyFails(w)
    PROVE  TypeInv'
<1>1. /\ worker' \in [Workers -> WorkerState]
      /\ \A v \in Workers : RequestConsistent(worker'[v])
  BY PhaseType DEF AppendCopy, AppendCopyFails, WorkerPhase
<1>2. copy' \subseteq CopyRow
  BY CopyRowsType DEF AppendCopy, AppendCopyFails, TypeInv, TypeOK
<1>3. faults' \in FaultTally
  BY FaultType DEF AppendCopy, AppendCopyFails, TypeInv, TypeOK
<1> QED BY <1>1, <1>2, <1>3, RequestChangeType
        DEF AppendCopy, AppendCopyFails, TypeInv, TypeOK

LEMMA CallFailsType ==
    ASSUME ConstantsAssumption, TypeInv, NEW w \in Workers, CallFails(w)
    PROVE  TypeInv'
<1>1. /\ worker' \in [Workers -> WorkerState]
      /\ \A v \in Workers : RequestConsistent(worker'[v])
  BY PhaseType DEF CallFails, WorkerPhase
<1>2. key' \in [Users -> KeyState]
  BY WithKeysType DEF CallFails, TypeInv, TypeOK
<1>3. faults' \in FaultTally BY FaultType DEF CallFails
<1>4. cache' \in [Instances -> SUBSET Users]
  <2>1. worker[w].ready \in SUBSET Users BY RequestType DEF WorkerState
  <2> QED BY <2>1, CachingType DEF CallFails, TypeInv, TypeOK
<1> QED BY <1>1, <1>2, <1>3, <1>4, RequestChangeType DEF CallFails, TypeInv, TypeOK

LEMMA ProgressedType ==
    ASSUME TypeInv, NEW w \in Workers, worker[w].phase # "idle",
           NEW completed \in Nat, NEW failed \in Nat
    PROVE  Progressed(w, completed, failed) \in [Runs -> Progress]
<1> DEFINE r == worker[w].msg.run
           completedNow == syncRun[r].completed + completed
           failedNow == IF syncRun[r].failed < MaxReports
                        THEN syncRun[r].failed + failed ELSE syncRun[r].failed
           doc == [syncRun[r] EXCEPT !.completed = completedNow, !.failed = failedNow]
<1>1. r \in Runs BY BusyType
<1>2. syncRun[r] \in Progress BY <1>1 DEF TypeInv, TypeOK
<1>3. completedNow \in Nat /\ failedNow \in Nat BY <1>2 DEF Progress
<1>4. Progressed(w, completed, failed) \in {syncRun, [syncRun EXCEPT ![r] = doc]}
  BY DEF Progressed
<1> HIDE DEF completedNow, failedNow
<1>5. doc \in Progress BY <1>2, <1>3 DEF Progress
<1> QED BY <1>1, <1>4, <1>5 DEF TypeInv, TypeOK

LEMMA ReportCompletedType ==
    ASSUME ConstantsAssumption, TypeInv, NEW w \in Workers,
           ReportCompleted(w) \/ ReportCompletedTwice(w)
    PROVE  TypeInv'
<1> DEFINE state == [IdleWorker EXCEPT !.phase = "answer", !.msg = worker[w].msg]
<1>1. worker[w].phase = "report" /\ worker[w].msg \in Message
  BY BusyType DEF ReportCompleted, ReportCompletedTwice
<1>2. state \in WorkerState BY <1>1 DEF IdleWorker, WorkerState, WorkerPhase
<1>3. RequestConsistent(state) BY <1>1 DEF IdleWorker, RequestConsistent
<1>4. Becomes(w, state) BY DEF ReportCompleted, ReportCompletedTwice
<1>5. /\ worker' \in [Workers -> WorkerState]
      /\ \A v \in Workers : RequestConsistent(worker'[v])
  BY <1>2, <1>3, <1>4, BecomesType
<1>6. /\ Progressed(w, 1, 0) \in [Runs -> Progress]
      /\ Progressed(w, 2, 0) \in [Runs -> Progress]
  BY <1>1, ProgressedType
<1>7. faults' \in FaultTally
  BY FaultType DEF ReportCompleted, ReportCompletedTwice, TypeInv, TypeOK
<1>8. syncRun' \in [Runs -> Progress]
  BY <1>6 DEF ReportCompleted, ReportCompletedTwice
<1> QED BY <1>5, <1>7, <1>8, RequestChangeType
        DEF ReportCompleted, ReportCompletedTwice, TypeInv, TypeOK

LEMMA BackToIdleType ==
    ASSUME ConstantsAssumption, TypeInv, NEW w \in Workers,
           \/ ReportCompletedFails(w)
           \/ ReportFailed(w)
           \/ ReportFailedFails(w)
           \/ Answer(w)
           \/ AnswerLost(w)
    PROVE  TypeInv'
<1>1. /\ worker' \in [Workers -> WorkerState]
      /\ \A v \in Workers : RequestConsistent(worker'[v])
  BY IdleType DEF ReportCompletedFails, ReportFailed, ReportFailedFails, Answer, AnswerLost
<1>2. syncRun' \in [Runs -> Progress]
  BY ProgressedType DEF ReportCompletedFails, ReportFailed, ReportFailedFails,
     Answer, AnswerLost, TypeInv, TypeOK
<1>3. faults' \in FaultTally
  BY FaultType DEF ReportCompletedFails, ReportFailed, ReportFailedFails,
     Answer, AnswerLost, TypeInv, TypeOK
<1>4. topic' \subseteq Message
  BY DEF ReportCompletedFails, ReportFailed, ReportFailedFails, Answer, AnswerLost,
     TypeInv, TypeOK
<1> QED BY <1>1, <1>2, <1>3, <1>4, RequestChangeType
        DEF ReportCompletedFails, ReportFailed, ReportFailedFails, Answer, AnswerLost,
            TypeInv, TypeOK

LEMMA InstanceDiesType ==
    ASSUME ConstantsAssumption, TypeInv, NEW i \in Instances, InstanceDies(i)
    PROVE  TypeInv'
<1>1. IdleWorker \in WorkerState /\ RequestConsistent(IdleWorker)
  BY DEF IdleWorker, WorkerState, WorkerPhase, RequestConsistent
<1>2. /\ worker' \in [Workers -> WorkerState]
      /\ \A v \in Workers : RequestConsistent(worker'[v])
  BY <1>1, RequestType DEF InstanceDies
<1>3. cache' \in [Instances -> SUBSET Users]
  BY DEF InstanceDies, TypeInv, TypeOK
<1>4. faults' \in FaultTally BY FaultType DEF InstanceDies
<1> QED BY <1>2, <1>3, <1>4, RequestChangeType DEF InstanceDies, TypeInv, TypeOK

LEMMA WorkerType ==
    ASSUME ConstantsAssumption, TypeInv, WorkerNext
    PROVE  TypeInv'
<1>1. CASE \E i \in Instances : InstanceDies(i) BY <1>1, InstanceDiesType
<1>2. ASSUME NEW w \in Workers, NEW m \in topic, Deliver(w, m) PROVE TypeInv'
  BY <1>2, DeliverType
<1>3. ASSUME NEW w \in Workers, WorkerStep(w) PROVE TypeInv'
  BY <1>3, ReadRegistryType, ReadSourceType, ReadExistingType, CreateKeysType,
     FetchContextsType, UnwrapType, InsertRecordsType,
     AppendCopyType, ReportCompletedType, BackToIdleType DEF WorkerStep
<1>4. ASSUME NEW w \in Workers, WorkerFails(w) PROVE TypeInv'
  BY <1>4, CallFailsType, FetchContextsType, InsertFailsType, AppendCopyType,
     ReportCompletedType, BackToIdleType DEF WorkerFails
<1> QED BY <1>1, <1>2, <1>3, <1>4 DEF WorkerNext

-----------------------------------------------------------------------------
(* The outside world, and the whole                                        *)

LEMMA OutsideType ==
    ASSUME ConstantsAssumption, TypeInv, Outside
    PROVE  TypeInv'
<1> USE DEF TypeInv, TypeOK, Consistent, RunsConsistent, RequestConsistent
<1>1. CASE Tick BY <1>1 DEF Tick, ConstantsAssumption, Time
<1>2. ASSUME NEW row \in Rows, NEW filled \in SUBSET Fields, NEW at \in Time,
             WriteRow(row, filled, at)
      PROVE  TypeInv'
  BY <1>2 DEF WriteRow, SourceRow
<1>3. ASSUME NEW row \in Rows, DeleteRow(row) PROVE TypeInv'
  BY <1>3, TimeZero DEF DeleteRow, NoRow, SourceRow
<1>4. ASSUME NEW q \in Resources, Redeclare(q) PROVE TypeInv'
  <2>1. PICK t \in {0, registry[q].syncedAt} :
          registry' = [registry EXCEPT ![q] = [registry[q] EXCEPT
                          !.declared = ~registry[q].declared, !.syncedAt = t]]
    BY <1>4 DEF Redeclare
  <2>2. registry[q] \in Declaration OBVIOUS
  <2>3. t \in Time BY <2>2, TimeZero DEF Declaration
  <2>4. [registry[q] EXCEPT !.declared = ~registry[q].declared, !.syncedAt = t]
          \in Declaration
    BY <2>2, <2>3 DEF Declaration
  <2> QED BY <1>4, <2>1, <2>4 DEF Redeclare
<1>5. ASSUME NEW q \in Resources, NEW f \in Fields, AddField(q, f) PROVE TypeInv'
  <2>1. registry[q] \in Declaration OBVIOUS
  <2>2. registry[q].encrypt \cup {f} \in SUBSET Fields BY <2>1 DEF Declaration
  <2>3. [registry[q] EXCEPT !.encrypt = registry[q].encrypt \cup {f}] \in Declaration
    BY <2>1, <2>2 DEF Declaration
  <2> QED BY <1>5, <2>3 DEF AddField
<1>6. ASSUME NEW u \in Users, Shred(u) PROVE TypeInv'
  BY <1>6 DEF Shred, KeyState
<1> QED BY <1>1, <1>2, <1>3, <1>4, <1>5, <1>6 DEF Outside

LEMMA InitType == ConstantsAssumption /\ Init => TypeInv
<1> SUFFICES ASSUME ConstantsAssumption, Init PROVE TypeInv OBVIOUS
<1> USE DEF Init
<1>1. 0 \in Time /\ 1 \in Time BY DEF ConstantsAssumption, Time
<1>2. source \in [Rows -> SourceRow]
  <2> DEFINE Initial == {NoRow} \cup
               {[present |-> TRUE, at |-> 1, filled |-> F] : F \in SUBSET Fields}
  <2>1. NoRow \in SourceRow BY <1>1 DEF NoRow, SourceRow
  <2>2. \A F \in SUBSET Fields :
           [present |-> TRUE, at |-> 1, filled |-> F] \in SourceRow
    BY <1>1 DEF SourceRow
  <2>3. Initial \subseteq SourceRow BY <2>1, <2>2
  <2>4. source \in [Rows -> Initial] OBVIOUS
  <2> HIDE DEF Initial
  <2> QED BY <2>3, <2>4
<1>3. registry \in [Resources -> Declaration]
  BY <1>1 DEF Declaration, ConstantsAssumption
<1>4. syncRun \in [Runs -> Progress] BY DEF Progress
<1>5. IdleRun \in RunState BY <1>1 DEF IdleRun, RunState, RunPhase
<1>6. IdleWorker \in WorkerState BY DEF IdleWorker, WorkerState, WorkerPhase
<1>7. RunsConsistent BY DEF RunsConsistent, IdleRun
<1>8. \A w \in Workers : RequestConsistent(worker[w])
  BY DEF RequestConsistent, IdleWorker
<1>9. faults \in FaultTally BY DEF FaultTally, ConstantsAssumption
<1>10. key \in [Users -> KeyState] /\ vault \in [VaultKey -> Nat]
  BY DEF KeyState
<1> QED BY <1>1, <1>2, <1>3, <1>4, <1>5, <1>6, <1>7, <1>8, <1>9, <1>10
        DEF TypeInv, TypeOK, Consistent

LEMMA NextType == ConstantsAssumption /\ TypeInv /\ [Next]_vars => TypeInv'
<1> SUFFICES ASSUME ConstantsAssumption, TypeInv, [Next]_vars PROVE TypeInv'
  OBVIOUS
<1>1. CASE EnumerationNext BY <1>1, EnumerationType
<1>2. CASE WorkerNext BY <1>2, WorkerType
<1>3. CASE Outside BY <1>3, OutsideType
<1>4. CASE UNCHANGED vars
  BY <1>4 DEF vars, TypeInv, TypeOK, Consistent, RunsConsistent, RequestConsistent
<1> QED BY <1>1, <1>2, <1>3, <1>4 DEF Next, Quiescent

\* Types are preserved by every step of every trigger, request and outside
\* change, for any number of each.
THEOREM TypeCorrect == Spec => []TypeOK
<1>1. Spec => []TypeInv
  BY ConstantsAssumption, InitType, NextType, PTL DEF Spec
<1>2. TypeInv => TypeOK BY DEF TypeInv
<1> QED BY <1>1, <1>2, PTL
=============================================================================
