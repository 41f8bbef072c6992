----------------------------- MODULE PushIngest -----------------------------
(***************************************************************************)
(* The push endpoints together: customers' messages, records of the        *)
(* landing zone and records of the sequential ingestor, handled by         *)
(* concurrent requests while declarations change and users' keys are       *)
(* made, rotated and shredded.                                             *)
(***************************************************************************)
EXTENDS CustomerIngest, WarehouseIngest

Init ==
    /\ waiting \in Backlogs
    /\ request = [r \in Requests |-> IdleRequest]
    /\ registry \in [Resources -> Declaration]
    /\ \A q \in Resources : registry[q] \in Declarations[q]
    /\ key = [u \in Users |-> [version |-> 0, shredded |-> FALSE]]
    /\ cache = [i \in Instances |-> [u \in Users |-> 0]]
    /\ vault = [v \in Messages \X Fields |-> 0]
    /\ raw = [m \in Messages |-> 0]
    /\ late = 0 /\ changes = 0 /\ faults = 0

-----------------------------------------------------------------------------
(* The outside world                                                       *)

Redeclare(q, d) ==
    /\ "declare" \in Possible
    /\ changes < MaxChanges
    /\ d \in Declarations[q] \ {registry[q]}
    /\ registry' = [registry EXCEPT ![q] = d]
    /\ changes' = changes + 1
    /\ UNCHANGED <<waiting, request, key, cache, vault, raw, late, faults>>

SetKey(u, state) ==
    /\ key' = [key EXCEPT ![u] = state]
    /\ UNCHANGED <<waiting, request, registry, cache, vault, raw, late, changes, faults>>

\* The landing zone or the sync makes a key.
KeyMade(u) ==
    /\ key[u].version = 0
    /\ SetKey(u, [version |-> 1, shredded |-> FALSE])

Rotate(u) ==
    /\ "rotate" \in Possible
    /\ key[u].version \in 1..(MaxVersion - 1) /\ ~key[u].shredded
    /\ SetKey(u, [key[u] EXCEPT !.version = key[u].version + 1])

Shred(u) ==
    /\ "shred" \in Possible
    /\ key[u].version # 0 /\ ~key[u].shredded
    /\ SetKey(u, [key[u] EXCEPT !.shredded = TRUE])

Outside ==
    \/ \E q \in Resources : \E d \in Declarations[q] : Redeclare(q, d)
    \/ \E u \in Users : KeyMade(u) \/ Rotate(u) \/ Shred(u)

-----------------------------------------------------------------------------
RequestStep(r) ==
    \/ CustomerStep(r)
    \/ ContextStep(r)
    \/ WarehouseStep(r)
    \/ Answer(r)

RequestFails(r) ==
    \/ CallFails(r)
    \/ CustomerFails(r)
    \/ WarehouseFails(r)
    \/ AnswerLost(r)

Next ==
    \/ \E r \in Requests, m \in Messages : Deliver(r, m)
    \/ \E r \in Requests : RequestStep(r)
    \/ \E r \in Requests : RequestFails(r)
    \/ \E i \in Instances : InstanceDies(i)
    \/ Outside

Spec == Init /\ [][Next]_vars

\* Pub/Sub pushes what is not acknowledged and not held by a request.
Redeliver == \E r \in Requests, m \in Messages : ~Held(m) /\ Deliver(r, m)

\* A request that has started goes on, and Pub/Sub keeps pushing.  No failure
\* and nothing of the outside world is assumed to happen.
Fairness ==
    /\ \A r \in Requests : WF_vars(RequestStep(r))
    /\ WF_vars(Redeliver)

FairSpec == Spec /\ Fairness

-----------------------------------------------------------------------------
(* Safety                                                                  *)

\* Types of the variables.
TypeOK ==
    /\ waiting \subseteq Messages
    /\ request \in [Requests -> RequestState]
    /\ registry \in [Resources -> Declaration]
    /\ key \in [Users -> KeyState]
    /\ cache \in [Instances -> [Users -> Version]]
    /\ vault \in [Messages \X Fields -> Nat]
    /\ raw \in [Messages -> Nat]
    /\ late \in Nat /\ changes \in 0..MaxChanges /\ faults \in 0..MaxFaults

\* What a message obliges to, whichever of its declarations it is handled
\* under: the record, or the fields that all of them encrypt.
Owes(m) ==
    IF m \in Malformed THEN {}
    ELSE IF Routes[m] # "customer" THEN {<<m, "record">>}
    ELSE IF Owner[m] = NoUser THEN {}
    ELSE {<<m, f>> : f \in {g \in Present[m] :
                               \A d \in Declarations[Topic[m]] :
                                  d.declared /\ d.keyed => g \in d.encrypt}}

Stored == {v \in Messages \X Fields : vault[v] > 0}
             \cup {<<m, "record">> : m \in {n \in Messages : raw[n] > 0}}

Promise == INSTANCE AtLeastOnce WITH
    Values <- Messages \X (Fields \cup {"record"}),
    Owed <- [m \in Messages |-> Owes(m)],
    stored <- Stored

\* The endpoints implement at-least-once delivery: a message is answered 2xx
\* only when everything it obliges to is in the warehouse, and a stored value
\* never goes away, whatever fails on the way (pubsub_ingest_main.py 136-151,
\* main.py 141-147, ingestor.py 68-110).
KeepsPromise == Promise!Spec

\* Requests that may still write what m carries.
Writers(m) == {r \in Requests : request[r].msg = m /\ request[r].phase # "answer"}

Budget(m) == Cardinality(Writers(m)) + (IF m \in waiting /\ ~Held(m) THEN 1 ELSE 0)

\* Every copy of a value beyond the first is paid for by a failure: neither
\* the diff of the sync nor an insert id protects these writes, so what is
\* stored, what requests may still store, and the delivery that is to come,
\* stay within one and the failures so far.
CopiesBounded ==
    \A m \in Messages :
        /\ raw[m] + Budget(m) <= 1 + faults
        /\ \A f \in Fields : vault[<<m, f>>] + Budget(m) <= 1 + faults

\* The declaration is read once, before keys are made and rows inserted: a
\* withdrawn or narrowed declaration is written under at most once for each
\* request that was in flight at a change (pubsub_ingest_main.py 118-137).
LateWritesBounded == late <= changes * Cardinality(Requests)

\* "Guarantees Firestore (Key Registry) write before BigQuery streaming", in
\* ingestor.py and on the customer's path: a row, a cached context or one in
\* use belongs to a key that Key Vault has issued.
KeyBeforeRow ==
    /\ \A i \in Instances, u \in Users : cache[i][u] <= key[u].version
    /\ \A r \in Requests : request[r].version # 0 =>
           request[r].version <= key[UserOf(r)].version
    /\ \A m \in Messages : (raw[m] > 0 /\ Routes[m] = "sequential") => key[Owner[m]].version # 0
    /\ \A v \in Messages \X Fields : vault[v] > 0 => key[Owner[v[1]]].version # 0

HasContext(i, u) ==
    \/ cache[i][u] # 0
    \/ \E r \in Requests : HostOf[r] = i /\ request[r].version # 0 /\ UserOf(r) = u

\* The cache is never invalidated, so an instance that has a context when a
\* user is shredded keeps encrypting for the user; but one that has none, and
\* has not fetched one, never gets one again (vault_client.py 138-139, 177-194).
ShreddingSticks ==
    [][\A i \in Instances, u \in Users :
          key[u].shredded /\ ~HasContext(i, u) => ~HasContext(i, u)']_vars

-----------------------------------------------------------------------------
(* Liveness                                                                *)

Admitted(m) ==
    LET d == registry[Topic[m]]
    IN  Sender[m] # NoCaller /\ d.declared /\ d.caller = Sender[m]

\* Nothing in the registry or in Key Vault stands in the way of m.
Deliverable(m) ==
    LET d == registry[Topic[m]]
    IN  CASE Routes[m] = "raw" -> TRUE
          [] Routes[m] = "sequential" ->
                m \notin Malformed /\ key[Owner[m]].version # 0 /\ ~key[Owner[m]].shredded
          [] Routes[m] = "customer" ->
                /\ Admitted(m)
                /\ \/ m \in Malformed
                   \/ d.keyed /\ (Owner[m] \in Users => ~key[Owner[m]].shredded)

\* Once everything that still waits stays deliverable, every subscription runs
\* empty: failures end, and what they left behind is delivered again.
Drains == <>[](\A m \in waiting : Deliverable(m)) => <>(waiting = {})

\* "A message that will never successfully process must never be allowed to
\* loop" (pubsub_ingest_main.py 81-91): once its caller and declaration stay
\* good, a customer's message leaves the subscription.
UnprocessableAcked ==
    \A m \in Messages :
        (Routes[m] = "customer" /\ <>[](Admitted(m) /\ registry[Topic[m]].keyed))
            => <>(m \notin waiting)
=============================================================================
