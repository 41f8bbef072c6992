----------------------- MODULE DuplicateBound_proofs -----------------------
(***************************************************************************)
(* How many pii_vault rows one natural key can get, for every value of the *)
(* constants: the bound of DuplicatesBounded.  A request may add rows for  *)
(* a key as long as it is pending for it (it found the key missing and has *)
(* not inserted yet), and it only becomes pending while the key has no     *)
(* row; so rows plus what pending requests may add never pass the bound.   *)
(* And for which users: none that is shredded and whose context is gone,   *)
(* and a user is passed over only on the grounds of GivesUpOnly.           *)
(***************************************************************************)
EXTENDS PiiVaultSync_proofs

PendingPhases == {"keys", "contexts", "unwrap", "insert"}

\* One conjunct of PendingBounded, read in any state.
KeyBounded(k) ==
    vault[k] + Cardinality(Pending(k)) * Cardinality(RowsOf(k))
        <= Cardinality(Workers) * Cardinality(RowsOf(k))

LEMMA TimesMonotone ==
    \A a, b, c \in Nat : a <= b => a * c <= b * c
OBVIOUS

LEMMA TimesLess ==
    \A a, b, c \in Nat : a + 1 <= b => a * c + c <= b * c
<1> SUFFICES ASSUME NEW a \in Nat, NEW b \in Nat, NEW c \in Nat, a + 1 <= b
             PROVE  a * c + c <= b * c
  OBVIOUS
<1>1. (a + 1) * c <= b * c BY TimesMonotone
<1>2. (a + 1) * c = a * c + c OBVIOUS
<1> QED BY <1>1, <1>2

LEMMA PendingFinite ==
    ASSUME ConstantsAssumption, NEW k
    PROVE  /\ IsFiniteSet(Pending(k))
           /\ Cardinality(Pending(k)) \in Nat
           /\ Cardinality(Pending(k)) <= Cardinality(Workers)
           /\ Cardinality(Workers) \in Nat
BY FS_Subset, FS_CardinalityType DEF ConstantsAssumption, Pending

LEMMA PendingFiniteNext ==
    ASSUME ConstantsAssumption, NEW k
    PROVE  /\ IsFiniteSet(Pending(k)')
           /\ Cardinality(Pending(k)') \in Nat
           /\ Cardinality(Pending(k)') <= Cardinality(Workers)
BY FS_Subset, FS_CardinalityType DEF ConstantsAssumption, Pending

-----------------------------------------------------------------------------
(* One key, one step                                                       *)

\* The arithmetic of every case: grown rows are paid for by pending requests.
LEMMA KeyStep ==
    ASSUME ConstantsAssumption, TypeInv, NEW k \in VaultKey, KeyBounded(k),
           NEW more \in Nat, vault'[k] = vault[k] + more,
           more + Cardinality(Pending(k)') * Cardinality(RowsOf(k))
               <= Cardinality(Pending(k)) * Cardinality(RowsOf(k))
    PROVE  KeyBounded(k)'
<1> DEFINE p == Cardinality(Pending(k)) * Cardinality(RowsOf(k))
           n == Cardinality(Pending(k)') * Cardinality(RowsOf(k))
           b == Cardinality(Workers) * Cardinality(RowsOf(k))
<1>1. p \in Nat /\ n \in Nat /\ b \in Nat
  BY PendingFinite, PendingFiniteNext, InsertedCount
<1>2. vault[k] \in Nat BY DEF TypeInv, TypeOK
<1>3. vault[k] + p <= b BY DEF KeyBounded
<1>4. more + n <= p OBVIOUS
<1> HIDE DEF p, n, b
<1>5. vault'[k] + n <= b BY <1>1, <1>2, <1>3, <1>4
<1> QED BY <1>5 DEF KeyBounded, RowsOf, n, b

\* Nothing is inserted for the key and nobody new is about to.
LEMMA KeyShrinks ==
    ASSUME ConstantsAssumption, TypeInv, NEW k \in VaultKey, KeyBounded(k),
           vault'[k] = vault[k], Pending(k)' \subseteq Pending(k)
    PROVE  KeyBounded(k)'
<1>1. /\ Cardinality(Pending(k)) \in Nat
      /\ Cardinality(Pending(k)') \in Nat
      /\ Cardinality(Pending(k)') <= Cardinality(Pending(k))
      /\ Cardinality(RowsOf(k)) \in Nat
  BY PendingFinite, PendingFiniteNext, InsertedCount, FS_Subset
<1>2. Cardinality(Pending(k)') * Cardinality(RowsOf(k))
         <= Cardinality(Pending(k)) * Cardinality(RowsOf(k))
  BY <1>1, TimesMonotone
<1>3. Cardinality(Pending(k)') * Cardinality(RowsOf(k)) \in Nat BY <1>1
<1>4. vault[k] \in Nat BY DEF TypeInv, TypeOK
<1> QED BY <1>2, <1>3, <1>4, KeyStep

\* When one request moves, the others stay pending for what they were.
LEMMA OthersPending ==
    ASSUME TypeInv, NEW w \in Workers, NEW state, Becomes(w, state), NEW k
    PROVE  /\ Pending(k)' \subseteq Pending(k) \cup {w}
           /\ state.phase \notin PendingPhases => w \notin Pending(k)'
           /\ w \in Pending(k)' => /\ state.msg.resource = k[1]
                                   /\ <<k[2], k[3]>> \in state.missing
<1>1. worker' = [worker EXCEPT ![w] = state] BY DEF Becomes
<1>2. worker \in [Workers -> WorkerState] BY DEF TypeInv, TypeOK
<1>3. worker'[w] = state BY <1>1, <1>2
<1>4. \A v \in Workers : v # w => worker'[v] = worker[v] BY <1>1, <1>2
<1> QED BY <1>3, <1>4 DEF Pending, Resource, PendingPhases

-----------------------------------------------------------------------------
(* Steps that insert nothing                                               *)

LEMMA PendingShrinks ==
    ASSUME ConstantsAssumption, TypeInv, PendingBounded, UNCHANGED vault,
           \A k \in VaultKey : Pending(k)' \subseteq Pending(k)
    PROVE  PendingBounded'
<1>1. ASSUME NEW k \in VaultKey PROVE KeyBounded(k)'
  BY KeyShrinks DEF PendingBounded, KeyBounded
<1> QED BY <1>1 DEF PendingBounded, KeyBounded

LEMMA WorkersUnchanged ==
    ASSUME ConstantsAssumption, TypeInv, PendingBounded,
           UNCHANGED <<worker, vault>>
    PROVE  PendingBounded'
<1>1. \A k \in VaultKey : Pending(k)' = Pending(k) BY DEF Pending, Resource
<1> QED BY <1>1, PendingShrinks

\* One request moves on and does not start to be pending.
LEMMA OneMovesOn ==
    ASSUME ConstantsAssumption, TypeInv, PendingBounded, UNCHANGED vault,
           NEW w \in Workers, NEW state, Becomes(w, state),
           state.phase \in PendingPhases =>
               /\ worker[w].phase \in PendingPhases
               /\ state.missing = worker[w].missing
               /\ state.msg = worker[w].msg
    PROVE  PendingBounded'
<1>1. ASSUME NEW k \in VaultKey PROVE Pending(k)' \subseteq Pending(k)
  <2>1. /\ Pending(k)' \subseteq Pending(k) \cup {w}
        /\ state.phase \notin PendingPhases => w \notin Pending(k)'
        /\ w \in Pending(k)' => /\ state.msg.resource = k[1]
                                /\ <<k[2], k[3]>> \in state.missing
    BY OthersPending
  <2>2. w \in Pending(k)' => w \in Pending(k)
    BY <2>1 DEF Pending, Resource, PendingPhases
  <2> QED BY <2>1, <2>2
<1> QED BY <1>1, PendingShrinks

\* Moving to a phase that is not pending, whatever else is kept.
LEMMA MovesToPhase ==
    ASSUME ConstantsAssumption, TypeInv, PendingBounded, UNCHANGED vault,
           NEW w \in Workers, NEW phase, phase \notin PendingPhases,
           Becomes(w, [worker[w] EXCEPT !.phase = phase])
    PROVE  PendingBounded'
<1>1. worker[w] \in WorkerState BY RequestType
<1>2. [worker[w] EXCEPT !.phase = phase].phase = phase BY <1>1 DEF WorkerState
<1> QED BY <1>2, OneMovesOn

LEMMA GoesIdle ==
    ASSUME ConstantsAssumption, TypeInv, PendingBounded, UNCHANGED vault,
           NEW w \in Workers, Idle(w)
    PROVE  PendingBounded'
BY OneMovesOn DEF Idle, IdleWorker, PendingPhases

-----------------------------------------------------------------------------
(* The steps that matter: the diff and the insert                          *)

\* A request becomes pending for a key only while the key has no row.
LEMMA ReadExistingBound ==
    ASSUME ConstantsAssumption, TypeInv, PendingBounded, NEW w \in Workers,
           ReadExisting(w)
    PROVE  PendingBounded'
<1> DEFINE missing == {p \in {UserOf[row] : row \in worker[w].rows}
                                \X worker[w].fields :
                          ~AlreadySynced(Resource(w), p[1], p[2])}
           phase == IF missing = {} THEN "report" ELSE "keys"
           state == [worker[w] EXCEPT !.phase = phase, !.missing = missing]
<1>1. worker[w] \in WorkerState BY RequestType
<1>2. Becomes(w, state) /\ vault' = vault BY DEF ReadExisting
<1>3. \A u, f : <<u, f>> \in missing => ~AlreadySynced(Resource(w), u, f)
  OBVIOUS
<1> HIDE DEF missing, phase
<1>4. state.missing = missing /\ state.msg = worker[w].msg
  BY <1>1 DEF WorkerState
<1> HIDE DEF state
<1>5. ASSUME NEW k \in VaultKey PROVE KeyBounded(k)'
  <2>1. KeyBounded(k) BY DEF PendingBounded, KeyBounded
  <2>2. vault[k] \in Nat BY DEF TypeInv, TypeOK
  <2>3. CASE w \in Pending(k)'
    <3>1. Resource(w) = k[1] /\ <<k[2], k[3]>> \in missing
      BY <1>2, <1>4, <2>3, OthersPending DEF Resource
    <3>2. k = <<k[1], k[2], k[3]>> BY DEF VaultKey
    <3>3. ~(vault[k] > 0) BY <1>3, <3>1, <3>2 DEF AlreadySynced
    <3>4. vault'[k] = 0 BY <1>2, <2>2, <3>3
    <3>5. Cardinality(RowsOf(k)) \in Nat BY InsertedCount
    <3>6. Cardinality(Pending(k)') * Cardinality(RowsOf(k))
             <= Cardinality(Workers) * Cardinality(RowsOf(k))
      BY <3>5, PendingFinite, PendingFiniteNext, TimesMonotone
    <3>7. Cardinality(Pending(k)') * Cardinality(RowsOf(k)) \in Nat
      BY <3>5, PendingFiniteNext
    <3>8. 0 + Cardinality(Pending(k)') * Cardinality(RowsOf(k))
             <= Cardinality(Workers) * Cardinality(RowsOf(k))
      BY <3>6, <3>7
    <3> QED BY <3>4, <3>8 DEF KeyBounded, RowsOf
  <2>4. CASE w \notin Pending(k)'
    <3>1. Pending(k)' \subseteq Pending(k) \cup {w} BY <1>2, OthersPending
    <3>2. Pending(k)' \subseteq Pending(k) BY <2>4, <3>1
    <3> QED BY <1>2, <2>1, <3>2, KeyShrinks
  <2> QED BY <2>3, <2>4
<1> QED BY <1>5 DEF PendingBounded, KeyBounded

\* Whatever part of its batch lands, a request adds rows only for keys it was
\* pending for, at most one for each source row, and is not pending afterwards.
LEMMA InsertBound ==
    ASSUME ConstantsAssumption, TypeInv, PendingBounded, NEW w \in Workers,
           worker[w].phase = "insert", NEW records, records \subseteq Records(w),
           vault' = Inserted(records), NEW state, Becomes(w, state),
           state.phase \notin PendingPhases
    PROVE  PendingBounded'
<1>1. ASSUME NEW k \in VaultKey PROVE KeyBounded(k)'
  <2> DEFINE more == Cardinality(Added(k, records))
  <2>1. KeyBounded(k) BY DEF PendingBounded, KeyBounded
  <2>2. Pending(k)' \subseteq Pending(k) /\ w \notin Pending(k)'
    <3>1. /\ Pending(k)' \subseteq Pending(k) \cup {w}
          /\ state.phase \notin PendingPhases => w \notin Pending(k)'
      BY OthersPending
    <3> QED BY <3>1
  <2>3. vault'[k] = vault[k] + more BY DEF Inserted
  <2>4. /\ more \in Nat
        /\ more <= Cardinality(RowsOf(k))
        /\ Cardinality(RowsOf(k)) \in Nat
    BY InsertedCount
  <2>5. CASE w \in Pending(k)
    <3>1. /\ IsFiniteSet(Pending(k) \ {w})
          /\ Cardinality(Pending(k) \ {w}) = Cardinality(Pending(k)) - 1
      BY <2>5, PendingFinite, FS_RemoveElement
    <3>2. Pending(k)' \subseteq Pending(k) \ {w} BY <2>2
    <3>3. Cardinality(Pending(k)') <= Cardinality(Pending(k) \ {w})
      BY <3>1, <3>2, FS_Subset
    <3>4. /\ Cardinality(Pending(k)) \in Nat
          /\ Cardinality(Pending(k)') \in Nat
          /\ Cardinality(Pending(k)') + 1 <= Cardinality(Pending(k))
      BY <3>1, <3>3, PendingFinite, PendingFiniteNext
    <3>5. Cardinality(Pending(k)') * Cardinality(RowsOf(k)) + Cardinality(RowsOf(k))
             <= Cardinality(Pending(k)) * Cardinality(RowsOf(k))
      BY <2>4, <3>4, TimesLess
    <3>6. /\ Cardinality(Pending(k)') * Cardinality(RowsOf(k)) \in Nat
          /\ Cardinality(Pending(k)) * Cardinality(RowsOf(k)) \in Nat
      BY <2>4, <3>4
    <3> HIDE DEF more
    <3>7. more + Cardinality(Pending(k)') * Cardinality(RowsOf(k))
             <= Cardinality(Pending(k)) * Cardinality(RowsOf(k))
      BY <2>4, <3>5, <3>6
    <3> QED BY <2>1, <2>3, <2>4, <3>7, KeyStep
  <2>6. CASE w \notin Pending(k)
    <3>1. \A row \in RowsOf(k) : <<row, k[3]>> \notin records
      <4> SUFFICES ASSUME NEW row \in RowsOf(k), <<row, k[3]>> \in records
                   PROVE  FALSE
        OBVIOUS
      <4>1. ResourceOf[row] = k[1] /\ UserOf[row] = k[2] BY DEF RowsOf
      <4>2. /\ <<row, k[3]>> \in worker[w].cells
            /\ <<UserOf[row], k[3]>> \in worker[w].missing
        BY DEF Records
      <4>3. ResourceOf[row] = worker[w].msg.resource
        BY <4>2, RequestType DEF RequestConsistent
      <4> QED BY <2>6, <4>1, <4>2, <4>3 DEF Pending, Resource
    <3>2. Added(k, records) = {} BY <3>1 DEF Added
    <3>3. more = 0 BY <3>2, FS_EmptySet
    <3>4. vault'[k] = vault[k] BY <2>3, <3>3 DEF TypeInv, TypeOK
    <3> QED BY <2>1, <2>2, <3>4, KeyShrinks
  <2> QED BY <2>5, <2>6
<1> QED BY <1>1 DEF PendingBounded, KeyBounded

-----------------------------------------------------------------------------
(* Every step                                                              *)

\* The contexts arrive: the request stays pending for the same keys, or fails.
LEMMA FetchedBound ==
    ASSUME ConstantsAssumption, TypeInv, PendingBounded, UNCHANGED vault,
           NEW w \in Workers, worker[w].phase = "contexts", NEW answer,
           Fetched(w, answer)
    PROVE  PendingBounded'
<1> DEFINE ready == Cached(w) \cup {u \in answer : key[u] = "active"}
           phase == IF \E u \in answer : key[u] = "shredded" THEN "refused" ELSE "unwrap"
           state == [worker[w] EXCEPT !.phase = phase, !.ready = ready]
<1>1. Becomes(w, state) BY DEF Fetched
<1> HIDE DEF ready, phase
<1>2. state.missing = worker[w].missing /\ state.msg = worker[w].msg
  BY RequestType DEF WorkerState
<1>3. worker[w].phase \in PendingPhases BY DEF PendingPhases
<1> HIDE DEF state
<1> QED BY <1>1, <1>2, <1>3, OneMovesOn

\* Either the request adds nothing and does not start to be pending, or it is
\* one of the two steps above.
LEMMA WorkerStepBound ==
    ASSUME ConstantsAssumption, TypeInv, PendingBounded, NEW w \in Workers,
           WorkerStep(w)
    PROVE  PendingBounded'
<1>0. worker[w] \in WorkerState BY RequestType
<1>1. CASE ReadRegistry(w)
  <2>1. CASE Becomes(w, [worker[w] EXCEPT !.phase = "report"])
    BY <1>1, <2>1, MovesToPhase DEF ReadRegistry, PendingPhases
  <2>2. CASE Becomes(w, [worker[w] EXCEPT !.phase = "source",
                                  !.fields = registry[Resource(w)].encrypt])
    <3>1. [worker[w] EXCEPT !.phase = "source",
              !.fields = registry[Resource(w)].encrypt].phase = "source"
      BY <1>0 DEF WorkerState
    <3> QED BY <1>1, <2>2, <3>1, OneMovesOn DEF ReadRegistry, PendingPhases
  <2> QED BY <1>1, <2>1, <2>2 DEF ReadRegistry
<1>2. CASE ReadSource(w)
  <2> DEFINE found == {row \in Rows : /\ ResourceOf[row] = Resource(w)
                                      /\ source[row].present
                                      /\ UserOf[row] \in worker[w].msg.users}
             cells == {c \in found \X worker[w].fields : c[2] \in source[c[1]].filled}
             phase == IF found = {} THEN "report" ELSE "existing"
             state == [worker[w] EXCEPT !.phase = phase, !.rows = found,
                                        !.cells = cells]
  <2>1. Becomes(w, state) BY <1>2 DEF ReadSource
  <2>2. phase \notin PendingPhases BY DEF PendingPhases
  <2> HIDE DEF found, cells, phase
  <2>3. state.phase = phase BY <1>0 DEF WorkerState
  <2> HIDE DEF state
  <2> QED BY <1>2, <2>1, <2>2, <2>3, OneMovesOn DEF ReadSource
<1>3. CASE ReadExisting(w) BY <1>3, ReadExistingBound
<1>4. CASE CreateKeys(w)
  <2> DEFINE state == [worker[w] EXCEPT !.phase = "contexts"]
  <2>1. state.missing = worker[w].missing /\ state.msg = worker[w].msg
    BY <1>0 DEF WorkerState
  <2>2. Becomes(w, state) /\ worker[w].phase \in PendingPhases /\ vault' = vault
    BY <1>4 DEF CreateKeys, PendingPhases
  <2> HIDE DEF state
  <2> QED BY <2>1, <2>2, OneMovesOn
<1>5. ASSUME NEW answer \in SUBSET Users, FetchContexts(w, answer)
      PROVE  PendingBounded'
  BY <1>5, FetchedBound DEF FetchContexts
<1>6. ASSUME NEW warmed \in SUBSET Users, UnwrapRaises(w, warmed)
      PROVE  PendingBounded'
  BY <1>6, MovesToPhase DEF UnwrapRaises, PendingPhases
<1>12. CASE UnwrapContexts(w)
  <2> DEFINE state == [worker[w] EXCEPT !.phase = "insert"]
  <2>1. state.missing = worker[w].missing /\ state.msg = worker[w].msg
    BY <1>0 DEF WorkerState
  <2>2. Becomes(w, state) /\ worker[w].phase \in PendingPhases /\ vault' = vault
    BY <1>12 DEF UnwrapContexts, PendingPhases
  <2> HIDE DEF state
  <2> QED BY <2>1, <2>2, OneMovesOn
<1>7. CASE InsertRecords(w)
  <2> DEFINE phase == IF Records(w) # {} /\ Resource(w) \in CopyOpted
                      THEN "copy" ELSE "report"
             state == [worker[w] EXCEPT !.phase = phase]
  <2>1. Becomes(w, state) BY <1>7 DEF InsertRecords
  <2>2. phase \notin PendingPhases BY DEF PendingPhases
  <2> HIDE DEF phase
  <2>3. state.phase = phase BY <1>0 DEF WorkerState
  <2> HIDE DEF state
  <2> QED BY <1>7, <2>1, <2>2, <2>3, InsertBound DEF InsertRecords
<1>8. CASE AppendCopy(w)
  BY <1>8, MovesToPhase DEF AppendCopy, PendingPhases
<1>9. CASE ReportCompleted(w)
  BY <1>9, OneMovesOn DEF ReportCompleted, IdleWorker, PendingPhases
<1>10. CASE ReportFailed(w) BY <1>10, GoesIdle DEF ReportFailed
<1>11. CASE Answer(w) BY <1>11, GoesIdle DEF Answer
<1> QED BY <1>1, <1>2, <1>3, <1>4, <1>5, <1>6, <1>7, <1>8, <1>9, <1>10, <1>11,
        <1>12 DEF WorkerStep

LEMMA WorkerFailsBound ==
    ASSUME ConstantsAssumption, TypeInv, PendingBounded, NEW w \in Workers,
           WorkerFails(w)
    PROVE  PendingBounded'
<1>0. worker[w] \in WorkerState BY RequestType
<1>1. CASE CallFails(w)
  BY <1>1, MovesToPhase DEF CallFails, PendingPhases
<1>2. ASSUME NEW answer \in SUBSET Users, FetchContextsOmits(w, answer)
      PROVE  PendingBounded'
  BY <1>2, FetchedBound DEF FetchContextsOmits
<1>3. ASSUME NEW landed \in SUBSET Records(w), InsertFails(w, landed)
      PROVE  PendingBounded'
  <2> DEFINE state == [worker[w] EXCEPT !.phase = "failing"]
  <2>1. state.phase = "failing" BY <1>0 DEF WorkerState
  <2>2. Becomes(w, state) BY <1>3 DEF InsertFails
  <2>3. state.phase \notin PendingPhases BY <2>1 DEF PendingPhases
  <2> HIDE DEF state
  <2> QED BY <1>3, <2>2, <2>3, InsertBound DEF InsertFails
<1>4. CASE AppendCopyFails(w)
  BY <1>4, MovesToPhase DEF AppendCopyFails, PendingPhases
<1>5. CASE ReportCompletedFails(w) BY <1>5, GoesIdle DEF ReportCompletedFails
<1>6. CASE ReportFailedFails(w) BY <1>6, GoesIdle DEF ReportFailedFails
<1>7. CASE ReportCompletedTwice(w)
  BY <1>7, OneMovesOn DEF ReportCompletedTwice, IdleWorker, PendingPhases
<1>8. CASE AnswerLost(w) BY <1>8, GoesIdle DEF AnswerLost
<1> QED BY <1>1, <1>2, <1>3, <1>4, <1>5, <1>6, <1>7, <1>8 DEF WorkerFails

LEMMA DeliverBound ==
    ASSUME ConstantsAssumption, TypeInv, PendingBounded, NEW w \in Workers, NEW m,
           Deliver(w, m)
    PROVE  PendingBounded'
<1> DEFINE state == [worker[w] EXCEPT !.phase = "registry", !.msg = m]
<1>1. state.phase = "registry" BY RequestType DEF WorkerState
<1>2. Becomes(w, state) BY DEF Deliver
<1> HIDE DEF state
<1> QED BY <1>1, <1>2, OneMovesOn DEF Deliver, PendingPhases

LEMMA InstanceDiesBound ==
    ASSUME ConstantsAssumption, TypeInv, PendingBounded, NEW i \in Instances,
           InstanceDies(i)
    PROVE  PendingBounded'
<1>1. \A w \in Workers : worker'[w] = IdleWorker \/ worker'[w] = worker[w]
  BY DEF InstanceDies
<1>2. IdleWorker.phase \notin PendingPhases BY DEF IdleWorker, PendingPhases
<1>3. \A k \in VaultKey : Pending(k)' \subseteq Pending(k)
  BY <1>1, <1>2 DEF Pending, Resource, PendingPhases
<1> QED BY <1>3, PendingShrinks DEF InstanceDies

LEMMA InitBound == ConstantsAssumption /\ Init => PendingBounded
<1> SUFFICES ASSUME ConstantsAssumption, Init, NEW k \in VaultKey
             PROVE  KeyBounded(k)
  BY DEF PendingBounded, KeyBounded
<1>1. Pending(k) = {} BY DEF Init, IdleWorker, Pending
<1>2. vault[k] = 0 /\ Cardinality(Pending(k)) = 0
  BY <1>1, FS_EmptySet DEF Init
<1>3. Cardinality(RowsOf(k)) \in Nat /\ Cardinality(Workers) \in Nat
  BY InsertedCount, PendingFinite
<1>4. 0 * Cardinality(RowsOf(k)) = 0 BY <1>3
<1>5. Cardinality(Workers) * Cardinality(RowsOf(k)) \in Nat BY <1>3
<1> QED BY <1>2, <1>4, <1>5 DEF KeyBounded

LEMMA NextBound ==
    ConstantsAssumption /\ TypeInv /\ PendingBounded /\ [Next]_vars => PendingBounded'
<1> SUFFICES ASSUME ConstantsAssumption, TypeInv, PendingBounded, [Next]_vars
             PROVE  PendingBounded'
  OBVIOUS
<1>1. CASE EnumerationNext
  <2>1. UNCHANGED <<worker, vault>>
    BY <1>1 DEF EnumerationNext, Trigger, RunStep, RunFails, FetchRegistry,
       StartResource, Query, PublishChunk, MarkSynced, MarkAttempted, Finalize,
       FetchRegistryFails, PublishFails, QueryFails, MarkSyncedFails,
       MarkAttemptedFails, FinalizeFails, TriggerDies
  <2> QED BY <2>1, WorkersUnchanged
<1>2. CASE WorkerNext
  BY <1>2, DeliverBound, WorkerStepBound, WorkerFailsBound, InstanceDiesBound
     DEF WorkerNext
<1>3. CASE Outside
  <2>1. UNCHANGED <<worker, vault>>
    BY <1>3 DEF Outside, Tick, WriteRow, DeleteRow, Redeclare, AddField, Shred
  <2> QED BY <2>1, WorkersUnchanged
<1>4. CASE UNCHANGED vars BY <1>4, WorkersUnchanged DEF vars
<1> QED BY <1>1, <1>2, <1>3, <1>4 DEF Next, Quiescent

-----------------------------------------------------------------------------
\* Rows plus what the pending requests may still add never pass the bound, for
\* any number of triggers, requests, redeliveries and crashes.
THEOREM PendingCorrect == Spec => []PendingBounded
<1>1. Spec => [](TypeInv /\ PendingBounded)
  BY ConstantsAssumption, InitType, InitBound, NextType, NextBound, PTL DEF Spec
<1> QED BY <1>1, PTL

\* A field of a user gets at most one pii_vault row for each concurrent request
\* and source row, however often its chunks are delivered (the per-field diff of
\* _sync_chunk).
THEOREM DuplicatesCorrect == Spec => []DuplicatesBounded
<1>1. TypeInv /\ PendingBounded => DuplicatesBounded
  <2> SUFFICES ASSUME TypeInv, PendingBounded, NEW k \in VaultKey
               PROVE  vault[k] <= Cardinality(Workers) * Cardinality(RowsOf(k))
    BY DEF DuplicatesBounded
  <2> DEFINE p == Cardinality(Pending(k)) * Cardinality(RowsOf(k))
             b == Cardinality(Workers) * Cardinality(RowsOf(k))
  <2>1. p \in Nat /\ b \in Nat
    BY ConstantsAssumption, PendingFinite, InsertedCount
  <2>2. vault[k] \in Nat BY DEF TypeInv, TypeOK
  <2>3. vault[k] + p <= b BY DEF PendingBounded
  <2> HIDE DEF p, b
  <2>4. vault[k] <= b BY <2>1, <2>2, <2>3
  <2> QED BY <2>4 DEF b
<1>2. Spec => [](TypeInv /\ PendingBounded)
  BY ConstantsAssumption, InitType, InitBound, NextType, NextBound, PTL DEF Spec
<1> QED BY <1>1, <1>2, PTL

\* With one request at a time, and one source row for each user, the natural key
\* of the class comment does hold: the duplicates come from concurrency alone.
THEOREM NaturalKeyAlone ==
    ASSUME Cardinality(Workers) = 1,
           \A k \in VaultKey : Cardinality(RowsOf(k)) <= 1
    PROVE  Spec => []NaturalKeyUnique
<1>1. DuplicatesBounded /\ TypeOK => NaturalKeyUnique
  <2> SUFFICES ASSUME DuplicatesBounded, TypeOK, NEW k \in VaultKey
               PROVE  vault[k] <= 1
    BY DEF NaturalKeyUnique
  <2>1. Cardinality(RowsOf(k)) \in Nat BY ConstantsAssumption, InsertedCount
  <2>2. vault[k] \in Nat BY DEF TypeOK
  <2>3. vault[k] <= 1 * Cardinality(RowsOf(k)) BY DEF DuplicatesBounded
  <2>4. Cardinality(RowsOf(k)) <= 1 OBVIOUS
  <2> HIDE DEF VaultKey
  <2> QED BY <2>1, <2>2, <2>3, <2>4
<1> QED BY <1>1, DuplicatesCorrect, TypeCorrect, PTL

-----------------------------------------------------------------------------
(* Users: who is given up on, and who is forgotten                         *)

\* A key is never taken back, and a shredded one never replaced.
LEMMA KeysStay ==
    ASSUME TypeInv, [Next]_vars, NEW u \in Users
    PROVE  /\ key[u] # "none" => key'[u] # "none"
           /\ key[u] = "shredded" => key'[u] = "shredded"
<1>1. ASSUME NEW users, key' = WithKeys(users)
      PROVE  /\ key[u] # "none" => key'[u] # "none"
             /\ key[u] = "shredded" => key'[u] = "shredded"
  BY <1>1 DEF WithKeys
<1>2. ASSUME NEW v \in Users, Shred(v)
      PROVE  /\ key[u] # "none" => key'[u] # "none"
             /\ key[u] = "shredded" => key'[u] = "shredded"
  BY <1>2 DEF Shred, TypeInv, TypeOK
<1>3. CASE EnumerationNext
  BY <1>3 DEF EnumerationNext, Trigger, RunStep, RunFails, FetchRegistry, StartResource, Query,
     PublishChunk, MarkSynced, MarkAttempted, Finalize, FetchRegistryFails, PublishFails,
     QueryFails, MarkSyncedFails, MarkAttemptedFails, FinalizeFails, TriggerDies
<1>4. CASE Outside \/ Quiescent \/ UNCHANGED vars
  BY <1>2, <1>4 DEF Outside, Tick, WriteRow, DeleteRow, Redeclare, AddField, Quiescent, vars
<1>5. CASE WorkerNext
  <2>1. ASSUME NEW w \in Workers, WorkerStep(w)
        PROVE  CreateKeys(w) \/ UNCHANGED key
    BY <2>1 DEF WorkerStep, ReadRegistry, ReadSource, ReadExisting, FetchContexts,
       UnwrapContexts, UnwrapRaises, InsertRecords, AppendCopy, ReportCompleted, ReportFailed,
       Answer
  <2>2. ASSUME NEW w \in Workers, WorkerFails(w)
        PROVE  CallFails(w) \/ UNCHANGED key
    BY <2>2 DEF WorkerFails, FetchContextsOmits, InsertFails, AppendCopyFails,
       ReportCompletedFails, ReportCompletedTwice, ReportFailedFails, AnswerLost
  <2>3. ASSUME NEW w \in Workers, CreateKeys(w) \/ CallFails(w)
        PROVE  UNCHANGED key \/ \E users : key' = WithKeys(users)
    BY <2>3 DEF CreateKeys, CallFails
  <2> QED BY <1>1, <1>5, <2>1, <2>2, <2>3 DEF WorkerNext, Deliver, InstanceDies
<1> QED BY <1>3, <1>4, <1>5 DEF Next

\* Only batch-encryption-context hands a request new contexts.
LEMMA ReadyShrinks ==
    ASSUME TypeInv, NEW w \in Workers, WorkerStep(w) \/ WorkerFails(w),
           ~\E answer \in SUBSET Users : FetchContexts(w, answer) \/ FetchContextsOmits(w, answer)
    PROVE  worker'[w].ready \subseteq worker[w].ready
<1>1. worker \in [Workers -> WorkerState] /\ worker[w] \in WorkerState
  BY RequestType DEF TypeInv, TypeOK
<1>2. IdleWorker.ready = {} BY DEF IdleWorker
<1> USE <1>1 DEF Becomes, WorkerState
<1>3. CASE ReadRegistry(w)
  <2>1. CASE Becomes(w, [worker[w] EXCEPT !.phase = "report"]) BY <2>1
  <2>2. CASE \E x : Becomes(w, [worker[w] EXCEPT !.phase = "source", !.fields = x]) BY <2>2
  <2> QED BY <1>3, <2>1, <2>2 DEF ReadRegistry
<1>4. CASE ReadSource(w) BY <1>4 DEF ReadSource
<1>5. CASE ReadExisting(w) BY <1>5 DEF ReadExisting
<1>6. CASE CreateKeys(w) \/ CallFails(w) BY <1>6 DEF CreateKeys, CallFails
<1>7. CASE UnwrapContexts(w) \/ \E warmed \in SUBSET Users : UnwrapRaises(w, warmed)
  BY <1>7 DEF UnwrapContexts, UnwrapRaises
<1>8. CASE InsertRecords(w) \/ (\E landed \in SUBSET Records(w) : InsertFails(w, landed))
  BY <1>8 DEF InsertRecords, InsertFails
<1>9. CASE AppendCopy(w) \/ AppendCopyFails(w) BY <1>9 DEF AppendCopy, AppendCopyFails
<1>10. CASE ReportCompleted(w) \/ ReportCompletedTwice(w)
  <2> DEFINE state == [IdleWorker EXCEPT !.phase = "answer", !.msg = worker[w].msg]
  <2>1. state.ready = {} BY DEF IdleWorker
  <2>2. Becomes(w, state) BY <1>10 DEF ReportCompleted, ReportCompletedTwice
  <2> HIDE DEF state
  <2> QED BY <2>1, <2>2
<1>11. CASE ReportFailed(w) \/ ReportFailedFails(w) \/ ReportCompletedFails(w)
            \/ AnswerLost(w) \/ Answer(w)
  BY <1>2, <1>11 DEF Idle, ReportFailed, ReportFailedFails, ReportCompletedFails, AnswerLost,
     Answer
<1> QED BY <1>3, <1>4, <1>5, <1>6, <1>7, <1>8, <1>9, <1>10, <1>11 DEF WorkerStep, WorkerFails

\* A step of one request leaves the others alone.
LEMMA OneRequest ==
    ASSUME TypeInv, NEW w \in Workers, WorkerStep(w) \/ WorkerFails(w)
    PROVE  \A v \in Workers \ {w} : worker'[v] = worker[v]
<1>1. worker \in [Workers -> WorkerState] BY DEF TypeInv, TypeOK
<1>2. \E state : Becomes(w, state)
  BY DEF WorkerStep, WorkerFails, ReadRegistry, ReadSource, ReadExisting, CreateKeys, CallFails,
     Fetched, FetchContexts, FetchContextsOmits, UnwrapContexts, UnwrapRaises, InsertRecords,
     InsertFails, AppendCopy, AppendCopyFails, ReportCompleted, ReportCompletedTwice, Idle,
     ReportFailed, ReportFailedFails, ReportCompletedFails, AnswerLost, Answer
<1> QED BY <1>1, <1>2 DEF Becomes

\* Contexts get into a cache only from the request that fetched them.
LEMMA CacheGrows ==
    ASSUME NEW w \in Workers, WorkerStep(w) \/ WorkerFails(w)
    PROVE  \/ UNCHANGED cache
           \/ \E users \in SUBSET worker[w].ready : cache' = Caching(w, users)
<1>1. CASE WorkerStep(w)
  BY <1>1 DEF WorkerStep, ReadRegistry, ReadSource, ReadExisting, CreateKeys, FetchContexts,
     UnwrapContexts, UnwrapRaises, InsertRecords, AppendCopy, ReportCompleted, ReportFailed,
     Answer
<1>2. CASE WorkerFails(w)
  BY <1>2 DEF WorkerFails, CallFails, FetchContextsOmits, InsertFails, AppendCopyFails,
     ReportCompletedFails, ReportCompletedTwice, ReportFailedFails, AnswerLost
<1> QED BY <1>1, <1>2

LEMMA VaultWritten ==
    ASSUME NEW w \in Workers, WorkerStep(w) \/ WorkerFails(w)
    PROVE  UNCHANGED vault \/ \E records \in SUBSET Records(w) : vault' = Inserted(records)
<1>1. CASE WorkerStep(w)
  BY <1>1 DEF WorkerStep, ReadRegistry, ReadSource, ReadExisting, CreateKeys, FetchContexts,
     UnwrapContexts, UnwrapRaises, InsertRecords, AppendCopy, ReportCompleted, ReportFailed,
     Answer
<1>2. CASE WorkerFails(w)
  BY <1>2 DEF WorkerFails, CallFails, FetchContextsOmits, InsertFails, AppendCopyFails,
     ReportCompletedFails, ReportCompletedTwice, ReportFailedFails, AnswerLost
<1> QED BY <1>1, <1>2

LEMMA NotReadyNotWritten ==
    ASSUME TypeInv, NEW w \in Workers, NEW records \in SUBSET Records(w),
           NEW u \in Users, u \notin worker[w].ready, NEW k \in VaultKey, k[2] = u
    PROVE  Inserted(records)[k] = vault[k]
<1>1. Added(k, records) = {} BY DEF Added, RowsOf, Records
<1>2. vault[k] \in Nat BY DEF TypeInv, TypeOK
<1>3. Inserted(records)[k] = vault[k] + Cardinality(Added(k, records)) BY DEF Inserted
<1>4. Cardinality(Added(k, records)) = 0 BY <1>1, FS_EmptySet
<1> QED BY <1>2, <1>3, <1>4

\* A request that holds no context of a forgotten user does not come by one.
LEMMA RequestForgets ==
    ASSUME ConstantsAssumption, TypeInv, NEW w \in Workers, WorkerStep(w) \/ WorkerFails(w),
           NEW u \in Users, Forgotten(u), key'[u] = "shredded"
    PROVE  /\ Forgotten(u)'
           /\ \A k \in VaultKey : k[2] = u => vault'[k] = vault[k]
<1>1. worker \in [Workers -> WorkerState] /\ worker[w] \in WorkerState
  BY RequestType DEF TypeInv, TypeOK
<1>2. u \notin worker'[w].ready
  <2>1. CASE \E answer \in SUBSET Users : FetchContexts(w, answer) \/ FetchContextsOmits(w, answer)
    <3>1. PICK answer : Fetched(w, answer) BY <2>1 DEF FetchContexts, FetchContextsOmits
    <3>2. worker'[w].ready = Cached(w) \cup {v \in answer : key[v] = "active"}
      BY <1>1, <3>1 DEF Fetched, Becomes, WorkerState
    <3>3. u \notin Cached(w)
      BY DEF Cached, Forgotten, ConstantsAssumption
    <3> QED BY <3>2, <3>3 DEF Forgotten
  <2>2. CASE ~\E answer \in SUBSET Users :
                 FetchContexts(w, answer) \/ FetchContextsOmits(w, answer)
    BY <2>2, ReadyShrinks DEF Forgotten
  <2> QED BY <2>1, <2>2
<1>3. \A v \in Workers : u \notin worker'[v].ready BY <1>2, OneRequest DEF Forgotten
<1>4. \A i \in Instances : u \notin cache'[i]
  BY CacheGrows DEF Caching, Forgotten, TypeInv, TypeOK
<1>5. \A k \in VaultKey : k[2] = u => vault'[k] = vault[k]
  BY VaultWritten, NotReadyNotWritten DEF Forgotten
<1> QED BY <1>3, <1>4, <1>5 DEF Forgotten

LEMMA NextForgets ==
    ASSUME ConstantsAssumption, TypeInv, [Next]_vars, NEW u \in Users, Forgotten(u)
    PROVE  /\ Forgotten(u)'
           /\ \A k \in VaultKey : k[2] = u => vault'[k] = vault[k]
<1>1. key'[u] = "shredded" BY KeysStay DEF Forgotten
<1>2. CASE UNCHANGED <<worker, cache, vault>> BY <1>1, <1>2 DEF Forgotten
<1>3. EnumerationNext => UNCHANGED <<worker, cache, vault>>
  BY DEF EnumerationNext, Trigger, RunStep, RunFails, FetchRegistry, StartResource, Query,
     PublishChunk, MarkSynced, MarkAttempted, Finalize, FetchRegistryFails, PublishFails,
     QueryFails, MarkSyncedFails, MarkAttemptedFails, FinalizeFails, TriggerDies
<1>4. Outside \/ Quiescent \/ UNCHANGED vars => UNCHANGED <<worker, cache, vault>>
  BY DEF Outside, Tick, WriteRow, DeleteRow, Redeclare, AddField, Shred, Quiescent, vars
<1>5. ASSUME NEW w \in Workers, NEW m \in topic, Deliver(w, m)
      PROVE  /\ Forgotten(u)'
             /\ \A k \in VaultKey : k[2] = u => vault'[k] = vault[k]
  <2>1. \A v \in Workers : worker'[v].ready = worker[v].ready
    BY <1>5 DEF Deliver, Becomes, TypeInv, TypeOK, WorkerState
  <2>2. UNCHANGED <<cache, vault>> BY <1>5 DEF Deliver
  <2> QED BY <1>1, <2>1, <2>2 DEF Forgotten
<1>6. ASSUME NEW i \in Instances, InstanceDies(i)
      PROVE  /\ Forgotten(u)'
             /\ \A k \in VaultKey : k[2] = u => vault'[k] = vault[k]
  <2>1. \A v \in Workers : worker'[v] = worker[v] \/ worker'[v] = IdleWorker
    BY <1>6 DEF InstanceDies
  <2>2. \A j \in Instances : cache'[j] = cache[j] \/ cache'[j] = {}
    BY <1>6 DEF InstanceDies, TypeInv, TypeOK
  <2>3. UNCHANGED vault /\ IdleWorker.ready = {} BY <1>6 DEF InstanceDies, IdleWorker
  <2> QED BY <1>1, <2>1, <2>2, <2>3 DEF Forgotten
<1> QED BY <1>1, <1>2, <1>3, <1>4, <1>5, <1>6, RequestForgets DEF Next, WorkerNext

\* For every number of instances and requests: once no instance and no request
\* has the context of a shredded user, no later step encrypts for the user
\* (_unwrap_context refuses, and nothing else fills _context_cache).
THEOREM ShreddingCorrect == Spec => ShreddingHolds
<1>1. TypeInv /\ [Next]_vars
         => [\A u \in Users : Forgotten(u)
               => /\ Forgotten(u)'
                  /\ \A k \in VaultKey : k[2] = u => vault'[k] = vault[k]]_vars
  BY ConstantsAssumption, NextForgets
<1>2. Init => TypeInv BY ConstantsAssumption, InitType
<1>3. TypeInv /\ [Next]_vars => TypeInv' BY ConstantsAssumption, NextType
<1> QED BY <1>1, <1>2, <1>3, PTL DEF Spec, ShreddingHolds

-----------------------------------------------------------------------------
\* A request that asks for contexts has seen to the keys, and one that unwraps
\* them misses only shredded users, or users that Key Vault left out.
AsksRight(w) ==
    /\ worker[w].phase = "contexts" => \A u \in WorkUsers(w) : key[u] # "none"
    /\ worker[w].phase = "unwrap" =>
          \A u \in WorkUsers(w) \ worker[w].ready :
              key[u] = "shredded" \/ faults.omitted > 0

LEMMA OmittedGrows ==
    ASSUME TypeInv, UNCHANGED faults \/ \E k : Fault(k)
    PROVE  /\ faults.omitted > 0 => faults'.omitted > 0
           /\ Fault("omit") => faults'.omitted > 0
<1>1. faults.omitted \in Nat BY DEF TypeInv, TypeOK, FaultTally
<1> QED BY <1>1 DEF Fault

\* A request that stands still, while keys and failures only grow.
LEMMA AsksRightStays ==
    ASSUME TypeInv, [Next]_vars, UNCHANGED faults \/ \E k : Fault(k),
           NEW w \in Workers, AsksRight(w), worker'[w] = worker[w]
    PROVE  AsksRight(w)'
<1>1. WorkUsers(w)' = WorkUsers(w) /\ WorkUsers(w) \subseteq Users BY DEF WorkUsers
<1> QED BY <1>1, KeysStay, OmittedGrows DEF AsksRight

LEMMA CreateKeysAsksRight ==
    ASSUME TypeInv, NEW w \in Workers, CreateKeys(w)
    PROVE  AsksRight(w)'
<1>1. worker \in [Workers -> WorkerState] /\ worker[w] \in WorkerState
  BY RequestType DEF TypeInv, TypeOK
<1>2. worker'[w].phase = "contexts" /\ worker'[w].missing = worker[w].missing
  BY <1>1 DEF CreateKeys, Becomes, WorkerState
<1>3. WorkUsers(w)' = WorkUsers(w) /\ WorkUsers(w) \subseteq Users BY <1>2 DEF WorkUsers
<1>4. \A u \in WorkUsers(w) : key'[u] # "none" BY <1>3 DEF CreateKeys, WithKeys
<1> QED BY <1>2, <1>3, <1>4 DEF AsksRight

\* batch-encryption-context leaves out shredded users only, unless it fails to.
LEMMA FetchedAsksRight ==
    ASSUME TypeInv, NEW w \in Workers, NEW answer \in SUBSET Users, AsksRight(w),
           FetchContexts(w, answer) \/ FetchContextsOmits(w, answer)
    PROVE  AsksRight(w)'
<1>1. worker \in [Workers -> WorkerState] /\ worker[w] \in WorkerState
  BY RequestType DEF TypeInv, TypeOK
<1>2. Fetched(w, answer) /\ worker[w].phase = "contexts" /\ UNCHANGED key
  BY DEF FetchContexts, FetchContextsOmits
<1>3. /\ worker'[w].ready = Cached(w) \cup {u \in answer : key[u] = "active"}
      /\ worker'[w].missing = worker[w].missing
      /\ worker'[w].phase = IF \E u \in answer : key[u] = "shredded" THEN "refused" ELSE "unwrap"
  BY <1>1, <1>2 DEF Fetched, Becomes, WorkerState
<1>4. WorkUsers(w)' = WorkUsers(w) /\ WorkUsers(w) \subseteq Users BY <1>3 DEF WorkUsers
<1>5. CASE FetchContextsOmits(w, answer)
  <2>1. faults'.omitted > 0 BY <1>5, OmittedGrows DEF FetchContextsOmits
  <2> QED BY <1>3, <2>1 DEF AsksRight
<1>6. CASE FetchContexts(w, answer)
  <2>1. SUFFICES ASSUME worker'[w].phase = "unwrap", NEW u \in WorkUsers(w),
                        u \notin worker'[w].ready
                 PROVE  key[u] = "shredded"
    BY <1>2, <1>3, <1>4 DEF AsksRight
  <2>2. key[u] \in {"active", "shredded"}
    BY <1>2, <1>4 DEF AsksRight, TypeInv, TypeOK, KeyState
  <2>3. u \in WorkUsers(w) \ Cached(w) BY <1>3, <2>1
  <2>4. u \in answer \/ key[u] = "shredded"
    BY <1>6, <2>2, <2>3 DEF FetchContexts, Answers
  <2> QED BY <1>3, <2>1, <2>2, <2>4
<1> QED BY <1>5, <1>6

\* No other step leads a request to these phases.
LEMMA PhaseReached ==
    ASSUME TypeInv, NEW w \in Workers, WorkerStep(w) \/ WorkerFails(w), ~CreateKeys(w),
           ~\E answer \in SUBSET Users : FetchContexts(w, answer) \/ FetchContextsOmits(w, answer)
    PROVE  worker'[w].phase \notin {"contexts", "unwrap"}
<1>1. worker \in [Workers -> WorkerState] /\ worker[w] \in WorkerState
  BY RequestType DEF TypeInv, TypeOK
<1>2. IdleWorker.phase = "idle" BY DEF IdleWorker
<1> USE <1>1 DEF Becomes, WorkerState
<1>3. CASE ReadRegistry(w)
  <2>1. CASE Becomes(w, [worker[w] EXCEPT !.phase = "report"]) BY <2>1
  <2>2. CASE \E x : Becomes(w, [worker[w] EXCEPT !.phase = "source", !.fields = x]) BY <2>2
  <2> QED BY <1>3, <2>1, <2>2 DEF ReadRegistry
<1>4. CASE ReadSource(w) BY <1>4 DEF ReadSource
<1>5. CASE ReadExisting(w) BY <1>5 DEF ReadExisting
<1>6. CASE CallFails(w) BY <1>6 DEF CallFails
<1>7. CASE UnwrapContexts(w) \/ \E warmed \in SUBSET Users : UnwrapRaises(w, warmed)
  BY <1>7 DEF UnwrapContexts, UnwrapRaises
<1>8. CASE InsertRecords(w) \/ (\E landed \in SUBSET Records(w) : InsertFails(w, landed))
  BY <1>8 DEF InsertRecords, InsertFails
<1>9. CASE AppendCopy(w) \/ AppendCopyFails(w) BY <1>9 DEF AppendCopy, AppendCopyFails
<1>10. CASE ReportCompleted(w) \/ ReportCompletedTwice(w)
  <2> DEFINE state == [IdleWorker EXCEPT !.phase = "answer", !.msg = worker[w].msg]
  <2>1. state.phase = "answer" BY DEF IdleWorker
  <2>2. Becomes(w, state) BY <1>10 DEF ReportCompleted, ReportCompletedTwice
  <2> HIDE DEF state
  <2> QED BY <2>1, <2>2
<1>11. CASE ReportFailed(w) \/ ReportFailedFails(w) \/ ReportCompletedFails(w)
            \/ AnswerLost(w) \/ Answer(w)
  BY <1>2, <1>11 DEF Idle, ReportFailed, ReportFailedFails, ReportCompletedFails, AnswerLost,
     Answer
<1> QED BY <1>3, <1>4, <1>5, <1>6, <1>7, <1>8, <1>9, <1>10, <1>11 DEF WorkerStep, WorkerFails

LEMMA StepFaults ==
    ASSUME [Next]_vars
    PROVE  UNCHANGED faults \/ \E k : Fault(k)
<1>1. CASE EnumerationNext
  <2>1. ASSUME NEW r \in Runs, RunStep(r) PROVE UNCHANGED faults
    BY <2>1 DEF RunStep, FetchRegistry, StartResource, Query, PublishChunk, MarkSynced,
       MarkAttempted, Finalize
  <2>2. ASSUME NEW r \in Runs, RunFails(r) PROVE \E k : Fault(k)
    BY <2>2 DEF RunFails, FetchRegistryFails, PublishFails, QueryFails, MarkSyncedFails,
       MarkAttemptedFails, FinalizeFails, TriggerDies
  <2>3. ASSUME NEW r \in Runs, NEW asked, NEW force, Trigger(r, asked, force)
        PROVE  UNCHANGED faults \/ \E k : Fault(k)
    BY <2>3 DEF Trigger
  <2> QED BY <1>1, <2>1, <2>2, <2>3 DEF EnumerationNext
<1>2. CASE WorkerNext
  <2>1. ASSUME NEW w \in Workers, WorkerStep(w) PROVE UNCHANGED faults
    BY <2>1 DEF WorkerStep, ReadRegistry, ReadSource, ReadExisting, CreateKeys, FetchContexts,
       UnwrapContexts, UnwrapRaises, InsertRecords, AppendCopy, ReportCompleted, ReportFailed,
       Answer
  <2>2. ASSUME NEW w \in Workers, WorkerFails(w) PROVE \E k : Fault(k)
    BY <2>2 DEF WorkerFails, CallFails, FetchContextsOmits, InsertFails, AppendCopyFails,
       ReportCompletedFails, ReportCompletedTwice, ReportFailedFails, AnswerLost
  <2> QED BY <1>2, <2>1, <2>2 DEF WorkerNext, Deliver, InstanceDies
<1>3. CASE Outside \/ Quiescent \/ UNCHANGED vars
  BY <1>3 DEF Outside, Tick, WriteRow, DeleteRow, Redeclare, AddField, Shred, Quiescent, vars
<1> QED BY <1>1, <1>2, <1>3 DEF Next

LEMMA NextAsksRight ==
    ASSUME TypeInv, [Next]_vars, \A w \in Workers : AsksRight(w), NEW v \in Workers
    PROVE  AsksRight(v)'
<1>1. UNCHANGED faults \/ \E k : Fault(k) BY StepFaults
<1>2. CASE worker'[v] = worker[v] BY <1>1, <1>2, AsksRightStays
<1>3. CASE worker'[v].phase \notin {"contexts", "unwrap"} BY <1>3 DEF AsksRight
<1>4. ASSUME NEW w \in Workers, WorkerStep(w) \/ WorkerFails(w) PROVE AsksRight(v)'
  <2>1. CASE v # w BY <1>2, <1>4, <2>1, OneRequest
  <2>2. CASE v = w
    BY <1>3, <1>4, <2>2, CreateKeysAsksRight, FetchedAsksRight, PhaseReached
  <2> QED BY <2>1, <2>2
<1>5. ASSUME NEW w \in Workers, NEW m \in topic, Deliver(w, m) PROVE AsksRight(v)'
  <2>1. worker'[v] = worker[v] \/ worker'[v].phase = "registry"
    BY <1>5 DEF Deliver, Becomes, TypeInv, TypeOK, WorkerState
  <2> QED BY <1>2, <1>3, <2>1
<1>6. ASSUME NEW i \in Instances, InstanceDies(i) PROVE AsksRight(v)'
  <2>1. worker'[v] = worker[v] \/ worker'[v].phase = "idle"
    BY <1>6 DEF InstanceDies, IdleWorker
  <2> QED BY <1>2, <1>3, <2>1
<1>7. EnumerationNext \/ Outside \/ Quiescent \/ UNCHANGED vars => UNCHANGED worker
  BY DEF EnumerationNext, Trigger, RunStep, RunFails, FetchRegistry, StartResource, Query,
     PublishChunk, MarkSynced, MarkAttempted, Finalize, FetchRegistryFails, PublishFails,
     QueryFails, MarkSyncedFails, MarkAttemptedFails, FinalizeFails, TriggerDies,
     Outside, Tick, WriteRow, DeleteRow, Redeclare, AddField, Shred, Quiescent, vars
<1> QED BY <1>2, <1>4, <1>5, <1>6, <1>7 DEF Next, WorkerNext

\* Who is given up on, and on what grounds.
LEMMA GivenUp ==
    ASSUME TypeInv, [Next]_vars, \A w \in Workers : AsksRight(w),
           NEW q \in Resources, NEW u \in Users, <<q, u>> \in dropped' \ dropped
    PROVE  \/ ~registry[q].declared \/ registry[q].encrypt = {}
           \/ key[u] = "shredded"
           \/ faults.omitted > 0
<1>1. CASE EnumerationNext \/ Outside \/ Quiescent \/ UNCHANGED vars
  <2>1. UNCHANGED dropped
    BY <1>1 DEF EnumerationNext, Trigger, RunStep, RunFails, FetchRegistry, StartResource, Query,
       PublishChunk, MarkSynced, MarkAttempted, Finalize, FetchRegistryFails, PublishFails,
       QueryFails, MarkSyncedFails, MarkAttemptedFails, FinalizeFails, TriggerDies,
       Outside, Tick, WriteRow, DeleteRow, Redeclare, AddField, Shred, Quiescent, vars
  <2> QED BY <2>1
<1>2. ASSUME NEW w \in Workers, WorkerStep(w) \/ WorkerFails(w)
      PROVE  ReadRegistry(w) \/ UnwrapContexts(w) \/ UNCHANGED dropped
  BY <1>2 DEF WorkerStep, ReadSource, ReadExisting, CreateKeys, FetchContexts,
     UnwrapRaises, InsertRecords, AppendCopy, ReportCompleted, ReportFailed, Answer,
     WorkerFails, CallFails, FetchContextsOmits, InsertFails, AppendCopyFails,
     ReportCompletedFails, ReportCompletedTwice, ReportFailedFails, AnswerLost
<1>3. ASSUME NEW w \in Workers, ReadRegistry(w)
      PROVE  ~registry[q].declared \/ registry[q].encrypt = {}
  BY <1>3 DEF ReadRegistry
<1>4. ASSUME NEW w \in Workers, UnwrapContexts(w)
      PROVE  key[u] = "shredded" \/ faults.omitted > 0
  BY <1>4 DEF UnwrapContexts, AsksRight
<1> QED BY <1>1, <1>2, <1>3, <1>4 DEF Next, WorkerNext, Deliver, InstanceDies

\* For every number of users, requests and failures: no chunk gives a user up
\* for want of a key (_sync_chunk makes the keys before it asks for contexts).
THEOREM GivesUpCorrect == Spec => GivesUpOnly
<1>1. Init => TypeInv /\ \A w \in Workers : AsksRight(w)
  BY ConstantsAssumption, InitType DEF Init, AsksRight, IdleWorker
<1>2. TypeInv /\ (\A w \in Workers : AsksRight(w)) /\ [Next]_vars
         => TypeInv' /\ (\A w \in Workers : AsksRight(w))'
  BY ConstantsAssumption, NextType, NextAsksRight
<1>3. TypeInv /\ (\A w \in Workers : AsksRight(w)) /\ [Next]_vars
         => [\A q \in Resources, u \in Users :
               <<q, u>> \in dropped' \ dropped
                   => \/ ~registry[q].declared \/ registry[q].encrypt = {}
                      \/ key[u] = "shredded"
                      \/ faults.omitted > 0]_vars
  BY GivenUp
<1> QED BY <1>1, <1>2, <1>3, PTL DEF Spec, GivesUpOnly
=============================================================================
