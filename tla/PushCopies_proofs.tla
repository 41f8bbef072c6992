------------------------ MODULE PushCopies_proofs ------------------------
(***************************************************************************)
(* How often a value is stored, for every value of the constants: each     *)
(* copy beyond the first is paid for by a failure.  Budget is a ranking of *)
(* what may still be written of a message; every step that writes or that  *)
(* lets a message be delivered again spends some of it or is a failure.    *)
(***************************************************************************)
EXTENDS PushIngest_proofs

Pending(m) == IF m \in waiting /\ ~Held(m) THEN 1 ELSE 0

LEMMA BudgetType ==
    ASSUME NEW m \in Messages
    PROVE  /\ IsFiniteSet(Writers(m)) /\ Cardinality(Writers(m)) \in Nat
           /\ Pending(m) \in {0, 1} /\ Pending(m) \in Nat
           /\ Budget(m) = Cardinality(Writers(m)) + Pending(m)
           /\ Budget(m) \in Nat
<1>1. IsFiniteSet(Requests) BY ConstantsAssumption
<1>2. Writers(m) \subseteq Requests BY DEF Writers
<1>3. IsFiniteSet(Writers(m)) BY <1>1, <1>2, FS_Subset
<1>4. Cardinality(Writers(m)) \in Nat BY <1>3, FS_CardinalityType
<1> QED BY <1>3, <1>4 DEF Pending, Budget

LEMMA BudgetTypePrime ==
    ASSUME NEW m \in Messages
    PROVE  /\ IsFiniteSet(Writers(m)') /\ Cardinality(Writers(m)') \in Nat
           /\ Pending(m)' \in {0, 1} /\ Pending(m)' \in Nat
           /\ Budget(m)' = Cardinality(Writers(m)') + Pending(m)'
           /\ Budget(m)' \in Nat
<1>1. IsFiniteSet(Requests) BY ConstantsAssumption
<1>2. Writers(m)' \subseteq Requests BY DEF Writers
<1>3. IsFiniteSet(Writers(m)') BY <1>1, <1>2, FS_Subset
<1>4. Cardinality(Writers(m)') \in Nat BY <1>3, FS_CardinalityType
<1> QED BY <1>3, <1>4 DEF Pending, Budget

\* Nothing to write is added but, perhaps, one delivery.
LEMMA BudgetPlus ==
    ASSUME NEW m \in Messages, Writers(m)' \subseteq Writers(m)
    PROVE  Budget(m)' <= Budget(m) + Pending(m)' - Pending(m)
<1>1. Cardinality(Writers(m)') <= Cardinality(Writers(m)) BY BudgetType, FS_Subset
<1> QED BY <1>1, BudgetType, BudgetTypePrime

\* One writer goes.
LEMMA BudgetMinus ==
    ASSUME NEW m \in Messages, NEW r \in Writers(m), Writers(m)' = Writers(m) \ {r}
    PROVE  Budget(m)' = Budget(m) - 1 + Pending(m)' - Pending(m)
<1>1. Cardinality(Writers(m)') = Cardinality(Writers(m)) - 1
  BY BudgetType, FS_RemoveElement
<1>2. /\ Cardinality(Writers(m)) \in Nat /\ Cardinality(Writers(m)') \in Nat
      /\ Pending(m) \in Nat /\ Pending(m)' \in Nat
      /\ Budget(m) = Cardinality(Writers(m)) + Pending(m)
      /\ Budget(m)' = Cardinality(Writers(m)') + Pending(m)'
  BY BudgetType, BudgetTypePrime, Zenon
<1> QED BY <1>1, <1>2

LEMMA GoesOnBudget ==
    ASSUME TypeInv, NEW r \in Requests, NEW s, Becomes(r, s), UNCHANGED waiting,
           s.msg = request[r].msg, s.phase # "answer", request[r].phase # "answer"
    PROVE  \A m \in Messages : Budget(m)' = Budget(m)
<1> SUFFICES ASSUME NEW m \in Messages PROVE Budget(m)' = Budget(m) OBVIOUS
<1>1. request' = [request EXCEPT ![r] = s] /\ request \in [Requests -> RequestState]
  BY DEF Becomes, TypeInv, TypeOK
<1>2. \A q \in Requests : /\ request'[q].msg = request[q].msg
                          /\ request'[q].phase = "answer" <=> request[q].phase = "answer"
  BY <1>1
<1>3. Writers(m)' = Writers(m) /\ Held(m)' = Held(m) BY <1>2 DEF Writers, Held
<1> QED BY <1>3 DEF Budget

\* A refusal gives the message back, if no other request holds it.
LEMMA RefusesBudget ==
    ASSUME TypeInv, NEW r \in Requests, Refuses(r), UNCHANGED waiting,
           request[r].phase # "idle", request[r].phase # "answer"
    PROVE  \A m \in Messages : Budget(m)' <= Budget(m)
<1> SUFFICES ASSUME NEW m \in Messages PROVE Budget(m)' <= Budget(m) OBVIOUS
<1>1. request' = [request EXCEPT ![r] = IdleRequest] /\ request \in [Requests -> RequestState]
  BY DEF Refuses, Becomes, TypeInv, TypeOK
<1>2. request'[r].msg # m BY <1>1, ConstantsAssumption DEF IdleRequest
<1>3. \A q \in Requests \ {r} : request'[q] = request[q] BY <1>1
<1>4. CASE request[r].msg = m
  <2>1. r \in Writers(m) BY <1>4 DEF Writers
  <2>2. Writers(m)' = Writers(m) \ {r} BY <1>2, <1>3 DEF Writers
  <2>3. Pending(m) = 0 BY <1>4 DEF Pending, Held
  <2> QED BY <2>1, <2>2, <2>3, BudgetMinus, BudgetType, BudgetTypePrime
<1>5. CASE request[r].msg # m
  <2>1. Writers(m)' = Writers(m) BY <1>2, <1>3, <1>5 DEF Writers
  <2>2. Held(m)' = Held(m) BY <1>2, <1>3, <1>5 DEF Held
  <2> QED BY <2>1, <2>2, BudgetType DEF Budget
<1> QED BY <1>4, <1>5

\* A request that is done writing still holds its message.
LEMMA AcceptsBudget ==
    ASSUME TypeInv, NEW r \in Requests, Accepts(r), UNCHANGED waiting,
           request[r].phase # "idle", request[r].phase # "answer", NEW m \in Messages
    PROVE  Budget(m)' = IF request[r].msg = m THEN Budget(m) - 1 ELSE Budget(m)
<1> DEFINE s == [IdleRequest EXCEPT !.phase = "answer", !.msg = request[r].msg]
<1>0. request[r].msg \in Messages BY DEF TypeInv, Sound
<1>1. s.phase = "answer" /\ s.msg = request[r].msg BY <1>0, FreshType
<1>2. request' = [request EXCEPT ![r] = s] BY DEF Accepts, Becomes
<1> HIDE DEF s
<1>3. request \in [Requests -> RequestState] BY DEF TypeInv, TypeOK
<1>4. /\ request'[r].phase = "answer" /\ request'[r].msg = request[r].msg
      /\ \A q \in Requests \ {r} : request'[q] = request[q]
  BY <1>1, <1>2, <1>3
<1>5. Held(m)' = Held(m) BY <1>4 DEF Held
<1>6. CASE request[r].msg = m
  <2>1. r \in Writers(m) BY <1>6 DEF Writers
  <2>2. Writers(m)' = Writers(m) \ {r} BY <1>4 DEF Writers
  <2>3. Pending(m)' = Pending(m) BY <1>5 DEF Pending
  <2> QED BY <1>6, <2>1, <2>2, <2>3, BudgetMinus, BudgetType
<1>7. CASE request[r].msg # m
  <2>1. Writers(m)' = Writers(m) BY <1>4, <1>7 DEF Writers
  <2> QED BY <1>5, <1>7, <2>1 DEF Budget
<1> QED BY <1>6, <1>7

-----------------------------------------------------------------------------
\* The bound is kept when what is written and what may be written grow by no
\* more than the failures do.
LEMMA KeepsBounded ==
    ASSUME TypeInv, TypeInv', CopiesBounded,
           \A m \in Messages :
              /\ raw'[m] + Budget(m)' + faults <= raw[m] + Budget(m) + faults'
              /\ \A f \in Fields : vault'[<<m, f>>] + Budget(m)' + faults
                                      <= vault[<<m, f>>] + Budget(m) + faults'
    PROVE  CopiesBounded'
<1>1. faults \in Nat /\ faults' \in Nat BY Numbers DEF TypeInv, TypeOK
<1>2. \A m \in Messages : raw[m] \in Nat /\ raw'[m] \in Nat BY DEF TypeInv, TypeOK
<1>3. \A m \in Messages, f \in Fields : vault[<<m, f>>] \in Nat /\ vault'[<<m, f>>] \in Nat
  BY DEF TypeInv, TypeOK
<1>4. ASSUME NEW m \in Messages
      PROVE  /\ raw'[m] + Budget(m)' <= 1 + faults'
             /\ \A f \in Fields : vault'[<<m, f>>] + Budget(m)' <= 1 + faults'
  BY <1>1, <1>2, <1>3, BudgetType, BudgetTypePrime DEF CopiesBounded
<1> QED BY <1>4 DEF CopiesBounded

\* Steps that write nothing: their budget grows by a failure at most.
LEMMA KeepsBudget ==
    ASSUME TypeInv, TypeInv', CopiesBounded, UNCHANGED <<vault, raw>>,
           \A m \in Messages : Budget(m)' + faults <= Budget(m) + faults'
    PROVE  CopiesBounded'
<1>1. faults \in Nat /\ faults' \in Nat BY Numbers DEF TypeInv, TypeOK
<1>2. \A m \in Messages : raw[m] \in Nat BY DEF TypeInv, TypeOK
<1>3. \A m \in Messages, f \in Fields : vault[<<m, f>>] \in Nat BY DEF TypeInv, TypeOK
<1>4. ASSUME NEW m \in Messages
      PROVE  /\ raw'[m] + Budget(m)' + faults <= raw[m] + Budget(m) + faults'
             /\ \A f \in Fields : vault'[<<m, f>>] + Budget(m)' + faults
                                      <= vault[<<m, f>>] + Budget(m) + faults'
  BY <1>1, <1>2, <1>3, BudgetType, BudgetTypePrime
<1> QED BY <1>4, KeepsBounded

LEMMA FaultsGrow ==
    ASSUME TypeInv, (\E k : Fault(k)) \/ UNCHANGED faults
    PROVE  faults \in Nat /\ faults' \in Nat /\ faults <= faults'
BY Numbers DEF TypeInv, TypeOK, Fault

LEMMA GoesToBounded ==
    ASSUME TypeInv, TypeInv', CopiesBounded, NEW r \in Requests, NEW p, GoesTo(r, p),
           p # "answer", request[r].phase # "answer",
           UNCHANGED <<waiting, vault, raw, faults>>
    PROVE  CopiesBounded'
<1> DEFINE s == [request[r] EXCEPT !.phase = p]
<1>1. s.msg = request[r].msg /\ s.phase = p BY DEF TypeInv, TypeOK, RequestState
<1>2. Becomes(r, s) BY DEF GoesTo
<1> HIDE DEF s
<1>3. \A m \in Messages : Budget(m)' = Budget(m) BY <1>1, <1>2, GoesOnBudget
<1> QED BY <1>3, BudgetType, FaultsGrow, KeepsBudget

LEMMA RefusesBounded ==
    ASSUME TypeInv, TypeInv', CopiesBounded, NEW r \in Requests, Refuses(r),
           request[r].phase # "idle", request[r].phase # "answer",
           (\E k : Fault(k)) \/ UNCHANGED faults, UNCHANGED <<waiting, vault, raw>>
    PROVE  CopiesBounded'
<1>1. \A m \in Messages : Budget(m)' <= Budget(m) BY RefusesBudget
<1> QED BY <1>1, BudgetType, BudgetTypePrime, FaultsGrow, KeepsBudget

LEMMA AcceptsBounded ==
    ASSUME TypeInv, TypeInv', CopiesBounded, NEW r \in Requests, Accepts(r),
           request[r].phase # "idle", request[r].phase # "answer",
           UNCHANGED <<waiting, vault, raw, faults>>
    PROVE  CopiesBounded'
<1>1. \A m \in Messages : Budget(m)' <= Budget(m)
  BY AcceptsBudget, BudgetType
<1> QED BY <1>1, BudgetType, BudgetTypePrime, FaultsGrow, KeepsBudget

-----------------------------------------------------------------------------
(* The steps that write                                                    *)

\* A request that writes its message once and is done spends its budget.
LEMMA WritesOnce ==
    ASSUME TypeInv, TypeInv', CopiesBounded, NEW r \in Requests, Accepts(r),
           request[r].phase # "idle", request[r].phase # "answer",
           UNCHANGED <<waiting, faults>>,
           \A m \in Messages :
              raw'[m] = raw[m] \/ (m = request[r].msg /\ raw'[m] = raw[m] + 1),
           \A m \in Messages, f \in Fields :
              \/ vault'[<<m, f>>] = vault[<<m, f>>]
              \/ m = request[r].msg /\ vault'[<<m, f>>] = vault[<<m, f>>] + 1
    PROVE  CopiesBounded'
<1>1. faults \in Nat /\ faults' = faults BY FaultsGrow
<1>2. \A m \in Messages : raw[m] \in Nat BY DEF TypeInv, TypeOK
<1>3. \A m \in Messages, f \in Fields : vault[<<m, f>>] \in Nat BY DEF TypeInv, TypeOK
<1>4. ASSUME NEW m \in Messages
      PROVE  /\ raw'[m] + Budget(m)' + faults <= raw[m] + Budget(m) + faults'
             /\ \A f \in Fields : vault'[<<m, f>>] + Budget(m)' + faults
                                      <= vault[<<m, f>>] + Budget(m) + faults'
  <2>1. Budget(m)' = IF request[r].msg = m THEN Budget(m) - 1 ELSE Budget(m)
    BY AcceptsBudget
  <2>2. Budget(m) \in Nat BY BudgetType
  <2> QED BY <1>1, <1>2, <1>3, <2>1, <2>2
<1> QED BY <1>4, KeepsBounded

\* A write that fails half-way is a failure, and has written once at most.
LEMMA WritesAndFails ==
    ASSUME TypeInv, TypeInv', CopiesBounded, NEW r \in Requests, Refuses(r),
           request[r].phase # "idle", request[r].phase # "answer",
           UNCHANGED waiting, faults' = faults + 1,
           \A m \in Messages : raw'[m] = raw[m] \/ raw'[m] = raw[m] + 1,
           \A m \in Messages, f \in Fields :
              vault'[<<m, f>>] = vault[<<m, f>>] \/ vault'[<<m, f>>] = vault[<<m, f>>] + 1
    PROVE  CopiesBounded'
<1>1. faults \in Nat BY Numbers DEF TypeInv, TypeOK
<1>2. \A m \in Messages : raw[m] \in Nat BY DEF TypeInv, TypeOK
<1>3. \A m \in Messages, f \in Fields : vault[<<m, f>>] \in Nat BY DEF TypeInv, TypeOK
<1>4. ASSUME NEW m \in Messages
      PROVE  /\ raw'[m] + Budget(m)' + faults <= raw[m] + Budget(m) + faults'
             /\ \A f \in Fields : vault'[<<m, f>>] + Budget(m)' + faults
                                      <= vault[<<m, f>>] + Budget(m) + faults'
  <2>1. Budget(m)' <= Budget(m) BY RefusesBudget
  <2>2. Budget(m) \in Nat /\ Budget(m)' \in Nat BY BudgetType, BudgetTypePrime
  <2> QED BY <1>1, <1>2, <1>3, <2>1, <2>2
<1> QED BY <1>4, KeepsBounded

LEMMA AppendedOnce ==
    ASSUME TypeInv, NEW r \in Requests, NEW fields, Appended(r, fields),
           NEW m \in Messages, NEW f \in Fields
    PROVE  \/ vault'[<<m, f>>] = vault[<<m, f>>]
           \/ m = request[r].msg /\ vault'[<<m, f>>] = vault[<<m, f>>] + 1
<1>1. <<m, f>> \in Messages \X Fields OBVIOUS
<1> QED BY <1>1 DEF Appended, Msg

LEMMA CustomerBounded ==
    ASSUME TypeInv, TypeInv', CopiesBounded, NEW r \in Requests,
           CustomerStep(r) \/ CustomerFails(r)
    PROVE  CopiesBounded'
<1>t. request[r] \in RequestState BY DEF TypeInv, TypeOK
<1>1. CASE VerifyToken(r)
  BY <1>1, RefusesBounded, GoesToBounded DEF VerifyToken
<1>2. CASE RejectCaller(r) BY <1>2, RefusesBounded DEF RejectCaller
<1>3. CASE IgnoreMessage(r) BY <1>3, AcceptsBounded DEF IgnoreMessage
<1>4. CASE AcceptMessage(r)
  <2> DEFINE s == [request[r] EXCEPT !.phase = "keys", !.fields = Wanted(r)]
  <2>1. s.phase = "keys" /\ s.msg = request[r].msg BY <1>t DEF RequestState
  <2>2. Becomes(r, s) BY <1>4 DEF AcceptMessage
  <2> HIDE DEF s
  <2>3. \A m \in Messages : Budget(m)' = Budget(m)
    BY <1>4, <2>1, <2>2, GoesOnBudget DEF AcceptMessage
  <2> QED BY <1>4, <2>3, BudgetType, FaultsGrow, KeepsBudget DEF AcceptMessage
<1>5. CASE InsertRows(r)
  <2>1. /\ request[r].phase = "store" /\ Accepts(r) /\ UNCHANGED <<waiting, faults, raw>>
        /\ Appended(r, request[r].fields)
    BY <1>5 DEF InsertRows, Inserting
  <2>2. \A m \in Messages, f \in Fields :
           \/ vault'[<<m, f>>] = vault[<<m, f>>]
           \/ m = request[r].msg /\ vault'[<<m, f>>] = vault[<<m, f>>] + 1
    BY <2>1, AppendedOnce
  <2> QED BY <2>1, <2>2, WritesOnce
<1>6. CASE RateLimited(r)
  <2>1. request[r].phase = "store" /\ UNCHANGED <<waiting, vault, raw>> /\ Fault("rate")
    BY <1>6 DEF RateLimited, Inserting
  <2>2. CASE Refuses(r) BY <2>1, <2>2, RefusesBounded
  <2> DEFINE s == [request[r] EXCEPT !.attempt = request[r].attempt + 1]
  <2>3. s.phase = request[r].phase /\ s.msg = request[r].msg BY <1>t DEF RequestState
  <2>4. Refuses(r) \/ Becomes(r, s) BY <1>6 DEF RateLimited
  <2> HIDE DEF s
  <2>5. CASE Becomes(r, s)
    <3>1. \A m \in Messages : Budget(m)' = Budget(m) BY <2>1, <2>3, <2>5, GoesOnBudget
    <3> QED BY <2>1, <3>1, BudgetType, FaultsGrow, KeepsBudget
  <2> QED BY <2>2, <2>4, <2>5
<1>7. ASSUME NEW landed, InsertFails(r, landed)
      PROVE  CopiesBounded'
  <2>1. /\ request[r].phase = "store" /\ Refuses(r) /\ UNCHANGED <<waiting, raw>>
        /\ faults' = faults + 1 /\ Appended(r, landed)
    BY <1>7 DEF InsertFails, Inserting, Fault
  <2>2. \A m \in Messages, f \in Fields :
           vault'[<<m, f>>] = vault[<<m, f>>] \/ vault'[<<m, f>>] = vault[<<m, f>>] + 1
    BY <2>1, AppendedOnce
  <2> QED BY <2>1, <2>2, WritesAndFails
<1> QED BY <1>1, <1>2, <1>3, <1>4, <1>5, <1>6, <1>7 DEF CustomerStep, CustomerFails

LEMMA ContextBounded ==
    ASSUME TypeInv, TypeInv', CopiesBounded, NEW r \in Requests,
           ContextStep(r) \/ CallFails(r)
    PROVE  CopiesBounded'
<1>t. request[r] \in RequestState BY DEF TypeInv, TypeOK
<1>1. CASE CreateKey(r) \/ UnwrapContext(r)
  BY <1>1, GoesToBounded DEF CreateKey, UnwrapContext
<1>2. CASE ContextRefused(r) BY <1>2, RefusesBounded DEF ContextRefused
<1>3. CASE CallFails(r) BY <1>3, RefusesBounded DEF CallFails
<1>4. ASSUME UseCached(r) \/ FetchContext(r)
      PROVE  CopiesBounded'
  <2>1. /\ request[r].phase = "context"
        /\ UNCHANGED <<waiting, vault, raw, faults>>
    BY <1>4 DEF UseCached, FetchContext
  <2> DEFINE s(p, n) == [request[r] EXCEPT !.phase = p, !.version = n]
  <2>2. ASSUME NEW p \in {"store", "unwrap"}, NEW n
        PROVE  s(p, n).phase # "answer" /\ s(p, n).msg = request[r].msg
    BY <1>t DEF RequestState
  <2>3. Becomes(r, s("store", HostCache(r)[UserOf(r)])) \/ Becomes(r, s("unwrap", key[UserOf(r)].version))
    BY <1>4 DEF UseCached, FetchContext
  <2> HIDE DEF s
  <2>4. \A m \in Messages : Budget(m)' = Budget(m) BY <2>1, <2>2, <2>3, GoesOnBudget
  <2> QED BY <2>1, <2>4, BudgetType, FaultsGrow, KeepsBudget
<1> QED BY <1>1, <1>2, <1>3, <1>4 DEF ContextStep

LEMMA WarehouseBounded ==
    ASSUME TypeInv, TypeInv', CopiesBounded, NEW r \in Requests,
           WarehouseStep(r) \/ WarehouseFails(r)
    PROVE  CopiesBounded'
<1>t. \A m \in Messages : Loaded(r)[m] = raw[m] \/ (m = request[r].msg /\ Loaded(r)[m] = raw[m] + 1)
  BY DEF Loaded, TypeInv, TypeOK
<1>1. CASE Decode(r) BY <1>1, GoesToBounded DEF Decode
<1>2. CASE DecodeFails(r)
  BY <1>2, AcceptsBounded, RefusesBounded DEF DecodeFails
<1>3. CASE LoadRecord(r)
  <2>1. request[r].phase = "store" /\ raw' = Loaded(r) /\ Accepts(r)
        /\ UNCHANGED <<waiting, faults, vault>>
    BY <1>3 DEF LoadRecord, Loading
  <2> QED BY <1>t, <2>1, WritesOnce
<1>4. CASE LoadFails(r)
  <2>1. request[r].phase = "store" /\ raw' \in {raw, Loaded(r)} /\ Refuses(r)
        /\ UNCHANGED <<waiting, vault>> /\ faults' = faults + 1
    BY <1>4 DEF LoadFails, Loading, Fault
  <2> QED BY <1>t, <2>1, WritesAndFails
<1> QED BY <1>1, <1>2, <1>3, <1>4 DEF WarehouseStep, WarehouseFails

-----------------------------------------------------------------------------
(* Delivery and the outside world                                          *)

LEMMA DeliverBounded ==
    ASSUME TypeInv, TypeInv', CopiesBounded, NEW r \in Requests, NEW m \in Messages, Deliver(r, m)
    PROVE  CopiesBounded'
<1> DEFINE s == [IdleRequest EXCEPT !.phase = "received", !.msg = m]
<1>1. s.phase = "received" /\ s.msg = m BY FreshType
<1>2. request' = [request EXCEPT ![r] = s] BY DEF Deliver, Becomes
<1> HIDE DEF s
<1>3. request[r].msg = NoMessage /\ NoMessage \notin Messages
  BY ConstantsAssumption DEF Deliver, TypeInv, Sound
<1>4. /\ request'[r].phase = "received" /\ request'[r].msg = m
      /\ \A q \in Requests \ {r} : request'[q] = request[q]
  BY <1>1, <1>2 DEF TypeInv, TypeOK
<1>5. ASSUME NEW n \in Messages, n # m
      PROVE  Budget(n)' = Budget(n)
  <2>1. Writers(n)' = Writers(n) BY <1>3, <1>4, <1>5 DEF Writers
  <2>2. Held(n)' = Held(n) BY <1>3, <1>4, <1>5 DEF Held
  <2> QED BY <2>1, <2>2 DEF Budget, Deliver
<1>6. Budget(m)' + faults <= Budget(m) + faults'
  <2>1. r \notin Writers(m) BY <1>3 DEF Writers
  <2>2. Writers(m)' = Writers(m) \cup {r} BY <1>4 DEF Writers
  <2>3. Cardinality(Writers(m)') = Cardinality(Writers(m)) + 1
    BY <2>1, <2>2, BudgetType, FS_AddElement
  <2>4. Pending(m)' = 0 BY <1>4 DEF Pending, Held
  <2>5. Pending(m) = 1 \/ faults' = faults + 1 BY DEF Pending, Deliver, Fault
  <2>6. UNCHANGED faults \/ faults' = faults + 1 BY DEF Deliver, Fault
  <2>7. /\ Cardinality(Writers(m)) \in Nat /\ Pending(m) \in Nat
        /\ Budget(m) = Cardinality(Writers(m)) + Pending(m)
        /\ Budget(m)' = Cardinality(Writers(m)') + Pending(m)'
    BY BudgetType, BudgetTypePrime, Zenon
  <2>8. faults \in Nat BY Numbers DEF TypeInv, TypeOK
  <2> QED BY <2>3, <2>4, <2>5, <2>6, <2>7, <2>8
<1>7. faults \in Nat /\ faults' \in Nat /\ faults <= faults'
  BY FaultsGrow DEF Deliver
<1>8. \A n \in Messages : Budget(n)' + faults <= Budget(n) + faults'
  BY <1>5, <1>6, <1>7, BudgetType
<1> QED BY <1>8, KeepsBudget DEF Deliver

\* A message that is answered is not delivered again, unless the answer is lost.
LEMMA AnswerBounded ==
    ASSUME TypeInv, TypeInv', CopiesBounded, NEW r \in Requests, Answer(r) \/ AnswerLost(r)
    PROVE  CopiesBounded'
<1>1. /\ request[r].phase = "answer" /\ request' = [request EXCEPT ![r] = IdleRequest]
      /\ UNCHANGED <<vault, raw>>
      /\ \/ waiting' = waiting \ {request[r].msg} /\ UNCHANGED faults
         \/ UNCHANGED waiting /\ faults' = faults + 1
  BY DEF Answer, AnswerLost, Becomes, Fault
<1>2. /\ request'[r].msg \notin Messages
      /\ \A q \in Requests \ {r} : request'[q] = request[q]
  BY <1>1, ConstantsAssumption DEF TypeInv, TypeOK, IdleRequest
<1>3. faults \in Nat BY Numbers DEF TypeInv, TypeOK
<1>4. ASSUME NEW m \in Messages
      PROVE  Budget(m)' + faults <= Budget(m) + faults'
  <2>1. Writers(m)' \subseteq Writers(m) BY <1>1, <1>2 DEF Writers
  <2>2. Pending(m)' <= Pending(m) \/ faults' = faults + 1
    <3>1. CASE request[r].msg = m BY <1>1, <3>1 DEF Pending
    <3>2. CASE request[r].msg # m
      <4>1. Held(m)' = Held(m) BY <1>2, <3>2 DEF Held
      <4> QED BY <1>1, <4>1 DEF Pending
    <3> QED BY <3>1, <3>2
  <2>3. Budget(m)' <= Budget(m) + Pending(m)' - Pending(m) BY <2>1, BudgetPlus
  <2>4. /\ Budget(m) \in Nat /\ Budget(m)' \in Nat
        /\ Pending(m) \in {0, 1} /\ Pending(m)' \in {0, 1}
    BY BudgetType, BudgetTypePrime
  <2> QED BY <1>1, <1>3, <2>2, <2>3, <2>4
<1> QED BY <1>1, <1>4, KeepsBudget

LEMMA InstanceDiesBounded ==
    ASSUME TypeInv, TypeInv', CopiesBounded, NEW i \in Instances, InstanceDies(i)
    PROVE  CopiesBounded'
<1>1. faults \in Nat /\ faults' = faults + 1 BY Numbers DEF InstanceDies, Fault, TypeInv, TypeOK
<1>2. \A q \in Requests : request'[q] = request[q] \/ request'[q].msg \notin Messages
  BY ConstantsAssumption DEF InstanceDies, IdleRequest
<1>3. ASSUME NEW m \in Messages
      PROVE  Budget(m)' + faults <= Budget(m) + faults'
  <2>1. Writers(m)' \subseteq Writers(m) BY <1>2 DEF Writers
  <2>2. Budget(m)' <= Budget(m) + Pending(m)' - Pending(m) BY <2>1, BudgetPlus
  <2>3. /\ Budget(m) \in Nat /\ Budget(m)' \in Nat
        /\ Pending(m) \in {0, 1} /\ Pending(m)' \in {0, 1}
    BY BudgetType, BudgetTypePrime
  <2> QED BY <1>1, <2>2, <2>3
<1> QED BY <1>3, KeepsBudget DEF InstanceDies

LEMMA NextBounded ==
    ASSUME TypeInv, TypeInv', CopiesBounded, [Next]_vars
    PROVE  CopiesBounded'
<1>1. CASE UNCHANGED <<waiting, request, vault, raw, faults>>
  BY <1>1 DEF CopiesBounded, Budget, Writers, Held
<1>2. Outside \/ UNCHANGED vars => UNCHANGED <<waiting, request, vault, raw, faults>>
  BY DEF Outside, Redeclare, KeyMade, Rotate, Shred, SetKey, vars
<1>3. CASE Next
  BY <1>1, <1>2, <1>3, CustomerBounded, ContextBounded, WarehouseBounded, DeliverBounded,
     AnswerBounded, InstanceDiesBounded DEF Next, RequestStep, RequestFails
<1> QED BY <1>1, <1>2, <1>3

LEMMA InitBounded == Init => CopiesBounded
<1> SUFFICES ASSUME Init, NEW m \in Messages
             PROVE  /\ raw[m] + Budget(m) <= 1 + faults
                    /\ \A f \in Fields : vault[<<m, f>>] + Budget(m) <= 1 + faults
  BY DEF CopiesBounded
<1>1. Writers(m) = {} BY ConstantsAssumption DEF Init, Writers, IdleRequest
<1>2. Cardinality(Writers(m)) = 0 BY <1>1, FS_EmptySet
<1>3. Budget(m) \in {0, 1} BY <1>2, BudgetType
<1> QED BY <1>3 DEF Init

\* However many requests, instances and messages there are, and whatever fails
\* in which order: a value is stored at most once more than there were
\* failures, although nothing recognizes a second copy.
THEOREM CopiesPaidFor == Spec => []CopiesBounded
<1>1. Init => TypeInv /\ CopiesBounded BY InitType, InitBounded
<1>2. TypeInv /\ CopiesBounded /\ [Next]_vars => (TypeInv /\ CopiesBounded)'
  BY NextType, NextBounded
<1> QED BY <1>1, <1>2, PTL DEF Spec

-----------------------------------------------------------------------------
(* Writes under a declaration that no longer holds                         *)

\* A request of a customer that has passed the declaration, which has changed
\* since.
Stale(s, reg) ==
    /\ s.msg # NoMessage /\ Routes[s.msg] = "customer"
    /\ s.phase \in {"keys", "context", "unwrap", "store"}
    /\ ~(/\ reg[Topic[s.msg]].declared /\ reg[Topic[s.msg]].caller = Sender[s.msg]
         /\ s.fields \subseteq reg[Topic[s.msg]].encrypt)

StaleRequests == {r \in Requests : Stale(request[r], registry)}

\* What was written late, and what still may be, is paid for by changes.
LateInv == late + Cardinality(StaleRequests) <= changes * Cardinality(Requests)

LEMMA StaleType ==
    /\ Cardinality(Requests) \in Nat
    /\ IsFiniteSet(StaleRequests) /\ Cardinality(StaleRequests) \in Nat
    /\ IsFiniteSet(StaleRequests') /\ Cardinality(StaleRequests') \in Nat
    /\ Cardinality(StaleRequests') <= Cardinality(Requests)
<1>1. IsFiniteSet(Requests) /\ StaleRequests \subseteq Requests /\ StaleRequests' \subseteq Requests
  BY ConstantsAssumption DEF StaleRequests
<1> QED BY <1>1, FS_Subset, FS_CardinalityType

\* No request becomes stale while the registry stays, and nothing is late.
LEMMA StaleShrinks ==
    ASSUME TypeInv, LateInv, UNCHANGED <<registry, late, changes>>,
           \A q \in Requests :
              Stale(request'[q], registry) => Stale(request[q], registry)
    PROVE  LateInv'
<1>1. StaleRequests' \subseteq StaleRequests BY DEF StaleRequests
<1>2. Cardinality(StaleRequests') <= Cardinality(StaleRequests) BY <1>1, StaleType, FS_Subset
<1>3. late \in Nat /\ changes \in Nat BY Numbers DEF TypeInv, TypeOK
<1>4. late + Cardinality(StaleRequests') <= changes * Cardinality(Requests)
  <2> DEFINE bound == changes * Cardinality(Requests)
  <2>1. bound \in Nat BY <1>3, StaleType
  <2>2. late + Cardinality(StaleRequests) <= bound BY DEF LateInv
  <2> HIDE DEF bound
  <2>3. late + Cardinality(StaleRequests') <= bound BY <1>2, <1>3, <2>1, <2>2, StaleType
  <2> QED BY <2>3 DEF bound
<1> QED BY <1>4 DEF LateInv

LEMMA IdleNotStale == \A reg : ~Stale(IdleRequest, reg)
BY DEF Stale, IdleRequest

LEMMA RefusesLate ==
    ASSUME TypeInv, LateInv, NEW r \in Requests, Refuses(r), UNCHANGED <<registry, late, changes>>
    PROVE  LateInv'
BY IdleNotStale, StaleShrinks DEF Refuses, Becomes, TypeInv, TypeOK

\* A request that goes on and is not stale unless it was.
LEMMA GoesOnLate ==
    ASSUME TypeInv, LateInv, NEW r \in Requests, NEW s, Becomes(r, s),
           Stale(s, registry) => Stale(request[r], registry),
           UNCHANGED <<registry, late, changes>>
    PROVE  LateInv'
BY StaleShrinks DEF Becomes, TypeInv, TypeOK

LEMMA AcceptsNotStale ==
    ASSUME NEW m \in Messages
    PROVE  ~Stale([IdleRequest EXCEPT !.phase = "answer", !.msg = m], registry)
BY FreshType DEF Stale

LEMMA AcceptsLate ==
    ASSUME TypeInv, LateInv, NEW r \in Requests, Accepts(r), request[r].phase # "idle",
           UNCHANGED <<registry, late, changes>>
    PROVE  LateInv'
<1>1. request[r].msg \in Messages BY DEF TypeInv, Sound
<1> QED BY <1>1, AcceptsNotStale, GoesOnLate DEF Accepts

\* A write under a declaration that no longer holds is the last one of its
\* request.
LEMMA AppendedLate ==
    ASSUME TypeInv, LateInv, NEW r \in Requests, Inserting(r), NEW fields, Appended(r, fields),
           Accepts(r) \/ Refuses(r), UNCHANGED <<registry, changes>>
    PROVE  LateInv'
<1>1. CASE UNCHANGED late
  BY <1>1, AcceptsLate, RefusesLate DEF Inserting
<1>2. CASE late' = late + 1 /\ ~Stands(r)
  <2>1. r \in StaleRequests
    BY <1>2 DEF StaleRequests, Stale, Inserting, Handling, Stands, Authorized, Declared, Msg
  <2>2. request[r].msg \in Messages BY DEF Inserting, TypeInv, Sound
  <2>3. PICK s : Becomes(r, s) /\ ~Stale(s, registry)
    BY <2>2, AcceptsNotStale, IdleNotStale DEF Accepts, Refuses
  <2>4. StaleRequests' = StaleRequests \ {r}
    BY <2>3 DEF StaleRequests, Becomes, TypeInv, TypeOK
  <2>5. Cardinality(StaleRequests') = Cardinality(StaleRequests) - 1
    BY <2>1, <2>4, StaleType, FS_RemoveElement
  <2> DEFINE c == Cardinality(StaleRequests)
             d == Cardinality(StaleRequests')
             bound == changes * Cardinality(Requests)
  <2>6. c \in Nat /\ d \in Nat /\ late \in Nat /\ d = c - 1
    BY <2>5, StaleType DEF TypeInv, TypeOK
  <2>7. changes \in Nat BY Numbers DEF TypeInv, TypeOK
  <2>8. bound \in Nat /\ late + c <= bound BY <2>7, StaleType DEF LateInv
  <2> HIDE DEF c, d, bound
  <2>9. (late + 1) + d <= bound BY <2>6, <2>8
  <2> QED BY <1>2, <2>9 DEF LateInv, d, bound
<1> QED BY <1>1, <1>2 DEF Appended

LEMMA CustomerLate ==
    ASSUME TypeInv, LateInv, NEW r \in Requests, CustomerStep(r) \/ CustomerFails(r)
    PROVE  LateInv'
<1>t. request[r] \in RequestState BY DEF TypeInv, TypeOK
<1>1. CASE VerifyToken(r)
  <2> DEFINE s == [request[r] EXCEPT !.phase = "declaration"]
  <2>1. ~Stale(s, registry) BY <1>t DEF Stale, RequestState
  <2>2. Refuses(r) \/ Becomes(r, s) BY <1>1 DEF VerifyToken, GoesTo
  <2> HIDE DEF s
  <2> QED BY <1>1, <2>1, <2>2, RefusesLate, GoesOnLate DEF VerifyToken
<1>2. CASE RejectCaller(r) BY <1>2, RefusesLate DEF RejectCaller
<1>3. CASE IgnoreMessage(r) BY <1>3, AcceptsLate DEF IgnoreMessage
<1>4. CASE AcceptMessage(r)
  <2> DEFINE s == [request[r] EXCEPT !.phase = "keys", !.fields = Wanted(r)]
  <2>1. s.msg = request[r].msg /\ s.fields = Wanted(r) BY <1>t DEF RequestState
  <2>2. Becomes(r, s) BY <1>4 DEF AcceptMessage
  <2> HIDE DEF s
  <2>3. ~Stale(s, registry)
    BY <1>4, <2>1 DEF AcceptMessage, Stale, Authorized, Wanted, Declared, Msg
  <2> QED BY <1>4, <2>2, <2>3, GoesOnLate DEF AcceptMessage
<1>5. CASE InsertRows(r) BY <1>5, AppendedLate DEF InsertRows
<1>6. CASE RateLimited(r)
  <2> DEFINE s == [request[r] EXCEPT !.attempt = request[r].attempt + 1]
  <2>1. /\ s.phase = request[r].phase /\ s.msg = request[r].msg
        /\ s.fields = request[r].fields
    BY <1>t DEF RequestState
  <2>2. Refuses(r) \/ Becomes(r, s) BY <1>6 DEF RateLimited
  <2> HIDE DEF s
  <2>3. Stale(s, registry) => Stale(request[r], registry) BY <2>1 DEF Stale
  <2> QED BY <1>6, <2>2, <2>3, RefusesLate, GoesOnLate DEF RateLimited
<1>7. ASSUME NEW landed, InsertFails(r, landed)
      PROVE  LateInv'
  BY <1>7, AppendedLate DEF InsertFails
<1> QED BY <1>1, <1>2, <1>3, <1>4, <1>5, <1>6, <1>7 DEF CustomerStep, CustomerFails

LEMMA ContextLate ==
    ASSUME TypeInv, LateInv, NEW r \in Requests, ContextStep(r) \/ CallFails(r)
    PROVE  LateInv'
<1>t. request[r] \in RequestState BY DEF TypeInv, TypeOK
<1>1. CASE Refuses(r)
  BY <1>1, RefusesLate DEF ContextStep, CallFails, CreateKey, UseCached, FetchContext,
     ContextRefused, UnwrapContext
<1>2. CASE CreateKey(r) \/ UseCached(r) \/ FetchContext(r) \/ UnwrapContext(r)
  <2>1. /\ request[r].phase \in {"keys", "context", "unwrap"}
        /\ UNCHANGED <<registry, late, changes>>
    BY <1>2 DEF CreateKey, UseCached, FetchContext, UnwrapContext
  <2> DEFINE to(p) == [request[r] EXCEPT !.phase = p]
             with(p, n) == [request[r] EXCEPT !.phase = p, !.version = n]
  <2>2. \A p : to(p).msg = request[r].msg /\ to(p).fields = request[r].fields
    BY <1>t DEF RequestState
  <2>3. \A p, n : with(p, n).msg = request[r].msg /\ with(p, n).fields = request[r].fields
    BY <1>t DEF RequestState
  <2>4. \/ \E p : Becomes(r, to(p))
        \/ \E p, n : Becomes(r, with(p, n))
    BY <1>2 DEF CreateKey, UseCached, FetchContext, UnwrapContext, GoesTo
  <2> HIDE DEF to, with
  <2>5. PICK s : /\ Becomes(r, s) /\ s.msg = request[r].msg
                 /\ s.fields = request[r].fields
    BY <2>2, <2>3, <2>4
  <2>6. Stale(s, registry) => Stale(request[r], registry) BY <2>1, <2>5 DEF Stale
  <2> QED BY <2>1, <2>5, <2>6, GoesOnLate
<1> QED BY <1>1, <1>2 DEF ContextStep, ContextRefused, CallFails

LEMMA WarehouseLate ==
    ASSUME TypeInv, LateInv, NEW r \in Requests, WarehouseStep(r) \/ WarehouseFails(r)
    PROVE  LateInv'
<1>t. request[r] \in RequestState BY DEF TypeInv, TypeOK
<1>1. CASE Decode(r)
  <2>1. PICK p \in {"store", "context"} : GoesTo(r, p) BY <1>1 DEF Decode
  <2> DEFINE s == [request[r] EXCEPT !.phase = p]
  <2>2. s.msg = request[r].msg BY <1>t DEF RequestState
  <2>3. Becomes(r, s) BY <2>1 DEF GoesTo
  <2> HIDE DEF s
  <2>4. ~Stale(s, registry) BY <1>1, <2>2 DEF Decode, Handling, Stale
  <2> QED BY <1>1, <2>3, <2>4, GoesOnLate DEF Decode
<1>2. CASE DecodeFails(r) BY <1>2, AcceptsLate, RefusesLate DEF DecodeFails
<1>3. CASE LoadRecord(r) BY <1>3, AcceptsLate DEF LoadRecord, Loading
<1>4. CASE LoadFails(r) BY <1>4, RefusesLate DEF LoadFails
<1> QED BY <1>1, <1>2, <1>3, <1>4 DEF WarehouseStep, WarehouseFails

LEMMA RedeclareLate ==
    ASSUME TypeInv, LateInv, UNCHANGED late, changes' = changes + 1
    PROVE  LateInv'
<1> DEFINE n == Cardinality(Requests)
           c == Cardinality(StaleRequests)
           d == Cardinality(StaleRequests')
<1>1. n \in Nat /\ c \in Nat /\ d \in Nat /\ d <= n /\ changes \in Nat /\ late \in Nat
  BY StaleType, Numbers DEF TypeInv, TypeOK
<1>2. late + c <= changes * n BY DEF LateInv
<1> HIDE DEF n, c, d
<1>3. (changes + 1) * n = changes * n + n BY <1>1
<1>4. changes * n \in Nat BY <1>1
<1>5. late + d <= changes * n + n BY <1>1, <1>2, <1>4
<1> QED BY <1>3, <1>5 DEF LateInv, n, d

LEMMA NextLate ==
    ASSUME TypeInv, LateInv, [Next]_vars
    PROVE  LateInv'
<1>1. CASE UNCHANGED <<request, registry, late, changes>>
  BY <1>1, StaleShrinks
<1>2. ASSUME NEW r \in Requests, NEW m \in Messages, Deliver(r, m)
      PROVE  LateInv'
  <2> DEFINE s == [IdleRequest EXCEPT !.phase = "received", !.msg = m]
  <2>1. s.phase = "received" BY FreshType
  <2>2. Becomes(r, s) BY <1>2 DEF Deliver
  <2> HIDE DEF s
  <2> QED BY <1>2, <2>1, <2>2, GoesOnLate DEF Deliver, Stale
<1>3. ASSUME NEW r \in Requests, Answer(r) \/ AnswerLost(r)
      PROVE  LateInv'
  BY <1>3, RefusesLate DEF Answer, AnswerLost, Refuses
<1>4. ASSUME NEW i \in Instances, InstanceDies(i)
      PROVE  LateInv'
  <2>1. \A q \in Requests : Stale(request'[q], registry) => Stale(request[q], registry)
    BY <1>4, IdleNotStale DEF InstanceDies
  <2> QED BY <1>4, <2>1, StaleShrinks DEF InstanceDies
<1>5. Outside => UNCHANGED <<request, registry, late, changes>>
                     \/ (UNCHANGED late /\ changes' = changes + 1)
  BY DEF Outside, Redeclare, KeyMade, Rotate, Shred, SetKey
<1>6. CASE Outside BY <1>1, <1>5, <1>6, RedeclareLate
<1>7. UNCHANGED vars => UNCHANGED <<request, registry, late, changes>> BY DEF vars
<1> QED BY <1>1, <1>2, <1>3, <1>4, <1>6, <1>7, CustomerLate, ContextLate, WarehouseLate
       DEF Next, RequestStep, RequestFails

LEMMA InitLate == Init => LateInv
<1> SUFFICES ASSUME Init PROVE LateInv OBVIOUS
<1>1. StaleRequests = {} BY IdleNotStale DEF Init, StaleRequests
<1>2. Cardinality(StaleRequests) = 0 BY <1>1, FS_EmptySet
<1>3. late = 0 /\ changes * Cardinality(Requests) = 0 BY StaleType DEF Init
<1> QED BY <1>2, <1>3 DEF LateInv

LEMMA LateImplies ==
    ASSUME TypeInv, LateInv
    PROVE  LateWritesBounded
<1> DEFINE c == Cardinality(StaleRequests)
           bound == changes * Cardinality(Requests)
<1>1. changes \in Nat BY Numbers DEF TypeInv, TypeOK
<1>2. c \in Nat /\ late \in Nat /\ bound \in Nat BY <1>1, StaleType DEF TypeInv, TypeOK
<1>3. late + c <= bound BY DEF LateInv
<1> HIDE DEF c, bound
<1>4. late <= bound BY <1>2, <1>3
<1> QED BY <1>4 DEF LateWritesBounded, bound

\* A withdrawn or narrowed declaration is written under by at most the
\* requests that were under way at one of the changes.
THEOREM LateWritesPaidFor == Spec => []LateWritesBounded
<1>1. Init => TypeInv /\ LateInv BY InitType, InitLate
<1>2. TypeInv /\ LateInv /\ [Next]_vars => (TypeInv /\ LateInv)' BY NextType, NextLate
<1>3. TypeInv /\ LateInv => LateWritesBounded BY LateImplies
<1> QED BY <1>1, <1>2, <1>3, PTL DEF Spec
=============================================================================
