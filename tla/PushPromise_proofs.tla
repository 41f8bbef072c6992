------------------------ MODULE PushPromise_proofs ------------------------
(***************************************************************************)
(* A push endpoint acknowledges a message only when everything it obliges  *)
(* to is stored, and a stored value stays: the implementation of           *)
(* AtLeastOnce, for every value of the constants.                          *)
(***************************************************************************)
EXTENDS PushIngest_proofs

StoreSteps(r) ==
    \/ InsertRows(r)
    \/ \E landed \in SUBSET Fields : InsertFails(r, landed)
    \/ LoadRecord(r)
    \/ LoadFails(r)

\* Only four actions write rows, and only an answer takes a message away.
LEMMA WhoStores ==
    ASSUME Next
    PROVE  /\ UNCHANGED <<vault, raw>> \/ \E r \in Requests : StoreSteps(r)
           /\ UNCHANGED waiting \/ \E r \in Requests : Answer(r)
<1>1. ASSUME NEW r \in Requests, RequestStep(r)
      PROVE  /\ UNCHANGED <<vault, raw>> \/ StoreSteps(r)
             /\ UNCHANGED waiting \/ Answer(r)
  BY <1>1 DEF RequestStep, CustomerStep, VerifyToken, RejectCaller, IgnoreMessage, AcceptMessage,
     InsertRows, ContextStep, CreateKey, UseCached, FetchContext, ContextRefused, UnwrapContext,
     WarehouseStep, Decode, DecodeFails, LoadRecord, Answer, StoreSteps
<1>2. ASSUME NEW r \in Requests, RequestFails(r)
      PROVE  (UNCHANGED <<vault, raw>> \/ StoreSteps(r)) /\ UNCHANGED waiting
  BY <1>2 DEF RequestFails, CallFails, CustomerFails, RateLimited, InsertFails, WarehouseFails,
     LoadFails, AnswerLost, StoreSteps
<1>3. ASSUME NEW r \in Requests, NEW m \in Messages, Deliver(r, m)
      PROVE  UNCHANGED <<vault, raw, waiting>>
  BY <1>3 DEF Deliver
<1>4. ASSUME NEW i \in Instances, InstanceDies(i)
      PROVE  UNCHANGED <<vault, raw, waiting>>
  BY <1>4 DEF InstanceDies
<1>5. Outside => UNCHANGED <<vault, raw, waiting>>
  BY DEF Outside, Redeclare, KeyMade, Rotate, Shred, SetKey
<1> QED BY <1>1, <1>2, <1>3, <1>4, <1>5 DEF Next

\* A row stays.
LEMMA StoreGrows ==
    ASSUME TypeInv, Next
    PROVE  Stored \subseteq Stored'
<1>v. vault \in [Messages \X Fields -> Nat] /\ raw \in [Messages -> Nat]
  BY DEF TypeInv, TypeOK
<1>1. CASE UNCHANGED <<vault, raw>> BY <1>1 DEF Stored
<1>2. ASSUME NEW r \in Requests, StoreSteps(r)
      PROVE  Stored \subseteq Stored'
  <2>1. CASE vault' = vault /\ raw' \in {raw, Loaded(r)}
    <3>1. \A m \in Messages : raw[m] > 0 => raw'[m] > 0 BY <1>v, <2>1 DEF Loaded
    <3> QED BY <2>1, <3>1 DEF Stored
  <2>2. ASSUME NEW fields, Appended(r, fields), raw' = raw
        PROVE  Stored \subseteq Stored'
    <3>1. \A v \in Messages \X Fields : vault[v] > 0 => vault'[v] > 0
      BY <1>v, <2>2 DEF Appended
    <3> QED BY <2>2, <3>1 DEF Stored
  <2> QED BY <1>2, <2>1, <2>2 DEF StoreSteps, InsertRows, InsertFails, LoadRecord, LoadFails
<1> QED BY <1>1, <1>2, WhoStores

\* What a customer's message obliges to is among the fields that its request
\* is about to store, and a request that answers 200 has everything stored.
Carries(s) ==
    (Routes[s.msg] = "customer" /\ s.phase \in {"keys", "context", "unwrap", "store"})
        => Owes(s.msg) \subseteq {s.msg} \X s.fields

Fulfilled(s, store) == s.phase = "answer" => Owes(s.msg) \subseteq store

PromiseInv == \A r \in Requests : Carries(request[r]) /\ Fulfilled(request[r], Stored)

LEMMA KeepsCarried ==
    ASSUME PromiseInv, Stored \subseteq Stored',
           \A r \in Requests :
              request'[r] = request[r] \/ (Carries(request'[r]) /\ Fulfilled(request'[r], Stored'))
    PROVE  PromiseInv'
BY DEF PromiseInv, Fulfilled

LEMMA IdleCarries == Carries(IdleRequest) /\ \A store : Fulfilled(IdleRequest, store)
BY DEF Carries, Fulfilled, IdleRequest

LEMMA ReceivedCarries ==
    ASSUME NEW m \in Messages, NEW store
    PROVE  /\ Carries([IdleRequest EXCEPT !.phase = "received", !.msg = m])
           /\ Fulfilled([IdleRequest EXCEPT !.phase = "received", !.msg = m], store)
BY FreshType DEF Carries, Fulfilled

LEMMA AnswerFulfills ==
    ASSUME NEW m \in Messages, NEW store, Owes(m) \subseteq store
    PROVE  /\ Carries([IdleRequest EXCEPT !.phase = "answer", !.msg = m])
           /\ Fulfilled([IdleRequest EXCEPT !.phase = "answer", !.msg = m], store)
BY FreshType DEF Carries, Fulfilled

\* A request that accepts its message when everything is stored.
LEMMA AcceptsFulfilled ==
    ASSUME TypeInv, TypeInv', PromiseInv, Stored \subseteq Stored', NEW r \in Requests,
           Msg(r) \in Messages, Owes(Msg(r)) \subseteq Stored', Accepts(r)
    PROVE  PromiseInv'
BY AnswerFulfills, KeepsCarried DEF Accepts, Becomes, TypeInv, TypeOK, Msg

LEMMA RefusesFulfilled ==
    ASSUME TypeInv, PromiseInv, Stored \subseteq Stored', NEW r \in Requests, Refuses(r)
    PROVE  PromiseInv'
BY IdleCarries, KeepsCarried DEF Refuses, Becomes, TypeInv, TypeOK

\* A request that goes on with the message and the fields it has.
LEMMA GoesOnFulfilled ==
    ASSUME TypeInv, PromiseInv, Stored \subseteq Stored', NEW r \in Requests,
           NEW s \in RequestState, Becomes(r, s), s.phase # "answer",
           s.msg = request[r].msg, s.fields = request[r].fields,
           request[r].phase \in {"keys", "context", "unwrap", "store"}
              \/ s.phase = "declaration" \/ Routes[s.msg] # "customer"
    PROVE  PromiseInv'
<1>1. Carries(s) /\ Fulfilled(s, Stored') BY DEF PromiseInv, Carries, Fulfilled
<1> QED BY <1>1, KeepsCarried DEF Becomes, TypeInv, TypeOK

\* The declaration that a message was accepted under is one of those that
\* say what it obliges to.
LEMMA OwesWanted ==
    ASSUME TypeInv, NEW r \in Requests, request[r].phase = "declaration", Authorized(r),
           Msg(r) \notin Malformed, Declared(r).keyed
    PROVE  Owes(Msg(r)) \subseteq {Msg(r)} \X Wanted(r)
<1>1. Msg(r) \in Messages /\ Routes[Msg(r)] = "customer" /\ Topic[Msg(r)] \in Resources
  BY CustomerFact
<1>2. Declared(r) \in Declarations[Topic[Msg(r)]] BY <1>1 DEF TypeInv, RegistrySound, Declared
<1>3. CASE Owner[Msg(r)] = NoUser BY <1>1, <1>3 DEF Owes
<1>4. CASE Owner[Msg(r)] # NoUser
  <2>1. \A g \in Present[Msg(r)] :
           (\A d \in Declarations[Topic[Msg(r)]] : d.declared /\ d.keyed => g \in d.encrypt)
              => g \in Wanted(r)
    BY <1>2, <1>4 DEF Authorized, Wanted
  <2>2. \A o \in Owes(Msg(r)) : \E g \in Wanted(r) : o = <<Msg(r), g>>
    BY <1>1, <1>4, <2>1 DEF Owes
  <2> QED BY <2>2
<1> QED BY <1>3, <1>4

LEMMA CustomerFulfilled ==
    ASSUME TypeInv, TypeInv', PromiseInv, Stored \subseteq Stored', NEW r \in Requests,
           CustomerStep(r) \/ CustomerFails(r)
    PROVE  PromiseInv'
<1>c. request[r] \in RequestState /\ TypeOK BY DEF TypeInv, TypeOK
<1>1. CASE VerifyToken(r)
  <2>1. CASE Refuses(r) BY <2>1, RefusesFulfilled
  <2>2. CASE GoesTo(r, "declaration")
    <3> DEFINE s == [request[r] EXCEPT !.phase = "declaration"]
    <3>1. /\ s \in RequestState /\ s.phase = "declaration"
          /\ s.msg = request[r].msg /\ s.fields = request[r].fields
      BY <1>c DEF RequestState, Phase
    <3>2. Becomes(r, s) BY <2>2 DEF GoesTo
    <3> HIDE DEF s
    <3> QED BY <3>1, <3>2, GoesOnFulfilled
  <2> QED BY <1>1, <2>1, <2>2 DEF VerifyToken
<1>2. CASE RejectCaller(r) BY <1>2, RefusesFulfilled DEF RejectCaller
<1>3. CASE IgnoreMessage(r)
  <2>1. Msg(r) \in Messages BY <1>3, CustomerFact DEF IgnoreMessage
  <2>2. CASE Msg(r) \in Malformed
    <3>1. Owes(Msg(r)) = {} BY <2>2 DEF Owes
    <3> QED BY <1>3, <2>1, <3>1, AcceptsFulfilled DEF IgnoreMessage
  <2>3. CASE Msg(r) \notin Malformed
    <3>1. Owes(Msg(r)) \subseteq {Msg(r)} \X {}
      BY <1>3, <2>3, OwesWanted DEF IgnoreMessage
    <3>2. Owes(Msg(r)) = {} BY <3>1
    <3> QED BY <1>3, <2>1, <3>2, AcceptsFulfilled DEF IgnoreMessage
  <2> QED BY <2>2, <2>3
<1>4. CASE AcceptMessage(r)
  <2> DEFINE s == [request[r] EXCEPT !.phase = "keys", !.fields = Wanted(r)]
  <2>1. s.phase = "keys" /\ s.msg = Msg(r) /\ s.fields = Wanted(r)
    BY <1>c DEF RequestState, Msg
  <2>2. Owes(Msg(r)) \subseteq {Msg(r)} \X Wanted(r)
    BY <1>4, OwesWanted DEF AcceptMessage
  <2>3. Becomes(r, s) BY <1>4 DEF AcceptMessage
  <2> HIDE DEF s
  <2>4. Carries(s) /\ Fulfilled(s, Stored') BY <2>1, <2>2 DEF Carries, Fulfilled
  <2> QED BY <1>c, <2>3, <2>4, KeepsCarried DEF Becomes, TypeOK
<1>5. CASE InsertRows(r)
  <2>1. Inserting(r) /\ Appended(r, request[r].fields) /\ Accepts(r) BY <1>5 DEF InsertRows
  <2>2. Msg(r) \in Messages /\ Routes[Msg(r)] = "customer" /\ request[r].fields \subseteq Fields
    BY <1>c, <2>1, CustomerFact DEF RequestState
  <2>3. Owes(Msg(r)) \subseteq {Msg(r)} \X request[r].fields
    BY <2>1, <2>2 DEF PromiseInv, Carries, Inserting, Msg
  <2>4. \A f \in request[r].fields : <<Msg(r), f>> \in Stored'
    <3> SUFFICES ASSUME NEW f \in request[r].fields
                 PROVE  vault'[<<Msg(r), f>>] > 0
      BY <2>2 DEF Stored
    <3>1. <<Msg(r), f>> \in Messages \X Fields BY <2>2
    <3>2. vault'[<<Msg(r), f>>] = vault[<<Msg(r), f>>] + 1
      BY <2>1, <3>1 DEF Appended
    <3> QED BY <1>c, <3>1, <3>2 DEF TypeOK
  <2>5. Owes(Msg(r)) \subseteq Stored' BY <2>3, <2>4
  <2> QED BY <2>1, <2>2, <2>5, AcceptsFulfilled
<1>6. CASE RateLimited(r)
  <2>1. CASE Refuses(r) BY <2>1, RefusesFulfilled
  <2>2. CASE Becomes(r, [request[r] EXCEPT !.attempt = request[r].attempt + 1])
                /\ request[r].attempt # MaxAttempts
    <3> DEFINE s == [request[r] EXCEPT !.attempt = request[r].attempt + 1]
    <3>1. request[r].attempt + 1 \in 1..MaxAttempts
      BY <1>c, <2>2, Numbers DEF RequestState
    <3>2. /\ s \in RequestState /\ s.phase = request[r].phase
          /\ s.msg = request[r].msg /\ s.fields = request[r].fields
      BY <1>c, <3>1 DEF RequestState
    <3>3. request[r].phase = "store" BY <1>6 DEF RateLimited, Inserting
    <3> HIDE DEF s
    <3> QED BY <2>2, <3>2, <3>3, GoesOnFulfilled DEF s
  <2> QED BY <1>6, <2>1, <2>2 DEF RateLimited
<1>7. ASSUME NEW landed, InsertFails(r, landed)
      PROVE  PromiseInv'
  BY <1>7, RefusesFulfilled DEF InsertFails
<1> QED BY <1>1, <1>2, <1>3, <1>4, <1>5, <1>6, <1>7 DEF CustomerStep, CustomerFails

LEMMA ContextFulfilled ==
    ASSUME TypeInv, TypeInv', PromiseInv, Stored \subseteq Stored', NEW r \in Requests,
           ContextStep(r) \/ CallFails(r)
    PROVE  PromiseInv'
<1>c. request[r] \in RequestState /\ TypeOK BY DEF TypeInv, TypeOK
<1>1. CASE Refuses(r) BY <1>1, RefusesFulfilled
<1>2. CASE CreateKey(r) \/ UseCached(r) \/ FetchContext(r) \/ UnwrapContext(r)
  <2>1. request[r].phase \in {"keys", "context", "unwrap"}
    BY <1>2 DEF CreateKey, UseCached, FetchContext, UnwrapContext
  <2>2. PICK s : /\ Becomes(r, s) /\ s.phase \in {"context", "unwrap", "store"}
                 /\ s.msg = request[r].msg /\ s.fields = request[r].fields
    <3>1. CASE CreateKey(r) BY <1>c, <3>1 DEF CreateKey, GoesTo, RequestState
    <3>2. CASE UseCached(r)
      <4> DEFINE s == [request[r] EXCEPT !.phase = "store", !.version = HostCache(r)[UserOf(r)]]
      <4>1. Becomes(r, s) BY <3>2 DEF UseCached
      <4>2. s.phase = "store" /\ s.msg = request[r].msg /\ s.fields = request[r].fields
        BY <1>c DEF RequestState
      <4> HIDE DEF s
      <4> QED BY <4>1, <4>2
    <3>3. CASE FetchContext(r)
      <4> DEFINE s == [request[r] EXCEPT !.phase = "unwrap", !.version = key[UserOf(r)].version]
      <4>1. Becomes(r, s) BY <3>3 DEF FetchContext
      <4>2. s.phase = "unwrap" /\ s.msg = request[r].msg /\ s.fields = request[r].fields
        BY <1>c DEF RequestState
      <4> HIDE DEF s
      <4> QED BY <4>1, <4>2
    <3>4. CASE UnwrapContext(r) BY <1>c, <3>4 DEF UnwrapContext, GoesTo, RequestState
    <3> QED BY <1>2, <3>1, <3>2, <3>3, <3>4
  <2>3. s \in RequestState BY <1>c, <2>2 DEF Becomes, TypeInv, TypeOK
  <2> QED BY <2>1, <2>2, <2>3, GoesOnFulfilled
<1> QED BY <1>1, <1>2 DEF ContextStep, ContextRefused, CallFails

LEMMA WarehouseFulfilled ==
    ASSUME TypeInv, TypeInv', PromiseInv, Stored \subseteq Stored', NEW r \in Requests,
           WarehouseStep(r) \/ WarehouseFails(r)
    PROVE  PromiseInv'
<1>c. request[r] \in RequestState /\ TypeOK BY DEF TypeInv, TypeOK
<1>1. CASE Refuses(r) BY <1>1, RefusesFulfilled
<1>2. CASE Decode(r)
  <2>1. PICK p \in {"store", "context"} : GoesTo(r, p) BY <1>2 DEF Decode
  <2>2. Routes[request[r].msg] # "customer" BY <1>2 DEF Decode, Handling
  <2> DEFINE s == [request[r] EXCEPT !.phase = p]
  <2>3. /\ s \in RequestState /\ s.phase = p
        /\ s.msg = request[r].msg /\ s.fields = request[r].fields
    BY <1>c DEF RequestState, Phase
  <2>4. Becomes(r, s) BY <2>1 DEF GoesTo
  <2> HIDE DEF s
  <2> QED BY <2>2, <2>3, <2>4, GoesOnFulfilled
<1>3. CASE DecodeFails(r) /\ Accepts(r)
  <2>1. Msg(r) \in Messages /\ Owes(Msg(r)) = {}
    BY <1>3, WarehouseFact DEF DecodeFails, Owes, Msg
  <2> QED BY <1>3, <2>1, AcceptsFulfilled
<1>4. CASE LoadRecord(r)
  <2>1. /\ Msg(r) \in Messages /\ Routes[Msg(r)] # "customer"
        /\ raw' = Loaded(r) /\ Accepts(r)
    BY <1>4, WarehouseFact DEF LoadRecord, Loading, Handling, Msg
  <2>2. raw'[Msg(r)] > 0 BY <1>c, <2>1 DEF Loaded, Msg, TypeOK
  <2>3. <<Msg(r), "record">> \in Stored' BY <2>1, <2>2 DEF Stored
  <2>4. Owes(Msg(r)) \subseteq Stored' BY <2>1, <2>3 DEF Owes
  <2> QED BY <2>1, <2>4, AcceptsFulfilled
<1> QED BY <1>1, <1>2, <1>3, <1>4 DEF WarehouseStep, WarehouseFails, DecodeFails, LoadFails

LEMMA DeliveryFulfilled ==
    ASSUME TypeInv, TypeInv', PromiseInv, Stored \subseteq Stored',
           \/ \E r \in Requests, m \in Messages : Deliver(r, m)
           \/ \E r \in Requests : Answer(r) \/ AnswerLost(r)
           \/ \E i \in Instances : InstanceDies(i)
           \/ Outside
    PROVE  PromiseInv'
<1>1. ASSUME NEW r \in Requests, NEW m \in Messages, Deliver(r, m)
      PROVE  PromiseInv'
  BY <1>1, ReceivedCarries, KeepsCarried DEF Deliver, Becomes, TypeInv, TypeOK
<1>2. ASSUME NEW r \in Requests, Answer(r) \/ AnswerLost(r)
      PROVE  PromiseInv'
  BY <1>2, RefusesFulfilled DEF Answer, AnswerLost, Refuses
<1>3. ASSUME NEW i \in Instances, InstanceDies(i)
      PROVE  PromiseInv'
  BY <1>3, IdleCarries, KeepsCarried DEF InstanceDies
<1>4. Outside => UNCHANGED request
  BY DEF Outside, Redeclare, KeyMade, Rotate, Shred, SetKey
<1> QED BY <1>1, <1>2, <1>3, <1>4, KeepsCarried

LEMMA NextFulfilled ==
    ASSUME TypeInv, TypeInv', PromiseInv, [Next]_vars
    PROVE  PromiseInv'
<1>1. CASE UNCHANGED vars BY <1>1 DEF vars, PromiseInv, Fulfilled, Stored
<1>2. CASE Next
  BY <1>2, StoreGrows, CustomerFulfilled, ContextFulfilled, WarehouseFulfilled, DeliveryFulfilled
     DEF Next, RequestStep, RequestFails
<1> QED BY <1>1, <1>2

LEMMA InitFulfilled == Init => PromiseInv
BY IdleCarries DEF Init, PromiseInv

LEMMA StoredValues == Stored \subseteq Messages \X (Fields \cup {"record"})
BY DEF Stored

LEMMA InitPromise == Init => Promise!Init
<1> SUFFICES ASSUME Init PROVE Promise!Init OBVIOUS
<1>1. waiting \subseteq Messages BY InitType DEF TypeInv, TypeOK
<1>2. Stored = {} BY DEF Init, Stored
<1> QED BY <1>1, <1>2 DEF Promise!Init

LEMMA NextPromise ==
    ASSUME TypeInv, TypeInv', PromiseInv, [Next]_vars
    PROVE  [Promise!Next]_(Promise!promise)
<1>1. CASE UNCHANGED vars BY <1>1 DEF vars, Promise!promise, Stored
<1>2. CASE Next /\ UNCHANGED waiting
  <2>1. Stored \subseteq Stored' BY <1>2, StoreGrows
  <2>2. Stored' \in SUBSET (Messages \X (Fields \cup {"record"})) BY DEF Stored
  <2>3. Promise!Store BY <1>2, <2>1, <2>2 DEF Promise!Store
  <2> QED BY <2>3 DEF Promise!Next
<1>3. ASSUME NEW r \in Requests, Answer(r)
      PROVE  [Promise!Next]_(Promise!promise)
  <2> DEFINE m == request[r].msg
  <2>1. m \in Messages BY <1>3 DEF Answer, TypeInv, Sound
  <2>2. Owes(m) \subseteq Stored BY <1>3 DEF Answer, PromiseInv, Fulfilled
  <2>3. UNCHANGED Stored /\ waiting' = waiting \ {m} BY <1>3 DEF Answer, Stored
  <2>4. CASE m \notin waiting BY <2>3, <2>4 DEF Promise!promise
  <2>5. CASE m \in waiting
    <3>1. Promise!Acknowledge(m) BY <2>1, <2>2, <2>3, <2>5 DEF Promise!Acknowledge
    <3> QED BY <2>1, <3>1 DEF Promise!Next
  <2> QED BY <2>4, <2>5
<1> QED BY <1>1, <1>2, <1>3, WhoStores

\* The push endpoints implement AtLeastOnce: whatever the interleaving of
\* requests, crashes, duplicates and failed inserts, a message leaves its
\* subscription only when all it obliges to is in the warehouse, and a stored
\* value stays.
THEOREM ImplementsPromise == Spec => KeepsPromise
<1>1. Init => TypeInv /\ PromiseInv /\ Promise!Init BY InitType, InitFulfilled, InitPromise
<1>2. TypeInv /\ PromiseInv /\ [Next]_vars => (TypeInv /\ PromiseInv)'
  BY NextType, NextFulfilled
<1>3. TypeInv /\ TypeInv' /\ PromiseInv /\ [Next]_vars => [Promise!Next]_(Promise!promise)
  BY NextPromise
<1> QED BY <1>1, <1>2, <1>3, PTL DEF Spec, KeepsPromise, Promise!Spec
=============================================================================
