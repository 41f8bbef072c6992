------------------------- MODULE PushIngest_proofs -------------------------
(***************************************************************************)
(* Machine-checked facts about PushIngest, for every value of the          *)
(* constants: types; a row belongs to a key that was issued before it; and *)
(* an instance without a context of a shredded user never gets one again.  *)
(***************************************************************************)
EXTENDS PushIngest, FiniteSetTheorems, TLAPS

\* TypeOK is not inductive alone: the steps that use a key look up the user of
\* the message, and only some messages have one.
UserPhase == {"keys", "context", "unwrap"}

Sound(s) ==
    /\ s.phase = "idle" => s.msg = NoMessage
    /\ s.phase # "idle" => s.msg \in Messages
    /\ s.phase \in UserPhase => Owner[s.msg] \in Users
    /\ s.phase = "declaration" => Routes[s.msg] = "customer"
    /\ (s.phase = "store" /\ Routes[s.msg] # "raw") => Owner[s.msg] \in Users

RegistrySound == \A q \in Resources : registry[q] \in Declarations[q]

TypeInv ==
    /\ TypeOK
    /\ RegistrySound
    /\ \A r \in Requests : Sound(request[r])

\* What the proofs use of the numbers among the constants.
LEMMA Numbers ==
    /\ 0 \in Version /\ 1 \in Version /\ 1 \in 1..MaxAttempts
    /\ MaxFaults \in Nat /\ MaxChanges \in Nat /\ MaxVersion \in Nat /\ MaxAttempts \in Nat
BY ConstantsAssumption DEF Version

-----------------------------------------------------------------------------
(* Steps that change one request                                           *)

LEMMA BecomesType ==
    ASSUME TypeInv, NEW r \in Requests, NEW s \in RequestState, Sound(s), Becomes(r, s)
    PROVE  request' \in [Requests -> RequestState] /\ \A q \in Requests : Sound(request'[q])
BY DEF TypeInv, TypeOK, Becomes

LEMMA IdleType == IdleRequest \in RequestState /\ Sound(IdleRequest)
BY Numbers DEF IdleRequest, RequestState, Phase, Sound, UserPhase

\* A request that has just received a message, or is about to answer.
LEMMA FreshType ==
    ASSUME NEW p \in {"received", "answer"}, NEW m \in Messages
    PROVE  LET s == [IdleRequest EXCEPT !.phase = p, !.msg = m]
           IN  s \in RequestState /\ Sound(s) /\ s.phase = p /\ s.msg = m
<1> DEFINE s == [IdleRequest EXCEPT !.phase = p, !.msg = m]
<1>1. s \in RequestState BY Numbers, IdleType DEF RequestState, Phase
<1>2. s.phase = p /\ s.msg = m BY DEF IdleRequest
<1>3. Sound(s) BY <1>2 DEF Sound, UserPhase
<1> QED BY <1>1, <1>2, <1>3

LEMMA RefusesType ==
    ASSUME TypeInv, NEW r \in Requests, Refuses(r)
    PROVE  request' \in [Requests -> RequestState] /\ \A q \in Requests : Sound(request'[q])
BY BecomesType, IdleType DEF Refuses

LEMMA AcceptsType ==
    ASSUME TypeInv, NEW r \in Requests, request[r].phase # "idle", Accepts(r)
    PROVE  request' \in [Requests -> RequestState] /\ \A q \in Requests : Sound(request'[q])
<1>1. request[r].msg \in Messages BY DEF TypeInv, Sound
<1> QED BY <1>1, FreshType, BecomesType DEF Accepts

LEMMA GoesToType ==
    ASSUME TypeInv, NEW r \in Requests, request[r].phase # "idle", NEW p \in Phase,
           p \notin {"idle", "declaration", "answer"}, Routes[request[r].msg] # "raw" => Owner[request[r].msg] \in Users,
           p \in UserPhase => Owner[request[r].msg] \in Users, GoesTo(r, p)
    PROVE  request' \in [Requests -> RequestState] /\ \A q \in Requests : Sound(request'[q])
<1> DEFINE s == [request[r] EXCEPT !.phase = p]
<1>1. request[r] \in RequestState /\ Sound(request[r]) BY DEF TypeInv, TypeOK
<1>2. s \in RequestState /\ Sound(s)
  BY <1>1 DEF RequestState, Sound
<1> QED BY <1>2, BecomesType DEF GoesTo

LEMMA FaultType ==
    ASSUME TypeInv, NEW k, Fault(k)
    PROVE  faults' \in 0..MaxFaults
BY Numbers DEF TypeInv, TypeOK, Fault

\* The variables a step of a request leaves alone keep their types.
LEMMA Rest ==
    ASSUME TypeInv,
           request' \in [Requests -> RequestState], \A q \in Requests : Sound(request'[q]),
           waiting' \subseteq Messages,
           registry' = registry, changes' = changes,
           key' \in [Users -> KeyState],
           cache' \in [Instances -> [Users -> Version]],
           vault' \in [Messages \X Fields -> Nat], raw' \in [Messages -> Nat],
           late' \in Nat, faults' \in 0..MaxFaults
    PROVE  TypeInv'
BY DEF TypeInv, TypeOK, RegistrySound

-----------------------------------------------------------------------------
(* Delivery                                                                *)

LEMMA DeliverType ==
    ASSUME TypeInv, NEW r \in Requests, NEW m \in Messages, Deliver(r, m)
    PROVE  TypeInv'
<1>2. request' \in [Requests -> RequestState] /\ \A q \in Requests : Sound(request'[q])
  BY FreshType, BecomesType DEF Deliver
<1>3. faults' \in 0..MaxFaults BY FaultType DEF Deliver, TypeInv, TypeOK
<1> QED BY <1>2, <1>3, Rest DEF Deliver, TypeInv, TypeOK

LEMMA AnswerType ==
    ASSUME TypeInv, NEW r \in Requests, Answer(r) \/ AnswerLost(r)
    PROVE  TypeInv'
<1>1. request' \in [Requests -> RequestState] /\ \A q \in Requests : Sound(request'[q])
  BY IdleType, BecomesType DEF Answer, AnswerLost
<1>2. faults' \in 0..MaxFaults BY FaultType DEF Answer, AnswerLost, TypeInv, TypeOK
<1> QED BY <1>1, <1>2, Rest DEF Answer, AnswerLost, TypeInv, TypeOK

LEMMA InstanceDiesType ==
    ASSUME TypeInv, NEW i \in Instances, InstanceDies(i)
    PROVE  TypeInv'
<1>1. request' \in [Requests -> RequestState] /\ \A q \in Requests : Sound(request'[q])
  BY IdleType DEF InstanceDies, TypeInv, TypeOK
<1>2. cache' \in [Instances -> [Users -> Version]]
  BY Numbers DEF InstanceDies, TypeInv, TypeOK
<1>3. faults' \in 0..MaxFaults BY FaultType DEF InstanceDies
<1> QED BY <1>1, <1>2, <1>3, Rest DEF InstanceDies, TypeInv, TypeOK

-----------------------------------------------------------------------------
(* Keys and contexts                                                       *)

LEMMA WithKeyType ==
    ASSUME TypeInv, NEW u \in Users
    PROVE  WithKey(u) \in [Users -> KeyState]
BY Numbers DEF WithKey, TypeInv, TypeOK, KeyState

LEMMA UserFact ==
    ASSUME TypeInv, NEW r \in Requests, request[r].phase \in UserPhase
    PROVE  /\ UserOf(r) \in Users /\ request[r] \in RequestState
           /\ request[r].msg \in Messages /\ HostOf[r] \in Instances
BY ConstantsAssumption DEF TypeInv, TypeOK, Sound, UserPhase, UserOf

LEMMA ContextStepType ==
    ASSUME TypeInv, NEW r \in Requests, ContextStep(r)
    PROVE  TypeInv'
<1> request[r].phase \in UserPhase /\ request[r].phase # "idle"
  BY DEF ContextStep, CreateKey, UseCached, FetchContext, ContextRefused, UnwrapContext, UserPhase
<1>u. /\ UserOf(r) \in Users /\ request[r] \in RequestState
      /\ request[r].msg \in Messages /\ HostOf[r] \in Instances
  BY UserFact
<1>1. CASE CreateKey(r)
  <2>1. request' \in [Requests -> RequestState] /\ \A q \in Requests : Sound(request'[q])
    BY <1>1, <1>u, GoesToType DEF CreateKey, Phase, UserOf
  <2>2. key' \in [Users -> KeyState] BY <1>1, <1>u, WithKeyType DEF CreateKey
  <2> QED BY <1>1, <2>1, <2>2, Rest DEF CreateKey, TypeInv, TypeOK
<1>2. CASE UseCached(r)
  <2> DEFINE s == [request[r] EXCEPT !.phase = "store", !.version = HostCache(r)[UserOf(r)]]
  <2>1. HostCache(r)[UserOf(r)] \in Version BY <1>u DEF HostCache, TypeInv, TypeOK
  <2>2. s \in RequestState /\ Sound(s)
    BY <1>u, <2>1 DEF RequestState, Phase, Sound, UserPhase, UserOf
  <2>3. request' \in [Requests -> RequestState] /\ \A q \in Requests : Sound(request'[q])
    BY <1>2, <2>2, BecomesType DEF UseCached
  <2> QED BY <1>2, <2>3, Rest DEF UseCached, TypeInv, TypeOK
<1>3. CASE FetchContext(r)
  <2> DEFINE s == [request[r] EXCEPT !.phase = "unwrap", !.version = key[UserOf(r)].version]
  <2>1. key[UserOf(r)].version \in Version BY <1>u DEF KeyState, TypeInv, TypeOK
  <2>2. s \in RequestState /\ Sound(s)
    BY <1>u, <2>1 DEF RequestState, Phase, Sound, UserPhase, UserOf
  <2>3. request' \in [Requests -> RequestState] /\ \A q \in Requests : Sound(request'[q])
    BY <1>3, <2>2, BecomesType DEF FetchContext
  <2> QED BY <1>3, <2>3, Rest DEF FetchContext, TypeInv, TypeOK
<1>4. CASE ContextRefused(r)
  <2>1. request' \in [Requests -> RequestState] /\ \A q \in Requests : Sound(request'[q])
    BY <1>4, RefusesType DEF ContextRefused
  <2> QED BY <1>4, <2>1, Rest DEF ContextRefused, TypeInv, TypeOK
<1>5. CASE UnwrapContext(r)
  <2>1. request' \in [Requests -> RequestState] /\ \A q \in Requests : Sound(request'[q])
    BY <1>5, <1>u, GoesToType DEF UnwrapContext, Phase, UserOf, UserPhase
  <2>2. cache' \in [Instances -> [Users -> Version]]
    BY <1>5, <1>u DEF UnwrapContext, HostCache, TypeInv, TypeOK, RequestState
  <2> QED BY <1>5, <2>1, <2>2, Rest DEF UnwrapContext, TypeInv, TypeOK
<1> QED BY <1>1, <1>2, <1>3, <1>4, <1>5 DEF ContextStep

LEMMA CallFailsType ==
    ASSUME TypeInv, NEW r \in Requests, CallFails(r)
    PROVE  TypeInv'
<1>1. request' \in [Requests -> RequestState] /\ \A q \in Requests : Sound(request'[q])
  BY RefusesType DEF CallFails
<1>2. key' \in [Users -> KeyState]
  BY WithKeyType, UserFact DEF CallFails, UserPhase, TypeInv, TypeOK
<1>3. faults' \in 0..MaxFaults BY FaultType DEF CallFails
<1> QED BY <1>1, <1>2, <1>3, Rest DEF CallFails, TypeInv, TypeOK

-----------------------------------------------------------------------------
(* The customer endpoint                                                   *)

LEMMA CustomerFact ==
    ASSUME TypeInv, NEW r \in Requests, request[r].phase = "declaration" \/ Inserting(r)
    PROVE  /\ request[r].phase # "idle" /\ Msg(r) \in Messages /\ Routes[Msg(r)] = "customer"
           /\ request[r] \in RequestState /\ Topic[Msg(r)] \in Resources
           /\ Declared(r) \in Declaration
           /\ Owner[Msg(r)] \in Users \cup {NoUser} /\ Present[Msg(r)] \subseteq Fields
BY ConstantsAssumption DEF TypeInv, TypeOK, Sound, Inserting, Handling, Msg, Declared

LEMMA AppendedType ==
    ASSUME TypeInv, NEW r \in Requests, NEW fields, Appended(r, fields)
    PROVE  vault' \in [Messages \X Fields -> Nat] /\ late' \in Nat
BY DEF TypeInv, TypeOK, Appended

LEMMA CustomerStepType ==
    ASSUME TypeInv, NEW r \in Requests, CustomerStep(r)
    PROVE  TypeInv'
<1>1. CASE VerifyToken(r)
  <2>1. request[r].phase # "idle" /\ request[r] \in RequestState /\ Sound(request[r])
        /\ Msg(r) \in Messages /\ Routes[Msg(r)] = "customer"
    BY <1>1 DEF VerifyToken, Handling, Msg, TypeInv, TypeOK, Sound
  <2>2. CASE Refuses(r)
    BY <1>1, <2>2, RefusesType, Rest DEF VerifyToken, TypeInv, TypeOK
  <2>3. CASE GoesTo(r, "declaration")
    <3> DEFINE s == [request[r] EXCEPT !.phase = "declaration"]
    <3>1. s \in RequestState /\ Sound(s)
      BY <2>1 DEF RequestState, Phase, Sound, UserPhase, Msg
    <3>2. request' \in [Requests -> RequestState] /\ \A q \in Requests : Sound(request'[q])
      BY <2>3, <3>1, BecomesType DEF GoesTo
    <3> QED BY <1>1, <3>2, Rest DEF VerifyToken, TypeInv, TypeOK
  <2> QED BY <1>1, <2>2, <2>3 DEF VerifyToken
<1>2. CASE RejectCaller(r)
  <2>1. request' \in [Requests -> RequestState] /\ \A q \in Requests : Sound(request'[q])
    BY <1>2, RefusesType DEF RejectCaller
  <2> QED BY <1>2, <2>1, Rest DEF RejectCaller, TypeInv, TypeOK
<1>3. CASE IgnoreMessage(r)
  <2>1. request' \in [Requests -> RequestState] /\ \A q \in Requests : Sound(request'[q])
    BY <1>3, AcceptsType DEF IgnoreMessage
  <2> QED BY <1>3, <2>1, Rest DEF IgnoreMessage, TypeInv, TypeOK
<1>4. CASE AcceptMessage(r)
  <2> DEFINE s == [request[r] EXCEPT !.phase = "keys", !.fields = Wanted(r)]
  <2>1. /\ Msg(r) \in Messages /\ request[r] \in RequestState
        /\ Wanted(r) \subseteq Fields /\ Owner[Msg(r)] \in Users
    BY <1>4, CustomerFact DEF AcceptMessage, Wanted
  <2>2. s \in RequestState /\ Sound(s)
    BY <2>1 DEF RequestState, Phase, Sound, UserPhase, Msg
  <2>3. request' \in [Requests -> RequestState] /\ \A q \in Requests : Sound(request'[q])
    BY <1>4, <2>2, BecomesType DEF AcceptMessage
  <2> QED BY <1>4, <2>3, Rest DEF AcceptMessage, TypeInv, TypeOK
<1>5. CASE InsertRows(r)
  <2>1. request' \in [Requests -> RequestState] /\ \A q \in Requests : Sound(request'[q])
    BY <1>5, AcceptsType, CustomerFact DEF InsertRows
  <2>2. vault' \in [Messages \X Fields -> Nat] /\ late' \in Nat
    BY <1>5, AppendedType DEF InsertRows
  <2> QED BY <1>5, <2>1, <2>2, Rest DEF InsertRows, TypeInv, TypeOK
<1> QED BY <1>1, <1>2, <1>3, <1>4, <1>5 DEF CustomerStep

LEMMA CustomerFailsType ==
    ASSUME TypeInv, NEW r \in Requests, CustomerFails(r)
    PROVE  TypeInv'
<1>1. CASE RateLimited(r)
  <2>1. faults' \in 0..MaxFaults BY <1>1, FaultType DEF RateLimited
  <2>2. CASE Refuses(r)
    BY <1>1, <2>1, <2>2, RefusesType, Rest DEF RateLimited, TypeInv, TypeOK
  <2>3. CASE /\ request[r].attempt # MaxAttempts
             /\ Becomes(r, [request[r] EXCEPT !.attempt = request[r].attempt + 1])
    <3> DEFINE s == [request[r] EXCEPT !.attempt = request[r].attempt + 1]
    <3>1. request[r] \in RequestState /\ Sound(request[r]) BY DEF TypeInv, TypeOK
    <3>2. request[r].attempt + 1 \in 1..MaxAttempts
      BY <2>3, <3>1, Numbers DEF RequestState
    <3>3. s \in RequestState /\ Sound(s)
      BY <3>1, <3>2 DEF RequestState, Sound
    <3>4. request' \in [Requests -> RequestState] /\ \A q \in Requests : Sound(request'[q])
      BY <2>3, <3>3, BecomesType
    <3> QED BY <1>1, <2>1, <3>4, Rest DEF RateLimited, TypeInv, TypeOK
  <2> QED BY <1>1, <2>2, <2>3 DEF RateLimited
<1>2. ASSUME NEW landed \in SUBSET Fields, InsertFails(r, landed)
      PROVE  TypeInv'
  <2>1. request' \in [Requests -> RequestState] /\ \A q \in Requests : Sound(request'[q])
    BY <1>2, RefusesType DEF InsertFails
  <2>2. vault' \in [Messages \X Fields -> Nat] /\ late' \in Nat
    BY <1>2, AppendedType DEF InsertFails
  <2>3. faults' \in 0..MaxFaults BY <1>2, FaultType DEF InsertFails
  <2> QED BY <1>2, <2>1, <2>2, <2>3, Rest DEF InsertFails, TypeInv, TypeOK
<1> QED BY <1>1, <1>2 DEF CustomerFails

-----------------------------------------------------------------------------
(* The endpoints that append to raw_users                                  *)

LEMMA WarehouseFact ==
    ASSUME TypeInv, NEW r \in Requests, Handling(r, "raw") \/ Handling(r, "sequential")
    PROVE  request[r].phase # "idle" /\ request[r].msg \in Messages /\ request[r] \in RequestState
BY DEF TypeInv, TypeOK, Sound, Handling

LEMMA WarehouseStepType ==
    ASSUME TypeInv, NEW r \in Requests, WarehouseStep(r) \/ WarehouseFails(r)
    PROVE  TypeInv'
<1>1. CASE Decode(r)
  <2>1. /\ request[r].phase # "idle" /\ request[r].msg \in Messages
        /\ request[r].msg \notin Malformed
    BY <1>1, WarehouseFact DEF Decode
  <2>2. CASE Handling(r, "raw") /\ GoesTo(r, "store")
    <3>1. request' \in [Requests -> RequestState] /\ \A q \in Requests : Sound(request'[q])
      BY <2>1, <2>2, GoesToType DEF Handling, Phase, UserPhase
    <3> QED BY <1>1, <3>1, Rest DEF Decode, TypeInv, TypeOK
  <2>3. CASE Handling(r, "sequential") /\ GoesTo(r, "context")
    <3>1. Owner[request[r].msg] \in Users
      BY <2>1, <2>3, ConstantsAssumption DEF Handling
    <3>2. request' \in [Requests -> RequestState] /\ \A q \in Requests : Sound(request'[q])
      BY <2>1, <2>3, <3>1, GoesToType DEF Phase
    <3> QED BY <1>1, <3>2, Rest DEF Decode, TypeInv, TypeOK
  <2> QED BY <1>1, <2>2, <2>3 DEF Decode
<1>2. CASE DecodeFails(r)
  <2>1. request' \in [Requests -> RequestState] /\ \A q \in Requests : Sound(request'[q])
    BY <1>2, RefusesType, AcceptsType DEF DecodeFails
  <2> QED BY <1>2, <2>1, Rest DEF DecodeFails, TypeInv, TypeOK
<1>3. CASE LoadRecord(r)
  <2>1. request' \in [Requests -> RequestState] /\ \A q \in Requests : Sound(request'[q])
    BY <1>3, AcceptsType DEF LoadRecord, Loading
  <2>2. raw' \in [Messages -> Nat]
    BY <1>3, WarehouseFact DEF LoadRecord, Loading, Loaded, TypeInv, TypeOK
  <2> QED BY <1>3, <2>1, <2>2, Rest DEF LoadRecord, TypeInv, TypeOK
<1>4. CASE LoadFails(r)
  <2>1. request' \in [Requests -> RequestState] /\ \A q \in Requests : Sound(request'[q])
    BY <1>4, RefusesType DEF LoadFails
  <2>2. raw' \in [Messages -> Nat]
    BY <1>4, WarehouseFact DEF LoadFails, Loading, Loaded, TypeInv, TypeOK
  <2>3. faults' \in 0..MaxFaults BY <1>4, FaultType DEF LoadFails
  <2> QED BY <1>4, <2>1, <2>2, <2>3, Rest DEF LoadFails, TypeInv, TypeOK
<1> QED BY <1>1, <1>2, <1>3, <1>4 DEF WarehouseStep, WarehouseFails

-----------------------------------------------------------------------------
(* The outside world, and the theorem                                      *)

LEMMA OutsideType ==
    ASSUME TypeInv, Outside
    PROVE  TypeInv'
<1>1. ASSUME NEW q \in Resources, NEW d \in Declarations[q], Redeclare(q, d)
      PROVE  TypeInv'
  <2>1. d \in Declaration BY ConstantsAssumption
  <2> QED BY <1>1, <2>1, Numbers DEF Redeclare, TypeInv, TypeOK, RegistrySound
<1>2. ASSUME NEW u \in Users, KeyMade(u) \/ Rotate(u) \/ Shred(u)
      PROVE  TypeInv'
  <2>1. key[u] \in KeyState BY DEF TypeInv, TypeOK
  <2>2. CASE KeyMade(u)
    <3> DEFINE k == [version |-> 1, shredded |-> FALSE]
    <3>1. k \in KeyState BY Numbers DEF KeyState
    <3> QED BY <2>2, <3>1, Rest DEF KeyMade, SetKey, TypeInv, TypeOK
  <2>3. CASE Rotate(u)
    <3> DEFINE k == [key[u] EXCEPT !.version = key[u].version + 1]
    <3>1. k \in KeyState BY <2>1, <2>3, Numbers DEF Rotate, KeyState, Version
    <3> QED BY <2>3, <3>1, Rest DEF Rotate, SetKey, TypeInv, TypeOK
  <2>4. CASE Shred(u)
    <3> DEFINE k == [key[u] EXCEPT !.shredded = TRUE]
    <3>1. k \in KeyState BY <2>1 DEF KeyState
    <3> QED BY <2>4, <3>1, Rest DEF Shred, SetKey, TypeInv, TypeOK
  <2> QED BY <1>2, <2>2, <2>3, <2>4
<1> QED BY <1>1, <1>2 DEF Outside

LEMMA InitType == Init => TypeInv
<1> SUFFICES ASSUME Init PROVE TypeInv OBVIOUS
<1>1. waiting \subseteq Messages BY ConstantsAssumption DEF Init
<1>2. request \in [Requests -> RequestState] /\ \A q \in Requests : Sound(request[q])
  BY IdleType DEF Init
<1>3. key \in [Users -> KeyState] /\ cache \in [Instances -> [Users -> Version]]
  BY Numbers DEF Init, KeyState
<1> QED BY <1>1, <1>2, <1>3, Numbers DEF Init, TypeInv, TypeOK, RegistrySound

LEMMA NextType ==
    ASSUME TypeInv, [Next]_vars
    PROVE  TypeInv'
<1>1. CASE UNCHANGED vars
  BY <1>1 DEF vars, TypeInv, TypeOK, RegistrySound
<1>2. ASSUME NEW r \in Requests, RequestStep(r)
      PROVE  TypeInv'
  BY <1>2, CustomerStepType, ContextStepType, WarehouseStepType, AnswerType DEF RequestStep
<1>3. ASSUME NEW r \in Requests, RequestFails(r)
      PROVE  TypeInv'
  BY <1>3, CustomerFailsType, CallFailsType, WarehouseStepType, AnswerType DEF RequestFails
<1> QED BY <1>1, <1>2, <1>3, DeliverType, InstanceDiesType, OutsideType DEF Next

\* Every request, key, cache and row counter keeps its type, whatever the
\* numbers of messages, requests and instances.
THEOREM TypeCorrect == Spec => []TypeOK
<1>1. Init => TypeInv BY InitType
<1>2. TypeInv /\ [Next]_vars => TypeInv' BY NextType
<1>3. TypeInv => TypeOK BY DEF TypeInv
<1> QED BY <1>1, <1>2, <1>3, PTL DEF Spec

-----------------------------------------------------------------------------
(* Keys only grow                                                          *)

KeysGrow == \A u \in Users : key[u].version <= key'[u].version

LEMMA StepKeysGrow ==
    ASSUME TypeInv, Next
    PROVE  KeysGrow
<1>1. \A u \in Users : key[u].version \in Nat
  BY Numbers DEF TypeInv, TypeOK, KeyState, Version
<1>2. CASE UNCHANGED key BY <1>1, <1>2 DEF KeysGrow
<1>3. ASSUME NEW w \in Users, key' = WithKey(w)
      PROVE  KeysGrow
  BY <1>1, <1>3 DEF KeysGrow, WithKey, TypeInv, TypeOK
<1>4. ASSUME NEW r \in Requests, CreateKey(r) \/ CallFails(r)
      PROVE  KeysGrow
  <2>1. UNCHANGED key \/ (request[r].phase = "keys" /\ key' = WithKey(UserOf(r)))
    BY <1>4 DEF CreateKey, CallFails
  <2> QED BY <1>2, <1>3, <2>1, UserFact DEF UserPhase
<1>5. ASSUME NEW u \in Users, KeyMade(u) \/ Rotate(u) \/ Shred(u)
      PROVE  KeysGrow
  <2> DEFINE same == [key[u] EXCEPT !.shredded = TRUE]
             next == [key[u] EXCEPT !.version = key[u].version + 1]
             first == [version |-> 1, shredded |-> FALSE]
  <2>1. key[u] \in KeyState /\ key \in [Users -> KeyState] BY DEF TypeInv, TypeOK
  <2>2. /\ same.version = key[u].version /\ next.version = key[u].version + 1
        /\ first.version = 1
    BY <2>1 DEF KeyState
  <2>3. PICK k \in {same, next, first} : SetKey(u, k) /\ (k = first => key[u].version = 0)
    BY <1>5 DEF KeyMade, Rotate, Shred
  <2> HIDE DEF same, next, first
  <2>4. key[u].version <= k.version BY <1>1, <2>2, <2>3
  <2> QED BY <1>1, <2>1, <2>3, <2>4 DEF SetKey, KeysGrow
<1>6. ASSUME NEW r \in Requests, NEW m \in Messages, Deliver(r, m)
      PROVE  UNCHANGED key
  BY <1>6 DEF Deliver
<1>7. ASSUME NEW r \in Requests, RequestStep(r)
      PROVE  CreateKey(r) \/ UNCHANGED key
  BY <1>7 DEF RequestStep, CustomerStep, VerifyToken, RejectCaller, IgnoreMessage, AcceptMessage,
     InsertRows, ContextStep, UseCached, FetchContext, ContextRefused, UnwrapContext,
     WarehouseStep, Decode, DecodeFails, LoadRecord, Answer
<1>8. ASSUME NEW r \in Requests, RequestFails(r)
      PROVE  CallFails(r) \/ UNCHANGED key
  BY <1>8 DEF RequestFails, CustomerFails, RateLimited, InsertFails, WarehouseFails, LoadFails, AnswerLost
<1>9. Outside => UNCHANGED key \/ \E u \in Users : KeyMade(u) \/ Rotate(u) \/ Shred(u)
  BY DEF Outside, Redeclare
<1> QED
  BY <1>2, <1>4, <1>5, <1>6, <1>7, <1>8, <1>9 DEF Next, InstanceDies

-----------------------------------------------------------------------------
(* Contexts and rows are backed by keys                                    *)

\* A request that has a context has one that Key Vault has issued, and a
\* request that is about to encrypt has a context.
Backed(s, keys) ==
    /\ s.version # 0 => /\ s.phase \in {"unwrap", "store"}
                        /\ Owner[s.msg] \in Users
                        /\ s.version <= keys[Owner[s.msg]].version
    /\ s.phase = "unwrap" => s.version # 0
    /\ (s.phase = "store" /\ Routes[s.msg] # "raw") => s.version # 0

CacheBacked == \A i \in Instances, u \in Users : cache[i][u] <= key[u].version

RawBacked ==
    \A m \in Messages : (raw[m] > 0 /\ Routes[m] = "sequential") => key[Owner[m]].version # 0

VaultBacked == \A v \in Messages \X Fields : vault[v] > 0 => key[Owner[v[1]]].version # 0

\* The owner of a stored value is a user: there is no key of NoUser.
OwnersKnown ==
    /\ \A m \in Messages : (raw[m] > 0 /\ Routes[m] = "sequential") => Owner[m] \in Users
    /\ \A v \in Messages \X Fields : vault[v] > 0 => Owner[v[1]] \in Users

KeyInv ==
    /\ \A r \in Requests : Backed(request[r], key)
    /\ CacheBacked /\ RawBacked /\ VaultBacked /\ OwnersKnown

LEMMA KeyInvImplies == KeyInv => KeyBeforeRow
BY DEF KeyInv, Backed, CacheBacked, RawBacked, VaultBacked, KeyBeforeRow, UserOf

LEMMA BackedGrows ==
    ASSUME TypeInv, TypeInv', KeysGrow, NEW s \in RequestState, Backed(s, key)
    PROVE  Backed(s, key')
<1>1. \A u \in Users : key[u].version \in Nat /\ key'[u].version \in Nat
  BY Numbers DEF TypeInv, TypeOK, KeyState, Version
<1>2. s.version \in Nat BY Numbers DEF RequestState, Version
<1> QED BY <1>1, <1>2 DEF Backed, KeysGrow

LEMMA IdleBacked == Backed(IdleRequest, key)
BY DEF Backed, IdleRequest

LEMMA FreshBacked ==
    ASSUME NEW p \in {"received", "answer"}, NEW m \in Messages
    PROVE  Backed([IdleRequest EXCEPT !.phase = p, !.msg = m], key)
<1> DEFINE s == [IdleRequest EXCEPT !.phase = p, !.msg = m]
<1>1. s.phase = p /\ s.version = 0 BY DEF IdleRequest
<1> QED BY <1>1 DEF Backed

\* A step keeps KeyInv if the requests it changes are backed, and so is what
\* it caches and stores.
LEMMA KeepsBacked ==
    ASSUME TypeInv, TypeInv', KeyInv, KeysGrow,
           \A r \in Requests : request'[r] = request[r] \/ Backed(request'[r], key),
           \A i \in Instances, u \in Users :
              cache'[i][u] = cache[i][u] \/ cache'[i][u] <= key[u].version,
           \A m \in Messages :
              \/ raw'[m] = raw[m]
              \/ Routes[m] = "sequential" => Owner[m] \in Users /\ key[Owner[m]].version # 0,
           \A v \in Messages \X Fields :
              vault'[v] = vault[v] \/ (Owner[v[1]] \in Users /\ key[Owner[v[1]]].version # 0)
    PROVE  KeyInv'
<1>k. \A u \in Users : key[u].version \in Nat /\ key'[u].version \in Nat
  BY Numbers DEF TypeInv, TypeOK, KeyState, Version
<1>1. ASSUME NEW r \in Requests PROVE Backed(request'[r], key')
  <2>1. request'[r] \in RequestState /\ Backed(request'[r], key)
    BY DEF TypeInv, TypeOK, KeyInv
  <2> QED BY <2>1, BackedGrows
<1>2. CacheBacked'
  <2> SUFFICES ASSUME NEW i \in Instances, NEW u \in Users
               PROVE  cache'[i][u] <= key'[u].version
    BY DEF CacheBacked
  <2>1. cache'[i][u] \in Nat
    BY Numbers DEF TypeInv, TypeOK, Version
  <2>2. cache'[i][u] <= key[u].version BY DEF KeyInv, CacheBacked
  <2> QED BY <1>k, <2>1, <2>2 DEF KeysGrow
<1>3. \A u \in Users : key[u].version # 0 => key'[u].version # 0
  BY <1>k DEF KeysGrow
<1>4. RawBacked' /\ OwnersKnown'
  BY <1>3 DEF KeyInv, RawBacked, OwnersKnown
<1>5. VaultBacked'
  BY <1>3 DEF KeyInv, VaultBacked, OwnersKnown
<1> QED BY <1>1, <1>2, <1>4, <1>5 DEF KeyInv

LEMMA ContextBacked ==
    ASSUME TypeInv, TypeInv', KeyInv, KeysGrow, NEW r \in Requests, ContextStep(r) \/ CallFails(r)
    PROVE  KeyInv'
<1>c. TypeOK BY DEF TypeInv
<1>b. Backed(request[r], key) BY DEF KeyInv
<1>1. CASE CreateKey(r)
  <2> DEFINE s == [request[r] EXCEPT !.phase = "context"]
  <2>1. Backed(s, key) BY <1>1, <1>b, <1>c DEF CreateKey, Backed, TypeOK, RequestState
  <2> QED BY <1>1, <1>c, <2>1, KeepsBacked DEF CreateKey, GoesTo, Becomes, TypeOK
<1>2. CASE UseCached(r)
  <2> DEFINE s == [request[r] EXCEPT !.phase = "store", !.version = HostCache(r)[UserOf(r)]]
  <2>1. UserOf(r) \in Users /\ HostOf[r] \in Instances /\ request[r] \in RequestState
    BY <1>2, UserFact DEF UseCached, UserPhase
  <2>2. HostCache(r)[UserOf(r)] # 0 /\ HostCache(r)[UserOf(r)] <= key[UserOf(r)].version
    BY <1>2, <2>1 DEF UseCached, Known, HostCache, KeyInv, CacheBacked
  <2>3. Backed(s, key) BY <2>1, <2>2 DEF Backed, RequestState, UserOf
  <2> QED BY <1>2, <1>c, <2>3, KeepsBacked DEF UseCached, Becomes, TypeOK
<1>3. CASE FetchContext(r)
  <2> DEFINE s == [request[r] EXCEPT !.phase = "unwrap", !.version = key[UserOf(r)].version]
  <2>1. UserOf(r) \in Users /\ request[r] \in RequestState
    BY <1>3, UserFact DEF FetchContext, UserPhase
  <2>2. key[UserOf(r)].version \in Nat
    BY <2>1, Numbers DEF TypeInv, TypeOK, KeyState, Version
  <2>3. Backed(s, key) BY <1>3, <2>1, <2>2 DEF FetchContext, Backed, RequestState, UserOf
  <2> QED BY <1>3, <1>c, <2>3, KeepsBacked DEF FetchContext, Becomes, TypeOK
<1>4. CASE ContextRefused(r) \/ CallFails(r)
  BY <1>4, <1>c, IdleBacked, KeepsBacked DEF ContextRefused, CallFails, Refuses, Becomes, TypeOK
<1>5. CASE UnwrapContext(r)
  <2> DEFINE s == [request[r] EXCEPT !.phase = "store"]
  <2>1. /\ UserOf(r) \in Users /\ HostOf[r] \in Instances /\ request[r] \in RequestState
        /\ request[r].version # 0 /\ request[r].version <= key[UserOf(r)].version
    BY <1>5, <1>b, UserFact DEF UnwrapContext, UserPhase, Backed, UserOf
  <2>2. Backed(s, key) BY <2>1 DEF Backed, RequestState, UserOf
  <2>3. \A i \in Instances, u \in Users :
           cache'[i][u] = cache[i][u] \/ cache'[i][u] <= key[u].version
    BY <1>5, <1>c, <2>1 DEF UnwrapContext, HostCache, TypeOK
  <2> QED BY <1>5, <1>c, <2>2, <2>3, KeepsBacked DEF UnwrapContext, GoesTo, Becomes, TypeOK
<1> QED BY <1>1, <1>2, <1>3, <1>4, <1>5 DEF ContextStep

LEMMA CustomerBacked ==
    ASSUME TypeInv, TypeInv', KeyInv, KeysGrow, NEW r \in Requests,
           CustomerStep(r) \/ CustomerFails(r)
    PROVE  KeyInv'
<1>c. TypeOK BY DEF TypeInv
<1>b. Backed(request[r], key) /\ request[r] \in RequestState BY DEF KeyInv, TypeInv, TypeOK
<1>1. CASE VerifyToken(r)
  <2> DEFINE s == [request[r] EXCEPT !.phase = "declaration"]
  <2>1. Backed(s, key) BY <1>1, <1>b DEF VerifyToken, Backed, RequestState
  <2> QED BY <1>1, <1>c, <2>1, IdleBacked, KeepsBacked
         DEF VerifyToken, GoesTo, Refuses, Becomes, TypeOK
<1>2. CASE RejectCaller(r)
  BY <1>2, <1>c, IdleBacked, KeepsBacked DEF RejectCaller, Refuses, Becomes, TypeOK
<1>3. CASE IgnoreMessage(r)
  BY <1>3, <1>c, FreshBacked, CustomerFact, KeepsBacked
     DEF IgnoreMessage, Accepts, Becomes, TypeOK, Msg
<1>4. CASE AcceptMessage(r)
  <2> DEFINE s == [request[r] EXCEPT !.phase = "keys", !.fields = Wanted(r)]
  <2>1. Backed(s, key) BY <1>4, <1>b DEF AcceptMessage, Backed, RequestState
  <2> QED BY <1>4, <1>c, <2>1, KeepsBacked DEF AcceptMessage, Becomes, TypeOK
<1>5. ASSUME Inserting(r)
      PROVE  Owner[Msg(r)] \in Users /\ key[Owner[Msg(r)]].version # 0
  <2>1. /\ request[r].version # 0 /\ Owner[Msg(r)] \in Users
        /\ request[r].version <= key[Owner[Msg(r)]].version
    BY <1>5, <1>b DEF Inserting, Handling, Backed, Msg
  <2>2. request[r].version \in Nat /\ key[Owner[Msg(r)]].version \in Nat
    BY <1>b, <1>c, <2>1, Numbers DEF TypeOK, RequestState, KeyState, Version
  <2> QED BY <2>1, <2>2
<1>6. ASSUME Inserting(r), NEW fields, Appended(r, fields)
      PROVE  \A v \in Messages \X Fields :
                vault'[v] = vault[v] \/ (Owner[v[1]] \in Users /\ key[Owner[v[1]]].version # 0)
  BY <1>5, <1>6 DEF Appended
<1>7. CASE InsertRows(r)
  <2>1. Inserting(r) /\ Appended(r, request[r].fields) BY <1>7 DEF InsertRows
  <2> QED BY <1>6, <1>7, <1>c, <2>1, CustomerFact, FreshBacked, KeepsBacked
         DEF InsertRows, Accepts, Becomes, TypeOK, Msg
<1>8. CASE RateLimited(r)
  <2> DEFINE s == [request[r] EXCEPT !.attempt = request[r].attempt + 1]
  <2>1. Backed(s, key) BY <1>b DEF Backed, RequestState
  <2> QED BY <1>8, <1>c, <2>1, IdleBacked, KeepsBacked DEF RateLimited, Refuses, Becomes, TypeOK
<1>9. ASSUME NEW landed, InsertFails(r, landed)
      PROVE  KeyInv'
  <2>1. Inserting(r) /\ Appended(r, landed) BY <1>9 DEF InsertFails
  <2> QED BY <1>6, <1>9, <1>c, <2>1, IdleBacked, KeepsBacked
         DEF InsertFails, Refuses, Becomes, TypeOK
<1> QED BY <1>1, <1>2, <1>3, <1>4, <1>7, <1>8, <1>9 DEF CustomerStep, CustomerFails

LEMMA WarehouseBacked ==
    ASSUME TypeInv, TypeInv', KeyInv, KeysGrow, NEW r \in Requests,
           WarehouseStep(r) \/ WarehouseFails(r)
    PROVE  KeyInv'
<1>c. TypeOK BY DEF TypeInv
<1>b. Backed(request[r], key) /\ request[r] \in RequestState BY DEF KeyInv, TypeInv, TypeOK
<1>1. CASE Decode(r)
  <2>1. PICK p \in {"store", "context"} :
           GoesTo(r, p) /\ (p = "store" => Handling(r, "raw"))
    BY <1>1 DEF Decode
  <2> DEFINE s == [request[r] EXCEPT !.phase = p]
  <2>2. Backed(s, key) BY <1>1, <1>b, <2>1 DEF Decode, Backed, RequestState, Handling
  <2> QED BY <1>1, <1>c, <2>1, <2>2, KeepsBacked DEF Decode, GoesTo, Becomes, TypeOK
<1>2. CASE DecodeFails(r)
  BY <1>2, <1>c, FreshBacked, IdleBacked, WarehouseFact, KeepsBacked
     DEF DecodeFails, Accepts, Refuses, Becomes, TypeOK
<1>3. ASSUME Loading(r), raw' \in {raw, Loaded(r)}, NEW m \in Messages
      PROVE  \/ raw'[m] = raw[m]
             \/ Routes[m] = "sequential" => Owner[m] \in Users /\ key[Owner[m]].version # 0
  <2> SUFFICES ASSUME m = request[r].msg, Routes[m] = "sequential"
               PROVE  Owner[m] \in Users /\ key[Owner[m]].version # 0
    BY <1>3, <1>c DEF Loaded, TypeOK
  <2>1. /\ request[r].version # 0 /\ Owner[m] \in Users
        /\ request[r].version <= key[Owner[m]].version
    BY <1>3, <1>b DEF Loading, Backed
  <2>2. request[r].version \in Nat /\ key[Owner[m]].version \in Nat
    BY <1>b, <1>c, <2>1, Numbers DEF TypeOK, RequestState, KeyState, Version
  <2> QED BY <2>1, <2>2
<1>4. CASE LoadRecord(r)
  <2>1. request[r].msg \in Messages BY <1>4, WarehouseFact DEF LoadRecord, Loading
  <2>2. Loading(r) /\ raw' \in {raw, Loaded(r)} BY <1>4 DEF LoadRecord
  <2> QED BY <1>3, <1>4, <1>c, <2>1, <2>2, FreshBacked, KeepsBacked
         DEF LoadRecord, Accepts, Becomes, TypeOK
<1>5. CASE LoadFails(r)
  <2>1. Loading(r) /\ raw' \in {raw, Loaded(r)} BY <1>5 DEF LoadFails
  <2> QED BY <1>3, <1>5, <1>c, <2>1, IdleBacked, KeepsBacked
         DEF LoadFails, Refuses, Becomes, TypeOK
<1> QED BY <1>1, <1>2, <1>4, <1>5 DEF WarehouseStep, WarehouseFails

LEMMA DeliveryBacked ==
    ASSUME TypeInv, TypeInv', KeyInv, KeysGrow,
           \/ \E r \in Requests, m \in Messages : Deliver(r, m)
           \/ \E r \in Requests : Answer(r) \/ AnswerLost(r)
           \/ \E i \in Instances : InstanceDies(i)
           \/ Outside
    PROVE  KeyInv'
<1>c. TypeOK BY DEF TypeInv
<1>1. ASSUME NEW r \in Requests, NEW m \in Messages, Deliver(r, m)
      PROVE  KeyInv'
  BY <1>1, <1>c, FreshBacked, KeepsBacked DEF Deliver, Becomes, TypeOK
<1>2. ASSUME NEW r \in Requests, Answer(r) \/ AnswerLost(r)
      PROVE  KeyInv'
  BY <1>2, <1>c, IdleBacked, KeepsBacked DEF Answer, AnswerLost, Becomes, TypeOK
<1>3. ASSUME NEW i \in Instances, InstanceDies(i)
      PROVE  KeyInv'
  <2>1. \A r \in Requests : request'[r] = request[r] \/ request'[r] = IdleRequest
    BY <1>3 DEF InstanceDies
  <2>2. \A j \in Instances, u \in Users : cache'[j][u] = cache[j][u] \/ cache'[j][u] = 0
    BY <1>3, <1>c DEF InstanceDies, TypeOK
  <2>3. \A u \in Users : 0 <= key[u].version
    BY <1>c, Numbers DEF TypeOK, KeyState, Version
  <2> QED BY <1>3, <2>1, <2>2, <2>3, IdleBacked, KeepsBacked DEF InstanceDies
<1>4. Outside => UNCHANGED <<request, cache, raw, vault>>
  BY DEF Outside, Redeclare, KeyMade, Rotate, Shred, SetKey
<1>5. CASE Outside BY <1>4, <1>5, KeepsBacked
<1> QED BY <1>1, <1>2, <1>3, <1>5

LEMMA NextBacked ==
    ASSUME TypeInv, TypeInv', KeyInv, [Next]_vars
    PROVE  KeyInv'
<1>1. CASE UNCHANGED vars
  BY <1>1 DEF vars, KeyInv, CacheBacked, RawBacked, VaultBacked, OwnersKnown
<1>2. CASE Next
  BY <1>2, StepKeysGrow, ContextBacked, CustomerBacked, WarehouseBacked, DeliveryBacked
     DEF Next, RequestStep, RequestFails
<1> QED BY <1>1, <1>2

LEMMA InitBacked == Init => KeyInv
BY IdleBacked DEF Init, KeyInv, CacheBacked, RawBacked, VaultBacked, OwnersKnown

\* Whatever is cached, in use or stored was encrypted with a key that Key
\* Vault had issued for the user of the message: the guarantee of ingestor.py.
THEOREM KeysFirst == Spec => []KeyBeforeRow
<1>1. Init => TypeInv /\ KeyInv BY InitType, InitBacked
<1>2. TypeInv /\ KeyInv /\ [Next]_vars => (TypeInv /\ KeyInv)' BY NextType, NextBacked
<1>3. KeyInv => KeyBeforeRow BY KeyInvImplies
<1> QED BY <1>1, <1>2, <1>3, PTL DEF Spec

-----------------------------------------------------------------------------
(* Where contexts come from                                                *)

\* A request has no context, or the one it had, of the user it had it of.
SameContext(s, t) == t.version = 0 \/ (t.msg = s.msg /\ t.version = s.version)

LEMMA OneChanges ==
    ASSUME TypeInv, NEW r \in Requests, NEW s, Becomes(r, s), SameContext(request[r], s)
    PROVE  \A q \in Requests : SameContext(request[q], request'[q])
BY DEF TypeInv, TypeOK, Becomes, SameContext

LEMMA RefusesSame ==
    ASSUME TypeInv, NEW r \in Requests, Refuses(r)
    PROVE  \A q \in Requests : SameContext(request[q], request'[q])
BY OneChanges DEF Refuses, SameContext, IdleRequest

LEMMA AcceptsSame ==
    ASSUME TypeInv, NEW r \in Requests, Accepts(r)
    PROVE  \A q \in Requests : SameContext(request[q], request'[q])
<1> DEFINE s == [IdleRequest EXCEPT !.phase = "answer", !.msg = request[r].msg]
<1>1. s.version = 0 BY DEF IdleRequest
<1>2. Becomes(r, s) BY DEF Accepts
<1> HIDE DEF s
<1> QED BY <1>1, <1>2, OneChanges DEF SameContext

LEMMA GoesToSame ==
    ASSUME TypeInv, NEW r \in Requests, NEW p, GoesTo(r, p)
    PROVE  \A q \in Requests : SameContext(request[q], request'[q])
<1> DEFINE s == [request[r] EXCEPT !.phase = p]
<1>1. s.version = request[r].version /\ s.msg = request[r].msg
  BY DEF TypeInv, TypeOK, RequestState
<1>2. Becomes(r, s) BY DEF GoesTo
<1> HIDE DEF s
<1> QED BY <1>1, <1>2, OneChanges DEF SameContext

LEMMA CustomerSame ==
    ASSUME TypeInv, NEW r \in Requests, CustomerStep(r) \/ CustomerFails(r)
    PROVE  UNCHANGED cache /\ \A q \in Requests : SameContext(request[q], request'[q])
<1>t. request[r] \in RequestState BY DEF TypeInv, TypeOK
<1>1. CASE VerifyToken(r) \/ RejectCaller(r)
  BY <1>1, RefusesSame, GoesToSame DEF VerifyToken, RejectCaller
<1>2. CASE IgnoreMessage(r) \/ InsertRows(r)
  BY <1>2, AcceptsSame DEF IgnoreMessage, InsertRows
<1>3. CASE AcceptMessage(r)
  <2> DEFINE s == [request[r] EXCEPT !.phase = "keys", !.fields = Wanted(r)]
  <2>1. s.version = request[r].version /\ s.msg = request[r].msg BY <1>t DEF RequestState
  <2>2. Becomes(r, s) BY <1>3 DEF AcceptMessage
  <2> HIDE DEF s
  <2> QED BY <1>3, <2>1, <2>2, OneChanges DEF AcceptMessage, SameContext
<1>4. CASE RateLimited(r)
  <2> DEFINE s == [request[r] EXCEPT !.attempt = request[r].attempt + 1]
  <2>1. s.version = request[r].version /\ s.msg = request[r].msg BY <1>t DEF RequestState
  <2>2. Refuses(r) \/ Becomes(r, s) BY <1>4 DEF RateLimited
  <2> HIDE DEF s
  <2> QED BY <1>4, <2>1, <2>2, OneChanges, RefusesSame DEF RateLimited, SameContext
<1>5. ASSUME NEW landed, InsertFails(r, landed)
      PROVE  UNCHANGED cache /\ \A q \in Requests : SameContext(request[q], request'[q])
  BY <1>5, RefusesSame DEF InsertFails
<1> QED BY <1>1, <1>2, <1>3, <1>4, <1>5 DEF CustomerStep, CustomerFails

LEMMA WarehouseSame ==
    ASSUME TypeInv, NEW r \in Requests, WarehouseStep(r) \/ WarehouseFails(r)
    PROVE  UNCHANGED cache /\ \A q \in Requests : SameContext(request[q], request'[q])
BY RefusesSame, AcceptsSame, GoesToSame
   DEF WarehouseStep, WarehouseFails, Decode, DecodeFails, LoadRecord, LoadFails

LEMMA DeliverySame ==
    ASSUME TypeInv, NEW r \in Requests,
           (\E m \in Messages : Deliver(r, m)) \/ Answer(r) \/ AnswerLost(r)
    PROVE  UNCHANGED cache /\ \A q \in Requests : SameContext(request[q], request'[q])
<1>1. ASSUME NEW m \in Messages, Deliver(r, m)
      PROVE  UNCHANGED cache /\ \A q \in Requests : SameContext(request[q], request'[q])
  <2> DEFINE s == [IdleRequest EXCEPT !.phase = "received", !.msg = m]
  <2>1. s.version = 0 BY DEF IdleRequest
  <2>2. Becomes(r, s) BY <1>1 DEF Deliver
  <2> HIDE DEF s
  <2> QED BY <1>1, <2>1, <2>2, OneChanges DEF Deliver, SameContext
<1>2. CASE Answer(r) \/ AnswerLost(r)
  BY <1>2, RefusesSame DEF Answer, AnswerLost, Refuses
<1> QED BY <1>1, <1>2

\* A step that keeps the cache and every request's context gives no instance
\* a context it did not have.
LEMMA NoNewContext ==
    ASSUME NEW i \in Instances, NEW u \in Users, ~HasContext(i, u),
           cache'[i][u] = cache[i][u] \/ cache'[i][u] = 0,
           \A q \in Requests : SameContext(request[q], request'[q])
    PROVE  ~HasContext(i, u)'
BY DEF HasContext, SameContext, UserOf

LEMMA ContextStepSticks ==
    ASSUME TypeInv, KeyInv, NEW r \in Requests, ContextStep(r) \/ CallFails(r),
           NEW i \in Instances, NEW u \in Users, key[u].shredded, ~HasContext(i, u)
    PROVE  ~HasContext(i, u)'
<1>t. request[r] \in RequestState /\ TypeOK BY DEF TypeInv, TypeOK
<1>1. CASE CreateKey(r) \/ ContextRefused(r) \/ CallFails(r)
  BY <1>1, RefusesSame, GoesToSame, NoNewContext DEF CreateKey, ContextRefused, CallFails
<1>2. CASE UseCached(r)
  <2> DEFINE s == [request[r] EXCEPT !.phase = "store", !.version = HostCache(r)[UserOf(r)]]
  <2>1. HostOf[r] # i \/ UserOf(r) # u
    BY <1>2 DEF UseCached, Known, HostCache, HasContext
  <2>2. s.msg = request[r].msg BY <1>t DEF RequestState
  <2>3. Becomes(r, s) BY <1>2 DEF UseCached
  <2> HIDE DEF s
  <2>4. request' = [request EXCEPT ![r] = s] BY <2>3 DEF Becomes
  <2>5. UNCHANGED cache BY <1>2 DEF UseCached
  <2> QED BY <1>t, <2>1, <2>2, <2>4, <2>5 DEF HasContext, UserOf, TypeOK
<1>3. CASE FetchContext(r)
  <2> DEFINE s == [request[r] EXCEPT !.phase = "unwrap", !.version = key[UserOf(r)].version]
  <2>1. UserOf(r) # u BY <1>3 DEF FetchContext
  <2>2. s.msg = request[r].msg BY <1>t DEF RequestState
  <2>3. Becomes(r, s) BY <1>3 DEF FetchContext
  <2> HIDE DEF s
  <2>4. request' = [request EXCEPT ![r] = s] BY <2>3 DEF Becomes
  <2>5. UNCHANGED cache BY <1>3 DEF FetchContext
  <2> QED BY <1>t, <2>1, <2>2, <2>4, <2>5 DEF HasContext, UserOf, TypeOK
<1>4. CASE UnwrapContext(r)
  <2>1. request[r].version # 0 BY <1>4 DEF UnwrapContext, KeyInv, Backed
  <2>2. HostOf[r] # i \/ UserOf(r) # u BY <2>1 DEF HasContext
  <2>3. HostOf[r] \in Instances /\ UserOf(r) \in Users
    BY <1>4, UserFact DEF UnwrapContext, UserPhase
  <2>4. cache'[i][u] = cache[i][u]
    BY <1>4, <1>t, <2>2, <2>3 DEF UnwrapContext, HostCache, TypeOK
  <2>5. GoesTo(r, "store") BY <1>4 DEF UnwrapContext
  <2> QED BY <2>4, <2>5, GoesToSame, NoNewContext
<1> QED BY <1>1, <1>2, <1>3, <1>4 DEF ContextStep

LEMMA NextSticks ==
    ASSUME TypeInv, KeyInv, [Next]_vars, NEW i \in Instances, NEW u \in Users,
           key[u].shredded, ~HasContext(i, u)
    PROVE  ~HasContext(i, u)'
<1>1. CASE UNCHANGED vars BY <1>1 DEF vars, HasContext, UserOf
<1>2. ASSUME NEW r \in Requests, RequestStep(r) \/ RequestFails(r)
      PROVE  ~HasContext(i, u)'
  <2>1. CASE ContextStep(r) \/ CallFails(r) BY <2>1, ContextStepSticks
  <2>2. CASE CustomerStep(r) \/ CustomerFails(r) BY <2>2, CustomerSame, NoNewContext
  <2>3. CASE WarehouseStep(r) \/ WarehouseFails(r) BY <2>3, WarehouseSame, NoNewContext
  <2>4. CASE Answer(r) \/ AnswerLost(r) BY <2>4, DeliverySame, NoNewContext
  <2> QED BY <1>2, <2>1, <2>2, <2>3, <2>4 DEF RequestStep, RequestFails
<1>3. ASSUME NEW r \in Requests, NEW m \in Messages, Deliver(r, m)
      PROVE  ~HasContext(i, u)'
  BY <1>3, DeliverySame, NoNewContext
<1>4. ASSUME NEW j \in Instances, InstanceDies(j)
      PROVE  ~HasContext(i, u)'
  <2>1. cache'[i][u] = cache[i][u] \/ cache'[i][u] = 0
    BY <1>4 DEF InstanceDies, TypeInv, TypeOK
  <2>2. \A q \in Requests : SameContext(request[q], request'[q])
    BY <1>4 DEF InstanceDies, SameContext, IdleRequest
  <2> QED BY <2>1, <2>2, NoNewContext
<1>5. CASE Outside
  <2>1. UNCHANGED <<cache, request>>
    BY <1>5 DEF Outside, Redeclare, KeyMade, Rotate, Shred, SetKey
  <2> QED BY <2>1 DEF HasContext, UserOf
<1> QED BY <1>1, <1>2, <1>3, <1>4, <1>5 DEF Next

\* Once a user is shredded, an instance that holds no context of the user, in
\* its cache or in a request under way, never encrypts for the user again.
THEOREM ShreddedStays == Spec => ShreddingSticks
<1>1. Init => TypeInv /\ KeyInv BY InitType, InitBacked
<1>2. TypeInv /\ KeyInv /\ [Next]_vars => (TypeInv /\ KeyInv)' BY NextType, NextBacked
<1>3. TypeInv /\ KeyInv /\ [Next]_vars =>
         [\A i \in Instances, u \in Users :
             key[u].shredded /\ ~HasContext(i, u) => ~HasContext(i, u)']_vars
  BY NextSticks
<1> QED BY <1>1, <1>2, <1>3, PTL DEF Spec, ShreddingSticks
=============================================================================
