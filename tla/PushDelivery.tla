---------------------------- MODULE PushDelivery ----------------------------
(***************************************************************************)
(* The state of the three push endpoints and the delivery of messages to   *)
(* them.  "customer" is pubsub_ingest_main.py, a customer's own topic;     *)
(* "raw" is /ingest of main.py, the PII topic; "sequential" is /ingest of  *)
(* services/ingestor.py.  Pub/Sub pushes a message until it is answered    *)
(* with a 2xx, to one request at a time unless it delivers twice.          *)
(***************************************************************************)
EXTENDS Naturals, FiniteSets

CONSTANTS
    Messages,
    Routes,       \* [Messages -> RouteNames]: the subscription of a message
    Backlogs,     \* what may be on the subscriptions when a behaviour starts
    Malformed,    \* messages whose body cannot be decoded
    Owner,        \* [Messages -> Users \cup {NoUser}]: user id in the body
    Present,      \* [Messages -> SUBSET Fields]: declarable paths in the body
    Topic,        \* [Messages -> Resources]: the resource_id of the push URL
    Sender,       \* [Messages -> Callers \cup {NoCaller}]: whose token it has
    Users, Fields, Resources, Callers,
    NoUser,       \* no user id under userIdFieldPath
    NoCaller,     \* the token does not verify
    Declarations, \* [Resources -> SUBSET Declaration]: what a registry may say
    Requests,     \* concurrent requests
    Instances,    \* Cloud Run instances, each with one VaultClient
    HostOf,       \* [Requests -> Instances]
    Serves,       \* [Requests -> SUBSET RouteNames]
    MaxAttempts,  \* DEFAULT_MAX_RETRIES of insert_with_retry
    MaxVersion,   \* bound on the key versions of a user
    MaxChanges,   \* bound on the changes to the registry
    MaxFaults,    \* bound on the number of failures in a behaviour
    Possible,     \* the kinds of failures and outside changes considered
    NoMessage     \* "no message is being handled"

RouteNames == {"customer", "raw", "sequential"}

Kinds == {"call", "insert", "rate", "load", "duplicate", "crash",
          "declare", "rotate", "shred"}

\* declared: the resource is a pubsub declaration; caller: its
\* pubsubAllowedCallerServiceAccount; keyed: it has a userIdFieldPath;
\* encrypt: its columns with handling ENCRYPT.
Declaration == [declared: BOOLEAN, caller: Callers \cup {NoCaller},
                keyed: BOOLEAN, encrypt: SUBSET Fields]

ASSUME ConstantsAssumption ==
    /\ IsFiniteSet(Messages) /\ IsFiniteSet(Requests)
    /\ Routes \in [Messages -> RouteNames]
    /\ Backlogs \subseteq SUBSET Messages
    /\ Malformed \subseteq Messages
    /\ Owner \in [Messages -> Users \cup {NoUser}]
    /\ NoUser \notin Users /\ NoCaller \notin Callers
    /\ NoMessage \notin Messages
    /\ \A m \in Messages : Routes[m] = "sequential" => m \in Malformed \/ Owner[m] \in Users
    /\ Present \in [Messages -> SUBSET Fields]
    /\ Topic \in [Messages -> Resources]
    /\ Sender \in [Messages -> Callers \cup {NoCaller}]
    /\ Declarations \in [Resources -> SUBSET Declaration]
    /\ \A q \in Resources : Declarations[q] # {}
    /\ HostOf \in [Requests -> Instances]
    /\ Serves \in [Requests -> SUBSET RouteNames]
    /\ MaxAttempts \in Nat \ {0} /\ MaxVersion \in Nat \ {0}
    /\ MaxChanges \in Nat /\ MaxFaults \in Nat
    /\ Possible \subseteq Kinds

VARIABLES
    waiting,   \* unacknowledged messages
    request,   \* [Requests -> RequestState]
    registry,  \* [Resources -> Declaration]: Key Vault's PII registry
    key,       \* [Users -> KeyState]: Key Vault's per-user keys
    cache,     \* [Instances -> [Users -> Version]]: VaultClient._context_cache
    vault,     \* [Messages \X Fields -> Nat]: pii_vault rows made from a message
    raw,       \* [Messages -> Nat]: raw_users rows made from a message
    late,      \* history: inserts under a declaration that no longer held
    changes,   \* changes to the registry so far
    faults     \* failures so far

vars == <<waiting, request, registry, key, cache, vault, raw, late, changes, faults>>

-----------------------------------------------------------------------------
(* Types                                                                   *)

\* 0: no key, or no context in the cache.
Version == 0..MaxVersion

KeyState == [version: Version, shredded: BOOLEAN]

Phase == {"idle", "received", "declaration", "keys", "context", "unwrap",
          "store", "answer"}

RequestState == [phase: Phase,
                 msg: Messages \cup {NoMessage},
                 fields: SUBSET Fields,    \* field_values
                 version: Version,         \* of the encryption context
                 attempt: 1..MaxAttempts]  \* of insert_with_retry

IdleRequest == [phase |-> "idle", msg |-> NoMessage, fields |-> {},
                version |-> 0, attempt |-> 1]

-----------------------------------------------------------------------------
Becomes(r, state) == request' = [request EXCEPT ![r] = state]

GoesTo(r, phase) == Becomes(r, [request[r] EXCEPT !.phase = phase])

\* The request answers with anything but a 2xx: the message stays.
Refuses(r) == Becomes(r, IdleRequest)

\* The request is about to answer 200.
Accepts(r) ==
    Becomes(r, [IdleRequest EXCEPT !.phase = "answer", !.msg = request[r].msg])

Fault(k) ==
    /\ k \in Possible
    /\ faults < MaxFaults
    /\ faults' = faults + 1

Handling(r, route) == request[r].msg # NoMessage /\ Routes[request[r].msg] = route

UserOf(r) == Owner[request[r].msg]

HostCache(r) == cache[HostOf[r]]

Held(m) == \E r \in Requests : request[r].msg = m

Deliver(r, m) ==
    /\ request[r].phase = "idle"
    /\ m \in waiting
    /\ Routes[m] \in Serves[r]
    /\ Becomes(r, [IdleRequest EXCEPT !.phase = "received", !.msg = m])
    /\ IF Held(m) THEN Fault("duplicate") ELSE UNCHANGED faults
    /\ UNCHANGED <<waiting, registry, key, cache, vault, raw, late, changes>>

\* 200: Pub/Sub forgets the message.
Answer(r) ==
    /\ request[r].phase = "answer"
    /\ waiting' = waiting \ {request[r].msg}
    /\ Becomes(r, IdleRequest)
    /\ UNCHANGED <<registry, key, cache, vault, raw, late, changes, faults>>

\* The answer is lost.
AnswerLost(r) ==
    /\ request[r].phase = "answer"
    /\ Fault("duplicate")
    /\ Becomes(r, IdleRequest)
    /\ UNCHANGED <<waiting, registry, key, cache, vault, raw, late, changes>>

\* An instance dies with its requests and its context cache.
InstanceDies(i) ==
    /\ \E r \in Requests : HostOf[r] = i /\ request[r].phase # "idle"
    /\ Fault("crash")
    /\ request' = [r \in Requests |-> IF HostOf[r] = i THEN IdleRequest ELSE request[r]]
    /\ cache' = [cache EXCEPT ![i] = [u \in Users |-> 0]]
    /\ UNCHANGED <<waiting, registry, key, vault, raw, late, changes>>
=============================================================================
