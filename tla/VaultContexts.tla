--------------------------- MODULE VaultContexts ---------------------------
(***************************************************************************)
(* The key operations of services/vault_client.py that the push endpoints  *)
(* use: batch_create_keys for one user, and get_encryption_context with    *)
(* its cache.  The customer endpoint has one client, and so one cache, for *)
(* the life of an instance; the sequential ingestor builds a client for    *)
(* each request, whose cache is always empty.                              *)
(***************************************************************************)
EXTENDS PushDelivery

Caching(r) == Handling(r, "customer")

Known(r) == Caching(r) /\ HostCache(r)[UserOf(r)] # 0

\* batch-generate makes a key for a user who has none, and leaves others alone.
WithKey(u) ==
    IF key[u].version = 0 THEN [key EXCEPT ![u] = [version |-> 1, shredded |-> FALSE]]
                          ELSE key

CreateKey(r) ==
    /\ request[r].phase = "keys"
    /\ key' = WithKey(UserOf(r))
    /\ GoesTo(r, "context")
    /\ UNCHANGED <<waiting, registry, cache, vault, raw, late, changes, faults>>

\* The cached context answers, whatever Key Vault says by now.
UseCached(r) ==
    /\ request[r].phase = "context"
    /\ Known(r)
    /\ Becomes(r, [request[r] EXCEPT !.phase = "store", !.version = HostCache(r)[UserOf(r)]])
    /\ UNCHANGED <<waiting, registry, key, cache, vault, raw, late, changes, faults>>

\* Mutant: the status of the context is not looked at.
FetchUnchecked(r) ==
    /\ request[r].phase = "context"
    /\ ~Known(r)
    /\ key[UserOf(r)].version # 0
    /\ Becomes(r, [request[r] EXCEPT !.phase = "unwrap", !.version = key[UserOf(r)].version])
    /\ UNCHANGED <<waiting, registry, key, cache, vault, raw, late, changes, faults>>

\* The GET of the context, without the lock of the cache.
FetchContext(r) ==
    /\ request[r].phase = "context"
    /\ ~Known(r)
    /\ key[UserOf(r)].version # 0 /\ ~key[UserOf(r)].shredded
    /\ Becomes(r, [request[r] EXCEPT !.phase = "unwrap", !.version = key[UserOf(r)].version])
    /\ UNCHANGED <<waiting, registry, key, cache, vault, raw, late, changes, faults>>

\* No key (404), or "Cannot encrypt for shredded user": 500.
ContextRefused(r) ==
    /\ request[r].phase = "context"
    /\ ~Known(r)
    /\ key[UserOf(r)].version = 0 \/ key[UserOf(r)].shredded
    /\ Refuses(r)
    /\ UNCHANGED <<waiting, registry, key, cache, vault, raw, late, changes, faults>>

\* KMS has unwrapped the key: the context is cached, over whatever another
\* request cached meanwhile.
UnwrapContext(r) ==
    /\ request[r].phase = "unwrap"
    /\ cache' = IF Caching(r)
                THEN [cache EXCEPT ![HostOf[r]] =
                         [HostCache(r) EXCEPT ![UserOf(r)] = request[r].version]]
                ELSE cache
    /\ GoesTo(r, "store")
    /\ UNCHANGED <<waiting, registry, key, vault, raw, late, changes, faults>>

\* A remote call before the write raises.  A registry that cannot be read is
\* taken for a caller without authorization (403), the others are 401 or 500.
CallFails(r) ==
    /\ \/ Handling(r, "customer") /\ request[r].phase = "received"
       \/ request[r].phase \in {"declaration", "keys", "context", "unwrap"}
    /\ Fault("call")
    /\ key' \in IF request[r].phase = "keys" THEN {key, WithKey(UserOf(r))} ELSE {key}
    /\ Refuses(r)
    /\ UNCHANGED <<waiting, registry, cache, vault, raw, late, changes>>

ContextStep(r) ==
    \/ CreateKey(r)
    \/ UseCached(r)
    \/ FetchContext(r)
    \/ ContextRefused(r)
    \/ UnwrapContext(r)
=============================================================================
