-------------------------- MODULE WarehouseIngest --------------------------
(***************************************************************************)
(* The two endpoints that append to raw_users: /ingest of main.py, for     *)
(* records that the landing zone has encrypted, and the sequential         *)
(* ingestor, which encrypts one value itself.  load_records is a BigQuery  *)
(* load job or a Snowflake insert; both append, and neither has an id by   *)
(* which a second load of one message could be told from the first.        *)
(***************************************************************************)
EXTENDS VaultContexts

\* Mutant: the record is written before there is a key.
DecodeAndStore(r) ==
    /\ request[r].phase = "received"
    /\ request[r].msg \notin Malformed
    /\ Handling(r, "raw") \/ Handling(r, "sequential")
    /\ GoesTo(r, "store")
    /\ UNCHANGED <<waiting, registry, key, cache, vault, raw, late, changes, faults>>

\* The message is decoded: a raw record is ready to be loaded, a sequential
\* one needs a key first.
Decode(r) ==
    /\ request[r].phase = "received"
    /\ request[r].msg \notin Malformed
    /\ \/ Handling(r, "raw") /\ GoesTo(r, "store")
       \/ Handling(r, "sequential") /\ GoesTo(r, "context")
    /\ UNCHANGED <<waiting, registry, key, cache, vault, raw, late, changes, faults>>

\* Mutant: /ingest of main.py answers 400 as well.
DecodeRefused(r) ==
    /\ request[r].phase = "received"
    /\ request[r].msg \in Malformed
    /\ Handling(r, "raw") \/ Handling(r, "sequential")
    /\ Refuses(r)
    /\ UNCHANGED <<waiting, registry, key, cache, vault, raw, late, changes, faults>>

\* What cannot be decoded is acknowledged by /ingest of main.py and answered
\* 400, for Pub/Sub to deliver it again, by the sequential ingestor.
DecodeFails(r) ==
    /\ request[r].phase = "received"
    /\ request[r].msg \in Malformed
    /\ \/ Handling(r, "raw") /\ Accepts(r)
       \/ Handling(r, "sequential") /\ Refuses(r)
    /\ UNCHANGED <<waiting, registry, key, cache, vault, raw, late, changes, faults>>

Loading(r) == (Handling(r, "raw") \/ Handling(r, "sequential")) /\ request[r].phase = "store"

Loaded(r) == [raw EXCEPT ![request[r].msg] = raw[request[r].msg] + 1]

\* load_records returns when the job is done.
LoadRecord(r) ==
    /\ Loading(r)
    /\ raw' = Loaded(r)
    /\ Accepts(r)
    /\ UNCHANGED <<waiting, registry, key, cache, vault, late, changes, faults>>

\* load_records raises, although the row may be in: 500.
LoadFails(r) ==
    /\ Loading(r)
    /\ Fault("load")
    /\ raw' \in {raw, Loaded(r)}
    /\ Refuses(r)
    /\ UNCHANGED <<waiting, registry, key, cache, vault, late, changes>>

WarehouseStep(r) ==
    \/ Decode(r)
    \/ DecodeFails(r)
    \/ LoadRecord(r)

WarehouseFails(r) == LoadFails(r)
=============================================================================
