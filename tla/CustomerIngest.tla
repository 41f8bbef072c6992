--------------------------- MODULE CustomerIngest ---------------------------
(***************************************************************************)
(* The customer endpoint: the route of pubsub_ingest_main.py with          *)
(* PubsubIngestPipeline of pipelines/pubsub_ingest.py and, at the end,     *)
(* insert_with_retry.  One action for each remote call, together with the  *)
(* decisions taken on its result.                                          *)
(***************************************************************************)
EXTENDS VaultContexts

Msg(r) == request[r].msg

Declared(r) == registry[Topic[Msg(r)]]

-----------------------------------------------------------------------------
(* Authorization                                                           *)

\* verify_oauth2_token: 401 unless the token is good.
VerifyToken(r) ==
    /\ Handling(r, "customer") /\ request[r].phase = "received"
    /\ IF Sender[Msg(r)] = NoCaller THEN Refuses(r) ELSE GoesTo(r, "declaration")
    /\ UNCHANGED <<waiting, registry, key, cache, vault, raw, late, changes, faults>>

\* resolve_resource and authorize_caller.
Authorized(r) == Declared(r).declared /\ Declared(r).caller = Sender[Msg(r)]

\* Mutant: the handling of a declared column is not looked at.
WantedAny(r) == IF Owner[Msg(r)] = NoUser THEN {} ELSE Present[Msg(r)]

\* The fields of the message that the declaration wants encrypted.
Wanted(r) ==
    IF Owner[Msg(r)] = NoUser THEN {} ELSE Declared(r).encrypt \cap Present[Msg(r)]

\* 403: not declared, another caller, or no userIdFieldPath to look for.
RejectCaller(r) ==
    /\ request[r].phase = "declaration"
    /\ ~Authorized(r) \/ (Msg(r) \notin Malformed /\ ~Declared(r).keyed)
    /\ Refuses(r)
    /\ UNCHANGED <<waiting, registry, key, cache, vault, raw, late, changes, faults>>

\* 200 for a message that can never be processed: not JSON, no user id, no
\* declared field.
IgnoreMessage(r) ==
    /\ request[r].phase = "declaration"
    /\ Authorized(r)
    /\ Msg(r) \in Malformed \/ (Declared(r).keyed /\ Wanted(r) = {})
    /\ Accepts(r)
    /\ UNCHANGED <<waiting, registry, key, cache, vault, raw, late, changes, faults>>

\* The declaration is not looked at again from here on.
AcceptMessage(r) ==
    /\ request[r].phase = "declaration"
    /\ Authorized(r)
    /\ Msg(r) \notin Malformed /\ Declared(r).keyed /\ Wanted(r) # {}
    /\ Becomes(r, [request[r] EXCEPT !.phase = "keys", !.fields = Wanted(r)])
    /\ UNCHANGED <<waiting, registry, key, cache, vault, raw, late, changes, faults>>

-----------------------------------------------------------------------------
(* insert_with_retry                                                       *)

\* The declaration that let this request in still stands.
Stands(r) == Authorized(r) /\ request[r].fields \subseteq Declared(r).encrypt

Inserting(r) == Handling(r, "customer") /\ request[r].phase = "store"

\* One more pii_vault row for each of these fields.
Appended(r, fields) ==
    /\ vault' = [v \in Messages \X Fields |->
                    IF v[1] = Msg(r) /\ v[2] \in fields THEN vault[v] + 1 ELSE vault[v]]
    /\ late' = IF Stands(r) \/ fields = {} THEN late ELSE late + 1

\* Mutant: something after the insert raises, and the answer is 500.
InsertThenRefuse(r) ==
    /\ Inserting(r)
    /\ Appended(r, request[r].fields)
    /\ Refuses(r)
    /\ UNCHANGED <<waiting, registry, key, cache, raw, changes, faults>>

InsertRows(r) ==
    /\ Inserting(r)
    /\ Appended(r, request[r].fields)
    /\ Accepts(r)
    /\ UNCHANGED <<waiting, registry, key, cache, raw, changes, faults>>

\* Mutant: the loop gives up and returns after the last attempt.
RateLimitedReturns(r) ==
    /\ Inserting(r)
    /\ Fault("rate")
    /\ IF request[r].attempt = MaxAttempts
       THEN Accepts(r)
       ELSE Becomes(r, [request[r] EXCEPT !.attempt = request[r].attempt + 1])
    /\ UNCHANGED <<waiting, registry, key, cache, vault, raw, late, changes>>

\* Mutant: one attempt too many.
RateLimitedOnceMore(r) ==
    /\ Inserting(r)
    /\ Fault("rate")
    /\ Becomes(r, [request[r] EXCEPT !.attempt = request[r].attempt + 1])
    /\ UNCHANGED <<waiting, registry, key, cache, vault, raw, late, changes>>

\* TooManyRequests: nothing was inserted; the last attempt raises.
RateLimited(r) ==
    /\ Inserting(r)
    /\ Fault("rate")
    /\ IF request[r].attempt = MaxAttempts
       THEN Refuses(r)
       ELSE Becomes(r, [request[r] EXCEPT !.attempt = request[r].attempt + 1])
    /\ UNCHANGED <<waiting, registry, key, cache, vault, raw, late, changes>>

\* Row errors or a broken connection: any of the rows may be in.
InsertFails(r, landed) ==
    /\ Inserting(r)
    /\ landed \subseteq request[r].fields
    /\ Fault("insert")
    /\ Appended(r, landed)
    /\ Refuses(r)
    /\ UNCHANGED <<waiting, registry, key, cache, raw, changes>>

CustomerStep(r) ==
    \/ VerifyToken(r)
    \/ RejectCaller(r)
    \/ IgnoreMessage(r)
    \/ AcceptMessage(r)
    \/ InsertRows(r)

CustomerFails(r) ==
    \/ RateLimited(r)
    \/ \E landed \in SUBSET Fields : InsertFails(r, landed)
=============================================================================
