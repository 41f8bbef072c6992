----------------------------- MODULE DbtPolicy -----------------------------
(***************************************************************************)
(* DbtPolicyValidator: the models of a dbt manifest are held against the   *)
(* registry as it was when the validator was made.                         *)
(***************************************************************************)
EXTENDS DiscoveryState

CONSTANTS
    Models,      \* models of the manifest
    Candidates,  \* [Models -> SUBSET Resources]: ids that a node may go by
    Has,         \* [Models -> SUBSET Columns]: columns that the node documents
    Marts        \* models with "mart" in name, path or fqn

ASSUME PolicyAssumption == Candidates \in [Models -> SUBSET Resources]

VARIABLE check   \* [Checks -> CheckState]

Rules == {"tenant_id_required", "user_scope_required", "direct_identifier_in_mart"}

CheckState == [phase: {"idle", "registry", "done"},
               registry: Snapshot,
               violations: [Models -> SUBSET Rules]]

IdleCheck == [phase |-> "idle", registry |-> NoSnapshot,
              violations |-> [m \in Models |-> {}]]

-----------------------------------------------------------------------------
(* The rules                                                               *)

TenantScope(m, d) ==
    IF d.tenantScoped /\ d.tenantColumn \notin Has[m] THEN {"tenant_id_required"} ELSE {}

CryptoShredScope(m, d) ==
    IF d.cryptoShred /\ d.userColumn \notin Has[m] /\ ~d.exempt
    THEN {"user_scope_required"} ELSE {}

\* Mutant: a direct identifier allowed in marts makes the others allowed too.
IdentifiersAllOrNone(m, d) ==
    IF m \in Marts /\ DirectIdentifiers(d) \cap Has[m] # {} /\ d.inMart = {}
    THEN {"direct_identifier_in_mart"} ELSE {}

MartIdentifiers(m, d) ==
    IF m \in Marts /\ (DirectIdentifiers(d) \cap Has[m]) \ d.inMart # {}
    THEN {"direct_identifier_in_mart"} ELSE {}

Violations(m, d) == TenantScope(m, d) \cup CryptoShredScope(m, d) \cup MartIdentifiers(m, d)

-----------------------------------------------------------------------------
FetchPolicyRegistry(k) ==
    /\ k \in due /\ check[k].phase = "idle"
    /\ check' = [check EXCEPT ![k].phase = "registry", ![k].registry = registry]
    /\ Begins(k)
    /\ UNCHANGED <<world, faults>>

\* Mutant: a resource of any type is taken for the model's table.
MatchesAnyType(m, snapshot) == {q \in Candidates[m] : snapshot[q] # Undeclared}

\* The tables of the response that a node may go by; Key Vault's order decides
\* which is the first.
Matches(m, snapshot) ==
    {q \in Candidates[m] : snapshot[q] # Undeclared /\ snapshot[q].table}

Verdicts(m, snapshot) ==
    IF Matches(m, snapshot) = {} THEN {{}}
    ELSE {Violations(m, snapshot[q]) : q \in Matches(m, snapshot)}

ValidateManifest(k) ==
    /\ check[k].phase = "registry"
    /\ \E verdict \in [Models -> SUBSET Rules] :
          /\ \A m \in Models : verdict[m] \in Verdicts(m, check[k].registry)
          /\ check' = [check EXCEPT ![k].phase = "done", ![k].violations = verdict]
    /\ UNCHANGED <<world, faults, history>>

CheckNext(k) ==
    \/ FetchPolicyRegistry(k)
    \/ ValidateManifest(k)
=============================================================================
