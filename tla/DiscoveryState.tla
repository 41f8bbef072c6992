--------------------------- MODULE DiscoveryState ---------------------------
(***************************************************************************)
(* What the discovery passes look at: Key Vault's PII registry, as         *)
(* policies/pii_registry.py presents it, the customer's tables, and the    *)
(* findings of the chameleon_pii dbt package.  All of it changes while the *)
(* passes run; none of them takes a lock.                                  *)
(***************************************************************************)
EXTENDS Naturals, FiniteSets, Sequences

CONSTANTS
    Resources,    \* BigQuery resource ids
    Columns, NoColumn,
    Patterns,     \* EMAIL, PHONE, NAME
    Benign,       \* a string that matches none of them
    Rows,
    Cell,         \* [Rows -> [Columns -> Seq(Patterns \cup {Benign})]]: leaf strings
    Json,         \* [Rows -> SUBSET Columns]: cells that hold an object or a list
    Declarations, \* [Resources -> SUBSET Declaration]: what a registry may say
    Contents,     \* [Resources -> SUBSET Table \cup {NoTable}]: what a table may be
    NoTable, Undeclared,
    Locations,    \* places with a pii_discovery table of the dbt package
    PiiNamed,     \* columns whose name the dbt package recognizes
    NotBuilt,     \* there is no pii_discovery table at a location
    Crawls, Scans, Publications, Checks,  \* passes of the four kinds
    Schedules,    \* sets of passes that may run together
    MaxChanges,   \* bound on the changes to registry, tables and findings
    MaxFaults     \* bound on the number of failures in a behaviour

Passes == Crawls \cup Scans \cup Publications \cup Checks

\* A RegistryResource: its columns, those classified DIRECT_IDENTIFIER and
\* those of them allowed in a mart, allowedDirectIdentifiers, the columns of
\* the tenant and user ids, the ghost scan, whether its type is bigquery_table,
\* and what the dbt rules look at.
\* A resource says at most one of several names for each of these.
Declaration ==
    [columns: SUBSET Columns, direct: SUBSET Columns, inMart: SUBSET Columns,
     allowed: SUBSET Columns, tenantColumn: Columns \cup {NoColumn},
     userColumn: Columns \cup {NoColumn},
     scanned: BOOLEAN, full: BOOLEAN, patterns: SUBSET Patterns, table: BOOLEAN,
     tenantScoped: BOOLEAN, cryptoShred: BOOLEAN, exempt: BOOLEAN]

Table == [columns: SUBSET Columns, rows: SUBSET Rows]

\* A row of pii_discovery: a column that dbt found undeclared.
Finding == [resource: Resources, field: Columns]

\* A pass is of one kind; what is missing is told from what is there.
ASSUME WorldAssumption ==
    /\ IsFiniteSet(Rows)
    /\ Benign \notin Patterns
    /\ Cell \in [Rows -> [Columns -> Seq(Patterns \cup {Benign})]]
    /\ Declarations \in [Resources -> SUBSET Declaration] /\ Undeclared \notin Declaration
    /\ Contents \in [Resources -> SUBSET (Table \cup {NoTable})] /\ NoTable \notin Table
    /\ \A findings \in SUBSET Finding : findings # NotBuilt
    /\ Crawls \cap Scans = {} /\ (Crawls \cup Scans) \cap Publications = {}
    /\ (Crawls \cup Scans \cup Publications) \cap Checks = {}
    /\ \A schedule \in Schedules : schedule \subseteq Passes
    /\ MaxChanges \in Nat /\ MaxFaults \in Nat

VARIABLES
    due,        \* passes that are triggered in this behaviour
    registry,   \* [Resources -> Declaration \cup {Undeclared}]
    tables,     \* [Resources -> Table \cup {NoTable}]
    built,      \* [Locations -> (SUBSET Finding) \cup {NotBuilt}]
    changes,    \* changes to the three so far
    faults,     \* failures so far
    disturbed,  \* history, [Passes -> SUBSET Resources]: changed since it began
    seen,       \* history, [Passes -> [Resources -> SUBSET SUBSET Columns]]:
                \* the columns a table has had since the pass began
    held        \* history, [Passes -> [Locations -> SUBSET SUBSET Finding]]:
                \* what a location has held since the pass began

world == <<due, registry, tables, built, changes>>
history == <<disturbed, seen, held>>

-----------------------------------------------------------------------------
ColumnsOf(q) == IF tables[q] = NoTable THEN {} ELSE tables[q].columns

\* A query of a table that is not there fails, and counts as no findings.
Holds(l) == IF built[l] = NotBuilt THEN {} ELSE built[l]

Declared == {q \in Resources : registry[q] # Undeclared}

\* What a pass remembers of the registry: fetch_pii_registry_resources.
Snapshot == [Resources -> (UNION {Declarations[q] : q \in Resources}) \cup {Undeclared}]

NoSnapshot == [q \in Resources |-> Undeclared]

DirectIdentifiers(d) == d.direct \cap d.columns

Begins(p) ==
    /\ disturbed' = [disturbed EXCEPT ![p] = {}]
    /\ seen' = [seen EXCEPT ![p] = [q \in Resources |-> {ColumnsOf(q)}]]
    /\ held' = [held EXCEPT ![p] = [l \in Locations |-> {Holds(l)}]]

Fault == faults < MaxFaults /\ faults' = faults + 1

-----------------------------------------------------------------------------
(* The outside world                                                       *)

Disturbs(q) ==
    /\ changes < MaxChanges
    /\ changes' = changes + 1
    /\ disturbed' = [p \in Passes |-> disturbed[p] \cup {q}]
    /\ UNCHANGED <<due, faults>>

Redeclare(q, d) ==
    /\ d # registry[q]
    /\ Disturbs(q)
    /\ registry' = [registry EXCEPT ![q] = d]
    /\ UNCHANGED <<tables, built, seen, held>>

\* A table is created, altered, written or dropped.
Alter(q, t) ==
    /\ t # tables[q]
    /\ Disturbs(q)
    /\ tables' = [tables EXCEPT ![q] = t]
    /\ seen' = [p \in Passes |->
                   [seen[p] EXCEPT ![q] = @ \cup {IF t = NoTable THEN {} ELSE t.columns}]]
    /\ UNCHANGED <<registry, built, held>>

\* dbt build: columns with a telling name that meta.pii does not declare.
Undocumented ==
    {f \in Finding :
        /\ f.field \in ColumnsOf(f.resource) \cap PiiNamed
        /\ f.resource \in Declared => f.field \notin registry[f.resource].columns}

Build(l) ==
    /\ changes < MaxChanges
    /\ built[l] # Undocumented
    /\ changes' = changes + 1
    /\ built' = [built EXCEPT ![l] = Undocumented]
    /\ held' = [p \in Passes |-> [held[p] EXCEPT ![l] = @ \cup {Undocumented}]]
    /\ UNCHANGED <<due, registry, tables, faults, disturbed, seen>>

Outside ==
    \/ \E q \in Resources : \E d \in Declarations[q] \cup {Undeclared} : Redeclare(q, d)
    \/ \E q \in Resources : \E t \in Contents[q] : Alter(q, t)
    \/ \E l \in Locations : Build(l)
=============================================================================
