----------------------------- MODULE GhostScan -----------------------------
(***************************************************************************)
(* BigQueryGhostDataScanner: values that look like personal data, in       *)
(* columns that the registry does not know as identifiers, table by table. *)
(***************************************************************************)
EXTENDS DiscoveryState

CONSTANT SampleLimit  \* sample_limit

ASSUME ScanAssumption == SampleLimit \in Nat

VARIABLE scan         \* [Scans -> ScanState]

\* A column of a finding, with the "(json)" suffix or without.
Ghost == [resource: Resources, column: Columns, json: BOOLEAN, pattern: Patterns,
          count: 1..Cardinality(Rows)]

ScanState == [phase: {"idle", "scanning", "done", "failed"},
              registry: Snapshot,
              todo: SUBSET Resources,
              findings: SUBSET Ghost]

IdleScan == [phase |-> "idle", registry |-> NoSnapshot, todo |-> {},
             findings |-> {}]

-----------------------------------------------------------------------------
(* Classification                                                          *)

\* _classify_value: the first leaf that has a pattern has this one.
Classified(row, column, pattern) ==
    \E i \in DOMAIN Cell[row][column] :
        /\ Cell[row][column][i] = pattern
        /\ \A j \in 1..(i - 1) : Cell[row][column][j] = Benign

\* Columns that are known to hold identifiers.
Known(d) == DirectIdentifiers(d) \cup d.allowed \cup {d.tenantColumn, d.userColumn}

\* No patterns means all of them.
Enabled(d) == IF d.patterns = {} THEN Patterns ELSE d.patterns

\* Cells of a column, plain or nested, whose pattern this is.
Matching(rows, column, json, pattern) ==
    {row \in rows : (column \in Json[row]) = json /\ Classified(row, column, pattern)}

\* counts: the column, plain or nested, the pattern and how many rows have it.
Counts(q, d, columns, rows) ==
    {[resource |-> q, column |-> column, json |-> json, pattern |-> pattern,
      count |-> Cardinality(Matching(rows, column, json, pattern))] :
        column \in columns \ Known(d), json \in BOOLEAN, pattern \in Enabled(d)}

\* Mutant: columns without a match are reported as well.
GhostsInAll(q, d, columns, rows) == Counts(q, d, columns, rows)

\* _find_ghost_data.
GhostsIn(q, d, columns, rows) == {g \in Counts(q, d, columns, rows) : g.count > 0}

-----------------------------------------------------------------------------
\* Key Vault answers with the resources that have their scan enabled.
StartScan(s) ==
    /\ s \in due /\ scan[s].phase = "idle"
    /\ scan' = [scan EXCEPT
          ![s].phase = "scanning",
          ![s].registry = [q \in Resources |->
              IF q \in Declared /\ registry[q].scanned THEN registry[q] ELSE Undeclared],
          ![s].todo = {q \in Declared : registry[q].scanned}]
    /\ Begins(s)
    /\ UNCHANGED <<world, faults>>

\* SELECT *, with a LIMIT unless the scan is FULL: any rows of the table.
Samples(d, rows) ==
    IF d.full \/ Cardinality(rows) <= SampleLimit THEN {rows}
    ELSE {sample \in SUBSET rows : Cardinality(sample) = SampleLimit}

\* One table is sampled, classified and reported.
ScanTable(s, q, sample) ==
    /\ scan[s].phase = "scanning" /\ q \in scan[s].todo
    /\ tables[q] # NoTable
    /\ sample \in Samples(scan[s].registry[q], tables[q].rows)
    /\ scan' = [scan EXCEPT
          ![s].todo = @ \ {q},
          ![s].findings = @ \cup GhostsIn(q, scan[s].registry[q], tables[q].columns, sample)]
    /\ UNCHANGED <<world, faults, history>>

\* Mutant: the findings are reported together at the end of the pass.
ScanRaisesUnreported(s) ==
    /\ scan[s].phase = "scanning" /\ scan[s].todo # {}
    /\ \/ Fault
       \/ (\E q \in scan[s].todo : tables[q] = NoTable) /\ UNCHANGED faults
    /\ scan' = [scan EXCEPT ![s].phase = "failed", ![s].findings = {}]
    /\ UNCHANGED <<world, history>>

\* A table that is gone, or any other error, ends the pass; what was found
\* before has been reported, and the rest stays to do.
ScanRaises(s) ==
    /\ scan[s].phase = "scanning" /\ scan[s].todo # {}
    /\ \/ Fault
       \/ (\E q \in scan[s].todo : tables[q] = NoTable) /\ UNCHANGED faults
    /\ scan' = [scan EXCEPT ![s].phase = "failed"]
    /\ UNCHANGED <<world, history>>

ScanEnds(s) ==
    /\ scan[s].phase = "scanning" /\ scan[s].todo = {}
    /\ scan' = [scan EXCEPT ![s].phase = "done"]
    /\ UNCHANGED <<world, faults, history>>

ScanNext(s) ==
    \/ StartScan(s)
    \/ \E q \in Resources, sample \in SUBSET Rows : ScanTable(s, q, sample)
    \/ ScanRaises(s)
    \/ ScanEnds(s)
=============================================================================
