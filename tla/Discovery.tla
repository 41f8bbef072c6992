----------------------------- MODULE Discovery -----------------------------
(***************************************************************************)
(* The discovery passes together, over a registry, tables and dbt findings *)
(* that change under them.  A pass reads the registry once and the rest    *)
(* piece by piece; what it reports is a mixture of several moments.        *)
(***************************************************************************)
EXTENDS WarehouseCrawl, GhostScan, DbtDiscovery, DbtPolicy

vars == <<world, faults, history, crawl, scan, publish, check>>

Init ==
    /\ due \in Schedules
    /\ registry \in [Resources -> (UNION {Declarations[q] : q \in Resources}) \cup {Undeclared}]
    /\ \A q \in Resources : registry[q] \in Declarations[q] \cup {Undeclared}
    /\ tables \in [Resources -> UNION {Contents[q] : q \in Resources}]
    /\ \A q \in Resources : tables[q] \in Contents[q]
    /\ built = [l \in Locations |-> NotBuilt]
    /\ changes = 0 /\ faults = 0
    /\ disturbed = [p \in Passes |-> {}]
    /\ seen = [p \in Passes |-> [q \in Resources |-> {}]]
    /\ held = [p \in Passes |-> [l \in Locations |-> {}]]
    /\ crawl = [c \in Crawls |-> IdleCrawl]
    /\ scan = [s \in Scans |-> IdleScan]
    /\ publish = [p \in Publications |-> IdlePublish]
    /\ check = [k \in Checks |-> IdleCheck]

Next ==
    \/ \E c \in Crawls : CrawlNext(c) /\ UNCHANGED <<scan, publish, check>>
    \/ \E s \in Scans : ScanNext(s) /\ UNCHANGED <<crawl, publish, check>>
    \/ \E p \in Publications : PublishNext(p) /\ UNCHANGED <<crawl, scan, check>>
    \/ \E k \in Checks : CheckNext(k) /\ UNCHANGED <<crawl, scan, publish>>
    \/ Outside /\ UNCHANGED <<crawl, scan, publish, check>>

Spec == Init /\ [][Next]_vars

-----------------------------------------------------------------------------
\* Types of the variables.
TypeOK ==
    /\ due \subseteq Passes
    /\ registry \in Snapshot
    /\ tables \in [Resources -> Table \cup {NoTable}]
    /\ \A q \in Resources : tables[q] \in Contents[q]
    /\ built \in [Locations -> (SUBSET Finding) \cup {NotBuilt}]
    /\ changes \in 0..MaxChanges /\ faults \in 0..MaxFaults
    /\ disturbed \in [Passes -> SUBSET Resources]
    /\ crawl \in [Crawls -> CrawlState]
    /\ scan \in [Scans -> ScanState]
    /\ publish \in [Publications -> PublishState]
    /\ check \in [Checks -> CheckState]

\* What a crawl should say of a table in its i-th dataset.
Reference(i, q) ==
    [turn |-> i, resource |-> q, columns |-> tables[q].columns,
     status |-> CASE q \notin Declared -> "UNREGISTERED"
                  [] q \in Declared /\ registry[q].columns = tables[q].columns -> "REGISTERED"
                  [] OTHER -> "DRIFTED"]

\* The datasets of the list that a table is crawled in.
Turns(q) == {i \in DOMAIN Datasets : Datasets[i] = DatasetOf[q] /\ q \notin Excluded}

\* Whatever happens to other tables and datasets in between its queries, a
\* crawl reports each table that is left alone once for each time its dataset
\* is listed, and rightly, and no table that is not there
\* (warehouse_metadata_crawler.py 79-143).
CrawlRight ==
    \A c \in Crawls : crawl[c].phase = "done" =>
        \A q \in Resources \ disturbed[c] :
            {t \in Diffs(c) : t.resource = q} =
                IF tables[q] = NoTable THEN {} ELSE {Reference(i, q) : i \in Turns(q)}

\* Of a table that changed under the crawl, or was dropped between the two
\* queries, it says nothing that was not so at some moment of the crawl: no
\* table passes for registered that never had the declared columns, and none
\* for drifted that had them all along.
VerdictWitnessed ==
    \A c \in Crawls : crawl[c].phase = "done" =>
        \A t \in Diffs(c) :
            LET expected == crawl[c].registry[t.resource].columns
            IN  CASE t.status = "REGISTERED" -> expected \in seen[c][t.resource]
                  [] t.status = "DRIFTED" -> seen[c][t.resource] # {expected}
                  [] OTHER -> crawl[c].registry[t.resource] = Undeclared

\* Patterns among the strings of a cell.
PatternsIn(row, column) ==
    {Cell[row][column][i] : i \in DOMAIN Cell[row][column]} \ {Benign}

\* Of a table that is left alone a ghost scan reports only values that are
\* there, in columns that are not known to hold identifiers and by patterns
\* that are enabled, counting no row twice.  Of such a table that it got to and
\* read whole it misses no cell whose patterns are enabled, whatever becomes of
\* the pass afterwards; of a nested value that mixes patterns it names one, and
\* a pattern that is not enabled may hide the others
\* (ghost_data_scanner.py 37-48, 80-151).
GhostRight ==
    \A s \in Scans : scan[s].phase \in {"done", "failed"} =>
        \A q \in (Declared \ disturbed[s]) \ {r \in Resources : tables[r] = NoTable} :
            LET d == registry[q]
                t == tables[q]
                open == t.columns \ (d.allowed \cup (d.direct \cap d.columns)
                                        \cup {d.tenantColumn, d.userColumn})
                wanted == {p \in Patterns : d.patterns # {} => p \in d.patterns}
                found == {g \in scan[s].findings : g.resource = q}
            IN  /\ \A g \in found :
                      /\ g.column \in open /\ g.pattern \in wanted
                      /\ g.count <= Cardinality({row \in t.rows :
                                                    g.pattern \in PatternsIn(row, g.column)})
                /\ (d.scanned /\ q \notin scan[s].todo
                        /\ (d.full \/ Cardinality(t.rows) <= SampleLimit)) =>
                      \A c \in open, row \in t.rows :
                          (PatternsIn(row, c) # {} /\ PatternsIn(row, c) \subseteq wanted) =>
                              \E g \in found : g.column = c /\ g.pattern \in PatternsIn(row, c)
                /\ (scan[s].phase = "done" /\ d.scanned) => q \notin scan[s].todo

\* A finding that a configured location holds for the whole pass is
\* published, whatever other locations do, unless that very query failed; and
\* nothing is published that none of them held
\* (dbt_pii_discovery_publisher.py 75-117).
PublishRight ==
    \A p \in Publications : publish[p].phase = "done" =>
        LET places == {Configured[i] : i \in DOMAIN Configured}
        IN  /\ \A l \in places \ publish[p].unread : \A f \in Finding :
                  (\A findings \in held[p][l] : f \in findings) => f \in publish[p].byResource
            /\ \A f \in publish[p].byResource :
                  \E l \in places : \E findings \in held[p][l] : f \in findings

\* The declaration d lets the model m through.
Compliant(m, d) ==
    /\ d.tenantScoped => d.tenantColumn \in Has[m]
    /\ d.cryptoShred => d.exempt \/ d.userColumn \in Has[m]
    /\ \A c \in Has[m] : (m \in Marts /\ c \in d.columns \cap d.direct) => c \in d.inMart

\* A model whose declarations are left alone during the check passes exactly
\* if it complies; when it goes by the table's id and by its dataset's, with
\* different verdicts, the order of the registry decides
\* (dbt_policy.py 28-139).
PolicyRight ==
    \A k \in Checks : check[k].phase = "done" =>
        \A m \in {n \in Models : Candidates[n] \cap disturbed[k] = {}} :
            LET declarations == {registry[q] : q \in {r \in Candidates[m] \cap Declared :
                                                         registry[r].table}}
            IN  IF check[k].violations[m] = {}
                THEN declarations = {} \/ \E d \in declarations : Compliant(m, d)
                ELSE \E d \in declarations : ~Compliant(m, d)
=============================================================================
