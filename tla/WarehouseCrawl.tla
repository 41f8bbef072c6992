--------------------------- MODULE WarehouseCrawl ---------------------------
(***************************************************************************)
(* POST /warehouse-crawl: BigQueryWarehouseMetadataCrawler reads the       *)
(* registry, then for each dataset first the names of its tables and then, *)
(* in another query, the columns of all its tables, and compares.          *)
(***************************************************************************)
EXTENDS DiscoveryState

CONSTANTS
    DatasetOf,  \* [Resources -> datasets]
    Datasets,   \* sequence: WAREHOUSE_DISCOVERY_DATASETS
    Excluded    \* resources that an exclusion pattern matches

ASSUME CrawlAssumption == Datasets \in Seq({Datasets[i] : i \in DOMAIN Datasets})

VARIABLE crawl  \* [Crawls -> CrawlState]

\* A DiscoveredTable, with the turn of its dataset in the list: a dataset that
\* is listed twice is crawled twice.
Discovered == [turn: DOMAIN Datasets, resource: Resources, columns: SUBSET Columns]

CrawlState ==
    [phase: {"idle", "tables", "columns", "done", "failed"},
     registry: Snapshot,
     at: 1..(Len(Datasets) + 1),                  \* in dataset_ids
     listed: SUBSET Resources,                    \* tables_by_name
     found: SUBSET Discovered]

IdleCrawl == [phase |-> "idle", registry |-> NoSnapshot, at |-> 1,
              listed |-> {}, found |-> {}]

\* The dataset after this one, or the end.
NextDataset(c) == IF crawl[c].at = Len(Datasets) THEN "done" ELSE "tables"

FetchRegistry(c) ==
    /\ c \in due /\ crawl[c].phase = "idle"
    /\ crawl' = [crawl EXCEPT ![c].phase = IF Datasets = <<>> THEN "done" ELSE "tables",
                              ![c].registry = registry]
    /\ Begins(c)
    /\ UNCHANGED <<world, faults>>

InDataset(c) == {q \in Resources : DatasetOf[q] = Datasets[crawl[c].at]}

\* INFORMATION_SCHEMA.TABLES of one dataset.
QueryTables(c) ==
    /\ crawl[c].phase = "tables"
    /\ crawl' = [crawl EXCEPT ![c].phase = "columns",
                              ![c].listed = {q \in InDataset(c) : tables[q] # NoTable}]
    /\ UNCHANGED <<world, faults, history>>

\* The listed tables of this dataset, each with its columns.
Discoveries(c) ==
    {[turn |-> crawl[c].at, resource |-> q, columns |-> ColumnsOf(q)] :
        q \in crawl[c].listed \ Excluded}

\* Mutant: the tables are collected by name, so that one is there once only.
QueryColumnsOnly(c) ==
    /\ crawl[c].phase = "columns"
    /\ crawl' = [crawl EXCEPT
          ![c].phase = NextDataset(c),
          ![c].at = @ + 1,
          ![c].found = {t \in @ : t.resource \notin crawl[c].listed} \cup Discoveries(c),
          ![c].listed = {}]
    /\ UNCHANGED <<world, faults, history>>

\* INFORMATION_SCHEMA.COLUMNS: a listed table that is gone has no columns, and
\* one that is new is not looked for.
QueryColumns(c) ==
    /\ crawl[c].phase = "columns"
    /\ crawl' = [crawl EXCEPT
          ![c].phase = NextDataset(c),
          ![c].at = @ + 1,
          ![c].found = @ \cup Discoveries(c),
          ![c].listed = {}]
    /\ UNCHANGED <<world, faults, history>>

\* A query raises: the route answers 500 and nothing is reported.
CrawlFails(c) ==
    /\ crawl[c].phase \in {"tables", "columns"}
    /\ Fault
    /\ crawl' = [crawl EXCEPT ![c] = [IdleCrawl EXCEPT !.phase = "failed"]]
    /\ UNCHANGED <<world, history>>

-----------------------------------------------------------------------------
\* Mutant: only columns that the registry lacks are drift.
StatusOfNew(d, columns) ==
    IF d = Undeclared THEN "UNREGISTERED"
    ELSE IF columns \subseteq d.columns THEN "REGISTERED" ELSE "DRIFTED"

\* compare_table_to_registry.
Status(d, columns) ==
    IF d = Undeclared THEN "UNREGISTERED"
    ELSE IF columns = d.columns THEN "REGISTERED" ELSE "DRIFTED"

\* What the pass reports once it is done, one event for each table.
Diffs(c) ==
    {[turn |-> t.turn, resource |-> t.resource, columns |-> t.columns,
      status |-> Status(crawl[c].registry[t.resource], t.columns)] : t \in crawl[c].found}

CrawlNext(c) ==
    \/ FetchRegistry(c)
    \/ QueryTables(c)
    \/ QueryColumns(c)
    \/ CrawlFails(c)
=============================================================================
