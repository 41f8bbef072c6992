-------------------------- MODULE Discovery_proofs --------------------------
(***************************************************************************)
(* Machine-checked facts about the discovery passes, for every value of    *)
(* the constants: types, and that each pass reports what was there.  A     *)
(* pass shares only the world with the others, so each has an invariant of *)
(* its own, about its locals and the history since it began.               *)
(***************************************************************************)
EXTENDS Discovery, FiniteSetTheorems, WellFoundedInduction, TLAPS

DiscoveryAssumption == WorldAssumption /\ CrawlAssumption /\ ScanAssumption
                           /\ PublishAssumption /\ PolicyAssumption

\* The history has the shape that its comment says.
HistoryOK ==
    /\ seen \in [Passes -> [Resources -> SUBSET SUBSET Columns]]
    /\ held \in [Passes -> [Locations -> SUBSET SUBSET Finding]]

\* A pass that has not begun knows nothing, and a loop that is not over has an
\* element to look at.
CrawlLoop(s) ==
    /\ s.phase = "idle" => s = IdleCrawl
    /\ s.phase \in {"tables", "columns"} => s.at <= Len(Datasets)
    /\ s.phase = "done" => s.at = Len(Datasets) + 1

PublishLoop(s) ==
    /\ s.phase = "idle" => s = IdlePublish
    /\ s.phase = "reading" => s.at <= Len(Configured)
    /\ s.phase = "done" => s.at = Len(Configured) + 1

\* A scan works through tables that it knows a declaration of.
ScanLoop(s) ==
    /\ s.phase = "idle" => s = IdleScan
    /\ \A q \in s.todo : s.registry[q] # Undeclared

LoopsSound ==
    /\ \A c \in Crawls : CrawlLoop(crawl[c])
    /\ \A p \in Publications : PublishLoop(publish[p])
    /\ \A s \in Scans : ScanLoop(scan[s])

TypeInv == TypeOK /\ HistoryOK /\ LoopsSound

-----------------------------------------------------------------------------
(* What a pass that goes on sees of a step                                 *)

\* A step that is not the beginning of pass p adds to its history, and changes
\* neither the declaration nor the table of a resource without a trace in it.
Watched(p) ==
    /\ disturbed[p] \subseteq disturbed'[p]
    /\ \A q \in Resources \ disturbed'[p] : registry'[q] = registry[q] /\ tables'[q] = tables[q]
    /\ \A q \in Resources :
          /\ seen[p][q] \subseteq seen'[p][q]
          /\ ColumnsOf(q) \in seen[p][q] => ColumnsOf(q)' \in seen'[p][q]
    /\ \A l \in Locations :
          /\ held[p][l] \subseteq held'[p][l]
          /\ Holds(l) \in held[p][l] => Holds(l)' \in held'[p][l]

LEMMA QuietWatched ==
    ASSUME UNCHANGED <<registry, tables, built, history>>, NEW p \in Passes
    PROVE  Watched(p)
BY DEF Watched, history, ColumnsOf, Holds

LEMMA BeginWatched ==
    ASSUME TypeInv, NEW b \in Passes, Begins(b), UNCHANGED <<registry, tables, built>>,
           NEW p \in Passes, p # b
    PROVE  Watched(p)
<1>1. disturbed'[p] = disturbed[p] /\ seen'[p] = seen[p] /\ held'[p] = held[p]
  BY DEF Begins, TypeInv, TypeOK, HistoryOK
<1> QED BY <1>1 DEF Watched, ColumnsOf, Holds

LEMMA RedeclareWatched ==
    ASSUME TypeInv, NEW q \in Resources, NEW d, Redeclare(q, d), NEW p \in Passes
    PROVE  Watched(p)
<1>1. /\ disturbed'[p] = disturbed[p] \cup {q}
      /\ \A r \in Resources : r # q => registry'[r] = registry[r]
  BY DEF Redeclare, Disturbs, TypeInv, TypeOK, Snapshot
<1> QED BY <1>1 DEF Watched, Redeclare, ColumnsOf, Holds

LEMMA AlterWatched ==
    ASSUME TypeInv, NEW q \in Resources, NEW t, Alter(q, t), NEW p \in Passes
    PROVE  Watched(p)
<1> DEFINE columns == IF t = NoTable THEN {} ELSE t.columns
<1>1. /\ disturbed'[p] = disturbed[p] \cup {q}
      /\ tables'[q] = t /\ \A r \in Resources : r # q => tables'[r] = tables[r]
  BY DEF Alter, Disturbs, TypeInv, TypeOK
<1>2. ColumnsOf(q)' = columns /\ \A r \in Resources : r # q => ColumnsOf(r)' = ColumnsOf(r)
  BY <1>1 DEF ColumnsOf
<1>3. /\ seen'[p][q] = seen[p][q] \cup {columns}
      /\ \A r \in Resources : r # q => seen'[p][r] = seen[p][r]
  BY DEF Alter, TypeInv, HistoryOK
<1> HIDE DEF columns
<1>4. \A r \in Resources :
          /\ seen[p][r] \subseteq seen'[p][r]
          /\ ColumnsOf(r) \in seen[p][r] => ColumnsOf(r)' \in seen'[p][r]
  BY <1>2, <1>3
<1> QED BY <1>1, <1>4 DEF Watched, Alter, Holds

LEMMA BuildWatched ==
    ASSUME DiscoveryAssumption, TypeInv, NEW l \in Locations, Build(l), NEW p \in Passes
    PROVE  Watched(p)
<1>1. Undocumented \in SUBSET Finding BY DEF Undocumented
<1>2. /\ built'[l] = Undocumented /\ \A k \in Locations : k # l => built'[k] = built[k]
      /\ held'[p][l] = held[p][l] \cup {Undocumented}
      /\ \A k \in Locations : k # l => held'[p][k] = held[p][k]
  BY DEF Build, TypeInv, TypeOK, HistoryOK
<1>3. Holds(l)' = Undocumented /\ \A k \in Locations : k # l => Holds(k)' = Holds(k)
  BY <1>1, <1>2 DEF Holds, DiscoveryAssumption, WorldAssumption
<1>4. \A k \in Locations :
          /\ held[p][k] \subseteq held'[p][k]
          /\ Holds(k) \in held[p][k] => Holds(k)' \in held'[p][k]
  BY <1>2, <1>3
<1> QED BY <1>4 DEF Watched, Build, ColumnsOf

\* The outside world does not touch the passes, and leaves its traces.
LEMMA OutsideWatched ==
    ASSUME DiscoveryAssumption, TypeInv, Outside, NEW p \in Passes
    PROVE  Watched(p)
BY RedeclareWatched, AlterWatched, BuildWatched DEF Outside

\* The four kinds of passes are apart.
LEMMA Kinds ==
    ASSUME DiscoveryAssumption
    PROVE  /\ \A c \in Crawls : c \in Passes /\ c \notin Scans /\ c \notin Publications /\ c \notin Checks
           /\ \A s \in Scans : s \in Passes /\ s \notin Publications /\ s \notin Checks
           /\ \A p \in Publications : p \in Passes /\ p \notin Checks
           /\ \A k \in Checks : k \in Passes
BY DEF DiscoveryAssumption, WorldAssumption, Passes

CrawlStep(c) == CrawlNext(c) /\ UNCHANGED <<scan, publish, check>>
ScanStep(s) == ScanNext(s) /\ UNCHANGED <<crawl, publish, check>>
PublishStep(p) == PublishNext(p) /\ UNCHANGED <<crawl, scan, check>>
CheckStep(k) == CheckNext(k) /\ UNCHANGED <<crawl, scan, publish>>
OutsideStep == Outside /\ UNCHANGED <<crawl, scan, publish, check>>

\* The steps of a pass read the world, and write its history only to begin.
LEMMA PassReads ==
    ASSUME NEW p,
           (p \in Crawls /\ CrawlNext(p)) \/ (p \in Scans /\ ScanNext(p))
               \/ (p \in Publications /\ PublishNext(p)) \/ (p \in Checks /\ CheckNext(p))
    PROVE  /\ UNCHANGED <<due, registry, tables, built, changes>>
           /\ UNCHANGED <<disturbed, seen, held>> \/ Begins(p)
           /\ faults' = faults \/ Fault
<1>1. ASSUME CrawlNext(p)
      PROVE  UNCHANGED world /\ (UNCHANGED history \/ Begins(p)) /\ (faults' = faults \/ Fault)
  BY <1>1 DEF CrawlNext, FetchRegistry, QueryTables, QueryColumns, CrawlFails
<1>2. ASSUME ScanNext(p)
      PROVE  UNCHANGED world /\ (UNCHANGED history \/ Begins(p)) /\ (faults' = faults \/ Fault)
  BY <1>2 DEF ScanNext, StartScan, ScanTable, ScanRaises, ScanEnds
<1>3. ASSUME PublishNext(p)
      PROVE  UNCHANGED world /\ (UNCHANGED history \/ Begins(p)) /\ (faults' = faults \/ Fault)
  BY <1>3 DEF PublishNext, StartPublish, ReadLocation, ReadLocationFails
<1>4. ASSUME CheckNext(p)
      PROVE  UNCHANGED world /\ (UNCHANGED history \/ Begins(p)) /\ (faults' = faults \/ Fault)
  BY <1>4 DEF CheckNext, FetchPolicyRegistry, ValidateManifest
<1> QED BY <1>1, <1>2, <1>3, <1>4 DEF world, history

\* Pass p itself does not move, and a step of another pass is watched by p.
LEMMA OthersWatched ==
    ASSUME DiscoveryAssumption, TypeInv, NEW p \in Passes, NEW b \in Passes, b # p,
           (b \in Crawls /\ CrawlNext(b)) \/ (b \in Scans /\ ScanNext(b))
               \/ (b \in Publications /\ PublishNext(b)) \/ (b \in Checks /\ CheckNext(b))
    PROVE  Watched(p)
<1>1. UNCHANGED <<registry, tables, built>> /\ (UNCHANGED <<disturbed, seen, held>> \/ Begins(b))
  BY PassReads
<1>2. CASE UNCHANGED <<disturbed, seen, held>> BY <1>1, <1>2, QuietWatched DEF history
<1> QED BY <1>1, <1>2, BeginWatched

\* Each variable of the passes is written one pass at a time.
LEMMA OwnSteps ==
    ASSUME TypeInv
    PROVE  /\ \A c, b \in Crawls : CrawlNext(c) /\ b # c => crawl'[b] = crawl[b]
           /\ \A s, b \in Scans : ScanNext(s) /\ b # s => scan'[b] = scan[b]
           /\ \A p, b \in Publications : PublishNext(p) /\ b # p => publish'[b] = publish[b]
           /\ \A k, b \in Checks : CheckNext(k) /\ b # k => check'[b] = check[b]
<1>1. ASSUME NEW c \in Crawls, CrawlNext(c), NEW b \in Crawls, b # c
      PROVE  crawl'[b] = crawl[b]
  BY <1>1 DEF CrawlNext, FetchRegistry, QueryTables, QueryColumns, CrawlFails, TypeInv, TypeOK
<1>2. ASSUME NEW s \in Scans, ScanNext(s), NEW b \in Scans, b # s
      PROVE  scan'[b] = scan[b]
  BY <1>2 DEF ScanNext, StartScan, ScanTable, ScanRaises, ScanEnds, TypeInv, TypeOK
<1>3. ASSUME NEW p \in Publications, PublishNext(p), NEW b \in Publications, b # p
      PROVE  publish'[b] = publish[b]
  BY <1>3 DEF PublishNext, StartPublish, ReadLocation, ReadLocationFails, Collected, TypeInv, TypeOK
<1>4. ASSUME NEW k \in Checks, CheckNext(k), NEW b \in Checks, b # k
      PROVE  check'[b] = check[b]
  BY <1>4 DEF CheckNext, FetchPolicyRegistry, ValidateManifest, TypeInv, TypeOK
<1> QED BY <1>1, <1>2, <1>3, <1>4

\* What step a pass sees that is not its own.
Elsewhere(p) ==
    /\ Watched(p)
    /\ p \in Crawls => crawl'[p] = crawl[p]
    /\ p \in Scans => scan'[p] = scan[p]
    /\ p \in Publications => publish'[p] = publish[p]
    /\ p \in Checks => check'[p] = check[p]

LEMMA StepsOf ==
    ASSUME DiscoveryAssumption, TypeInv, [Next]_vars, NEW p \in Passes
    PROVE  \/ (p \in Crawls /\ CrawlNext(p)) \/ (p \in Scans /\ ScanNext(p))
           \/ (p \in Publications /\ PublishNext(p)) \/ (p \in Checks /\ CheckNext(p))
           \/ Elsewhere(p)
<1>1. CASE UNCHANGED vars
  <2>1. Watched(p) BY <1>1, QuietWatched DEF vars, world, history
  <2> QED BY <1>1, <2>1 DEF vars, Elsewhere
<1>2. CASE OutsideStep
  <2>1. Watched(p) BY <1>2, OutsideWatched DEF OutsideStep
  <2> QED BY <1>2, <2>1 DEF OutsideStep, Elsewhere
<1>3. ASSUME NEW c \in Crawls, CrawlStep(c), c # p PROVE Elsewhere(p)
  <2>1. Watched(p) BY <1>3, OthersWatched, Kinds DEF CrawlStep
  <2>2. p \in Crawls => crawl'[p] = crawl[p] BY <1>3, OwnSteps DEF CrawlStep
  <2> QED BY <1>3, <2>1, <2>2 DEF CrawlStep, Elsewhere
<1>4. ASSUME NEW s \in Scans, ScanStep(s), s # p PROVE Elsewhere(p)
  <2>1. Watched(p) BY <1>4, OthersWatched, Kinds DEF ScanStep
  <2>2. p \in Scans => scan'[p] = scan[p] BY <1>4, OwnSteps DEF ScanStep
  <2> QED BY <1>4, <2>1, <2>2 DEF ScanStep, Elsewhere
<1>5. ASSUME NEW b \in Publications, PublishStep(b), b # p PROVE Elsewhere(p)
  <2>1. Watched(p) BY <1>5, OthersWatched, Kinds DEF PublishStep
  <2>2. p \in Publications => publish'[p] = publish[p] BY <1>5, OwnSteps DEF PublishStep
  <2> QED BY <1>5, <2>1, <2>2 DEF PublishStep, Elsewhere
<1>6. ASSUME NEW k \in Checks, CheckStep(k), k # p PROVE Elsewhere(p)
  <2>1. Watched(p) BY <1>6, OthersWatched, Kinds DEF CheckStep
  <2>2. p \in Checks => check'[p] = check[p] BY <1>6, OwnSteps DEF CheckStep
  <2> QED BY <1>6, <2>1, <2>2 DEF CheckStep, Elsewhere
<1> QED
  BY <1>1, <1>2, <1>3, <1>4, <1>5, <1>6
     DEF Next, CrawlStep, ScanStep, PublishStep, CheckStep, OutsideStep

-----------------------------------------------------------------------------
(* Types                                                                   *)

LEMMA SnapshotFact ==
    ASSUME DiscoveryAssumption
    PROVE  /\ NoSnapshot \in Snapshot
           /\ \A s \in Snapshot, q \in Resources : s[q] \in Declaration \cup {Undeclared}
           /\ \A s \in Snapshot, q \in Resources : \A d \in Declarations[q] \cup {Undeclared} :
                 [s EXCEPT ![q] = d] \in Snapshot
<1>1. UNION {Declarations[q] : q \in Resources} \subseteq Declaration
  BY DEF DiscoveryAssumption, WorldAssumption
<1>2. \A q \in Resources : Declarations[q] \subseteq UNION {Declarations[r] : r \in Resources}
  OBVIOUS
<1>3. NoSnapshot \in Snapshot BY DEF NoSnapshot, Snapshot
<1>4. \A s \in Snapshot, q \in Resources : s[q] \in Declaration \cup {Undeclared}
  BY <1>1 DEF Snapshot
<1>5. \A s \in Snapshot, q \in Resources : \A d \in Declarations[q] \cup {Undeclared} :
          [s EXCEPT ![q] = d] \in Snapshot
  BY <1>2 DEF Snapshot
<1> QED BY <1>3, <1>4, <1>5

LEMMA LengthFacts ==
    ASSUME DiscoveryAssumption
    PROVE  /\ Len(Datasets) \in Nat /\ (Datasets = <<>> <=> Len(Datasets) = 0)
           /\ DOMAIN Datasets = 1..Len(Datasets)
           /\ Len(Configured) \in Nat /\ (Configured = <<>> <=> Len(Configured) = 0)
           /\ DOMAIN Configured = 1..Len(Configured)
           /\ \A i \in 1..Len(Configured) : Configured[i] \in Locations
<1>1. /\ Len(Datasets) \in Nat /\ (Datasets = <<>> <=> Len(Datasets) = 0)
      /\ DOMAIN Datasets = 1..Len(Datasets)
  BY DEF DiscoveryAssumption, CrawlAssumption
<1>2. /\ Len(Configured) \in Nat /\ (Configured = <<>> <=> Len(Configured) = 0)
      /\ DOMAIN Configured = 1..Len(Configured)
      /\ \A i \in 1..Len(Configured) : Configured[i] \in Locations
  BY DEF DiscoveryAssumption, PublishAssumption
<1> QED BY <1>1, <1>2

WorldOK ==
    /\ due \subseteq Passes
    /\ registry \in Snapshot
    /\ tables \in [Resources -> Table \cup {NoTable}]
    /\ \A q \in Resources : tables[q] \in Contents[q]
    /\ built \in [Locations -> (SUBSET Finding) \cup {NotBuilt}]
    /\ changes \in 0..MaxChanges /\ faults \in 0..MaxFaults
    /\ disturbed \in [Passes -> SUBSET Resources]
    /\ HistoryOK

CrawlsOK == crawl \in [Crawls -> CrawlState] /\ \A c \in Crawls : CrawlLoop(crawl[c])
ScansOK == scan \in [Scans -> ScanState] /\ \A s \in Scans : ScanLoop(scan[s])
PublicationsOK ==
    publish \in [Publications -> PublishState] /\ \A p \in Publications : PublishLoop(publish[p])
ChecksOK == check \in [Checks -> CheckState]

LEMMA TypeParts == TypeInv <=> WorldOK /\ CrawlsOK /\ ScansOK /\ PublicationsOK /\ ChecksOK
BY DEF TypeInv, TypeOK, LoopsSound, WorldOK, CrawlsOK, ScansOK, PublicationsOK, ChecksOK

LEMMA TablesType ==
    ASSUME TypeInv, NEW q \in Resources
    PROVE  /\ ColumnsOf(q) \subseteq Columns
           /\ tables[q] # NoTable => tables[q].columns \subseteq Columns /\ tables[q].rows \subseteq Rows
BY DEF TypeInv, TypeOK, ColumnsOf, Table

LEMMA InitType ==
    ASSUME DiscoveryAssumption, Init
    PROVE  TypeInv
<1>1. WorldOK
  <2>1. due \subseteq Passes BY DEF Init, DiscoveryAssumption, WorldAssumption
  <2>2. registry \in Snapshot BY DEF Init, Snapshot
  <2>3. /\ tables \in [Resources -> Table \cup {NoTable}]
        /\ \A q \in Resources : tables[q] \in Contents[q]
    BY DEF Init, DiscoveryAssumption, WorldAssumption
  <2>4. changes \in 0..MaxChanges /\ faults \in 0..MaxFaults BY DEF Init, DiscoveryAssumption, WorldAssumption
  <2>5. /\ built \in [Locations -> (SUBSET Finding) \cup {NotBuilt}]
        /\ disturbed \in [Passes -> SUBSET Resources]
        /\ HistoryOK
    BY DEF Init, HistoryOK
  <2> QED BY <2>1, <2>2, <2>3, <2>4, <2>5 DEF WorldOK
<1>2. CrawlsOK
  BY SnapshotFact, LengthFacts DEF Init, CrawlsOK, CrawlState, CrawlLoop, IdleCrawl
<1>3. ScansOK
  BY SnapshotFact DEF Init, ScansOK, ScanState, ScanLoop, IdleScan
<1>4. PublicationsOK
  BY LengthFacts DEF Init, PublicationsOK, PublishState, PublishLoop, IdlePublish
<1>5. ChecksOK
  BY SnapshotFact DEF Init, ChecksOK, CheckState, IdleCheck
<1> QED BY <1>1, <1>2, <1>3, <1>4, <1>5, TypeParts

LEMMA OutsideType ==
    ASSUME DiscoveryAssumption, TypeInv, Outside
    PROVE  WorldOK'
<1> USE DEF TypeInv, TypeOK
<1>0. ASSUME NEW q \in Resources, Disturbs(q)
      PROVE  /\ changes' \in 0..MaxChanges /\ due' = due /\ faults' = faults
             /\ disturbed' \in [Passes -> SUBSET Resources]
  BY <1>0 DEF Disturbs, DiscoveryAssumption, WorldAssumption
<1>1. ASSUME NEW q \in Resources, NEW d \in Declarations[q] \cup {Undeclared}, Redeclare(q, d)
      PROVE  WorldOK'
  <2>1. registry' \in Snapshot BY <1>1, SnapshotFact DEF Redeclare
  <2> QED BY <1>0, <1>1, <2>1 DEF Redeclare, WorldOK, HistoryOK
<1>2. ASSUME NEW q \in Resources, NEW t \in Contents[q], Alter(q, t)
      PROVE  WorldOK'
  <2>1. t \in Table \cup {NoTable} BY DEF DiscoveryAssumption, WorldAssumption
  <2>2. /\ tables' \in [Resources -> Table \cup {NoTable}]
        /\ \A r \in Resources : tables'[r] \in Contents[r]
    BY <1>2, <2>1 DEF Alter
  <2> DEFINE columns == IF t = NoTable THEN {} ELSE t.columns
  <2>3. columns \in SUBSET Columns BY <2>1 DEF Table
  <2>4. seen' = [p \in Passes |-> [seen[p] EXCEPT ![q] = seen[p][q] \cup {columns}]]
    BY <1>2 DEF Alter
  <2> HIDE DEF columns
  <2>5. seen' \in [Passes -> [Resources -> SUBSET SUBSET Columns]]
    BY <2>3, <2>4 DEF HistoryOK
  <2> QED BY <1>0, <1>2, <2>2, <2>5 DEF Alter, WorldOK, HistoryOK
<1>3. ASSUME NEW l \in Locations, Build(l)
      PROVE  WorldOK'
  <2>1. Undocumented \in SUBSET Finding BY DEF Undocumented
  <2>2. changes' \in 0..MaxChanges BY <1>3 DEF Build, DiscoveryAssumption, WorldAssumption
  <2>3. built' \in [Locations -> (SUBSET Finding) \cup {NotBuilt}]
    BY <1>3, <2>1 DEF Build
  <2>4. held' \in [Passes -> [Locations -> SUBSET SUBSET Finding]]
    BY <1>3, <2>1 DEF Build, HistoryOK
  <2> QED BY <1>3, <2>2, <2>3, <2>4 DEF Build, WorldOK, HistoryOK
<1> QED BY <1>1, <1>2, <1>3 DEF Outside

LEMMA PassType ==
    ASSUME DiscoveryAssumption, TypeInv, NEW p \in Passes,
           (p \in Crawls /\ CrawlNext(p)) \/ (p \in Scans /\ ScanNext(p))
               \/ (p \in Publications /\ PublishNext(p)) \/ (p \in Checks /\ CheckNext(p))
    PROVE  WorldOK'
<1> USE DEF TypeInv, TypeOK
<1>1. /\ UNCHANGED <<due, registry, tables, built, changes>>
      /\ UNCHANGED <<disturbed, seen, held>> \/ Begins(p)
      /\ faults' = faults \/ Fault
  BY PassReads
<1>2. faults' \in 0..MaxFaults BY <1>1 DEF Fault, DiscoveryAssumption, WorldAssumption
<1>3. disturbed' \in [Passes -> SUBSET Resources] /\ HistoryOK'
  <2>1. CASE UNCHANGED <<disturbed, seen, held>> BY <2>1 DEF HistoryOK
  <2>2. CASE Begins(p)
    <3>1. disturbed' \in [Passes -> SUBSET Resources] BY <2>2 DEF Begins
    <3>2. \A q \in Resources : ColumnsOf(q) \in SUBSET Columns BY TablesType
    <3>3. seen' \in [Passes -> [Resources -> SUBSET SUBSET Columns]]
      BY <2>2, <3>2 DEF Begins, HistoryOK
    <3>4. \A l \in Locations : Holds(l) \in SUBSET Finding BY DEF Holds
    <3>5. held' \in [Passes -> [Locations -> SUBSET SUBSET Finding]]
      BY <2>2, <3>4 DEF Begins, HistoryOK
    <3> QED BY <3>1, <3>3, <3>5 DEF HistoryOK
  <2> QED BY <1>1, <2>1, <2>2
<1> QED BY <1>1, <1>2, <1>3 DEF WorldOK

LEMMA CrawlType ==
    ASSUME DiscoveryAssumption, TypeInv, NEW c \in Crawls, CrawlNext(c)
    PROVE  CrawlsOK'
<1>0. crawl[c] \in CrawlState /\ CrawlLoop(crawl[c]) /\ registry \in Snapshot
  BY TypeParts DEF CrawlsOK, WorldOK
<1>1. Len(Datasets) \in Nat /\ (Datasets = <<>> <=> Len(Datasets) = 0) BY LengthFacts
<1>2. SUFFICES \E s \in CrawlState : CrawlLoop(s) /\ crawl' = [crawl EXCEPT ![c] = s]
  BY TypeParts DEF CrawlsOK
<1>3. CASE FetchRegistry(c)
  <2> DEFINE s == [crawl[c] EXCEPT !.phase = IF Datasets = <<>> THEN "done" ELSE "tables",
                                   !.registry = registry]
  <2>1. crawl' = [crawl EXCEPT ![c] = s] BY <1>3 DEF FetchRegistry
  <2>2. crawl[c].at = 1 BY <1>0, <1>3 DEF FetchRegistry, CrawlLoop, IdleCrawl
  <2>3. s \in CrawlState BY <1>0 DEF CrawlState
  <2>4. CrawlLoop(s) BY <1>0, <1>1, <2>2 DEF CrawlState, CrawlLoop
  <2> QED BY <2>1, <2>3, <2>4
<1>4. CASE QueryTables(c)
  <2> DEFINE s == [crawl[c] EXCEPT !.phase = "columns",
                                   !.listed = {q \in InDataset(c) : tables[q] # NoTable}]
  <2>1. crawl' = [crawl EXCEPT ![c] = s] BY <1>4 DEF QueryTables
  <2>2. s \in CrawlState BY <1>0 DEF CrawlState, InDataset
  <2>3. CrawlLoop(s) BY <1>0, <1>4 DEF CrawlState, CrawlLoop, QueryTables
  <2> QED BY <2>1, <2>2, <2>3
<1>5. CASE QueryColumns(c)
  <2> DEFINE new == Discoveries(c)
             next == NextDataset(c)
             after == crawl[c].at + 1
             found == crawl[c].found \cup new
             s == [crawl[c] EXCEPT !.phase = next, !.at = after, !.found = found, !.listed = {}]
  <2>0. crawl[c].phase = "columns" BY <1>5 DEF QueryColumns
  <2>1. crawl' = [crawl EXCEPT ![c] = s] BY <1>5 DEF QueryColumns
  <2>2. crawl[c].at \in 1..Len(Datasets) BY <1>0, <1>1, <2>0 DEF CrawlLoop, CrawlState
  <2>3. new \in SUBSET Discovered
    BY <1>0, <1>1, <2>2, LengthFacts, TablesType DEF CrawlState, Discovered, Discoveries
  <2>4. /\ found \in SUBSET Discovered
        /\ \/ next = "tables" /\ after \in 1..Len(Datasets)
           \/ next = "done" /\ after = Len(Datasets) + 1
    BY <1>0, <1>1, <2>2, <2>3 DEF CrawlState, NextDataset
  <2> HIDE DEF next, after, found
  <2>5. after \in 1..(Len(Datasets) + 1) /\ next \in {"tables", "done"} BY <1>1, <2>4
  <2>6. s \in CrawlState BY <1>0, <2>4, <2>5 DEF CrawlState
  <2>7. s.phase = next /\ s.at = after BY <1>0 DEF CrawlState
  <2>8. CrawlLoop(s) BY <1>1, <2>4, <2>7 DEF CrawlLoop
  <2> QED BY <2>1, <2>6, <2>8 DEF next, after, found
<1>6. CASE CrawlFails(c)
  <2> DEFINE s == [IdleCrawl EXCEPT !.phase = "failed"]
  <2>1. crawl' = [crawl EXCEPT ![c] = s] BY <1>6 DEF CrawlFails
  <2>2. s = [phase |-> "failed", registry |-> NoSnapshot, at |-> 1, listed |-> {}, found |-> {}]
    BY DEF IdleCrawl
  <2>3. s \in CrawlState BY <1>1, <2>2, SnapshotFact DEF CrawlState
  <2>4. CrawlLoop(s) BY <2>2 DEF CrawlLoop
  <2> QED BY <2>1, <2>3, <2>4
<1> QED BY <1>3, <1>4, <1>5, <1>6 DEF CrawlNext

LEMMA PublishType ==
    ASSUME DiscoveryAssumption, TypeInv, NEW p \in Publications, PublishNext(p)
    PROVE  PublicationsOK'
<1>0. publish[p] \in PublishState /\ PublishLoop(publish[p]) BY TypeParts DEF PublicationsOK
<1>1. Len(Configured) \in Nat /\ (Configured = <<>> <=> Len(Configured) = 0) BY LengthFacts
<1>2. SUFFICES \E s \in PublishState : PublishLoop(s) /\ publish' = [publish EXCEPT ![p] = s]
  BY TypeParts DEF PublicationsOK
<1>3. CASE StartPublish(p)
  <2> DEFINE s == [publish[p] EXCEPT !.phase = IF Configured = <<>> THEN "done" ELSE "reading"]
  <2>1. publish' = [publish EXCEPT ![p] = s] BY <1>3 DEF StartPublish
  <2>2. publish[p].at = 1 BY <1>0, <1>3 DEF StartPublish, PublishLoop, IdlePublish
  <2>3. s \in PublishState BY <1>0 DEF PublishState
  <2>4. PublishLoop(s) BY <1>0, <1>1, <2>2 DEF PublishState, PublishLoop
  <2> QED BY <2>1, <2>3, <2>4
<1> DEFINE next == IF publish[p].at = Len(Configured) THEN "done" ELSE "reading"
           after == publish[p].at + 1
           location == Configured[publish[p].at]
<1>4. ASSUME publish[p].phase = "reading"
      PROVE  /\ location \in Locations
             /\ \/ next = "reading" /\ after \in 1..Len(Configured)
                \/ next = "done" /\ after = Len(Configured) + 1
  BY <1>0, <1>1, <1>4, LengthFacts DEF PublishLoop, PublishState
<1> HIDE DEF next, after, location
<1>5. ASSUME publish[p].phase = "reading", NEW b \in SUBSET Finding, NEW u \in SUBSET Locations,
             NEW s, s = [publish[p] EXCEPT !.phase = next, !.at = after, !.byResource = b, !.unread = u]
      PROVE  s \in PublishState /\ PublishLoop(s)
  <2>1. after \in 1..(Len(Configured) + 1) /\ next \in {"reading", "done"} BY <1>1, <1>4, <1>5
  <2>2. s \in PublishState BY <1>0, <1>5, <2>1 DEF PublishState
  <2>3. s.phase = next /\ s.at = after BY <1>0, <1>5 DEF PublishState
  <2> QED BY <1>1, <1>4, <1>5, <2>2, <2>3 DEF PublishLoop
<1>6. CASE ReadLocation(p)
  <2> DEFINE b == publish[p].byResource \cup Holds(location)
             s == [publish[p] EXCEPT !.phase = next, !.at = after, !.byResource = b,
                                     !.unread = publish[p].unread]
  <2>1. publish[p].phase = "reading" BY <1>6 DEF ReadLocation
  <2>2. publish' = [publish EXCEPT ![p] = s]
    BY <1>0, <1>6 DEF ReadLocation, Collected, PublishState, next, after, location
  <2>3. b \in SUBSET Finding BY <1>0, <1>4, <2>1 DEF Holds, TypeInv, TypeOK, PublishState
  <2>4. publish[p].unread \in SUBSET Locations BY <1>0 DEF PublishState
  <2>5. s \in PublishState /\ PublishLoop(s)
    <3> HIDE DEF b
    <3> QED BY <1>5, <2>1, <2>3, <2>4
  <2> QED BY <2>2, <2>5
<1>7. CASE ReadLocationFails(p)
  <2> DEFINE u == publish[p].unread \cup {location}
             s == [publish[p] EXCEPT !.phase = next, !.at = after,
                                     !.byResource = publish[p].byResource, !.unread = u]
  <2>1. publish[p].phase = "reading" BY <1>7 DEF ReadLocationFails
  <2>2. publish' = [publish EXCEPT ![p] = s]
    BY <1>0, <1>7 DEF ReadLocationFails, PublishState, next, after, location
  <2>3. u \in SUBSET Locations BY <1>0, <1>4, <2>1 DEF PublishState
  <2>4. publish[p].byResource \in SUBSET Finding BY <1>0 DEF PublishState
  <2>5. s \in PublishState /\ PublishLoop(s)
    <3> HIDE DEF u
    <3> QED BY <1>5, <2>1, <2>3, <2>4
  <2> QED BY <2>2, <2>5
<1> QED BY <1>3, <1>6, <1>7 DEF PublishNext

LEMMA CheckType ==
    ASSUME DiscoveryAssumption, TypeInv, NEW k \in Checks, CheckNext(k)
    PROVE  ChecksOK'
<1>0. check[k] \in CheckState /\ registry \in Snapshot BY TypeParts DEF ChecksOK, WorldOK
<1>1. CASE FetchPolicyRegistry(k)
  <2> DEFINE s == [check[k] EXCEPT !.phase = "registry", !.registry = registry]
  <2>1. check' = [check EXCEPT ![k] = s] BY <1>1 DEF FetchPolicyRegistry
  <2>2. s \in CheckState BY <1>0 DEF CheckState
  <2> QED BY <2>1, <2>2, TypeParts DEF ChecksOK
<1>2. CASE ValidateManifest(k)
  <2>1. PICK verdict \in [Models -> SUBSET Rules] :
            check' = [check EXCEPT ![k] = [check[k] EXCEPT !.phase = "done", !.violations = verdict]]
    BY <1>2 DEF ValidateManifest
  <2> DEFINE s == [check[k] EXCEPT !.phase = "done", !.violations = verdict]
  <2>2. s \in CheckState BY <1>0 DEF CheckState
  <2> QED BY <2>1, <2>2, TypeParts DEF ChecksOK
<1> QED BY <1>1, <1>2 DEF CheckNext

\* The rows of a finding are counted once each.
LEMMA MatchingFacts ==
    ASSUME DiscoveryAssumption, NEW rows, rows \subseteq Rows, NEW column, NEW json, NEW pattern
    PROVE  LET matching == Matching(rows, column, json, pattern)
           IN  /\ matching \subseteq rows /\ IsFiniteSet(matching)
               /\ Cardinality(matching) \in 0..Cardinality(Rows)
               /\ Cardinality(matching) = 0 <=> matching = {}
<1> DEFINE matching == Matching(rows, column, json, pattern)
<1>1. matching \subseteq rows BY DEF Matching
<1>2. IsFiniteSet(Rows) BY DEF DiscoveryAssumption, WorldAssumption
<1> HIDE DEF matching
<1>3. /\ IsFiniteSet(matching) /\ Cardinality(matching) <= Cardinality(Rows)
      /\ Cardinality(Rows) \in Nat /\ Cardinality(matching) \in Nat
  BY <1>1, <1>2, FS_Subset, FS_CardinalityType
<1>4. Cardinality(matching) = 0 <=> matching = {} BY <1>3, FS_EmptySet
<1> QED BY <1>1, <1>3, <1>4 DEF matching

\* What a finding says.
LEMMA GhostFacts ==
    ASSUME DiscoveryAssumption, NEW q, NEW d, NEW columns, NEW rows, rows \subseteq Rows,
           NEW g \in GhostsIn(q, d, columns, rows)
    PROVE  /\ g.resource = q /\ g.column \in columns \ Known(d)
           /\ g.json \in BOOLEAN /\ g.pattern \in Enabled(d)
           /\ g.count = Cardinality(Matching(rows, g.column, g.json, g.pattern))
           /\ g.count \in 1..Cardinality(Rows)
           /\ g = [resource |-> q, column |-> g.column, json |-> g.json, pattern |-> g.pattern,
                   count |-> g.count]
<1>1. PICK column \in columns \ Known(d), json \in BOOLEAN, pattern \in Enabled(d) :
          g = [resource |-> q, column |-> column, json |-> json, pattern |-> pattern,
               count |-> Cardinality(Matching(rows, column, json, pattern))]
  BY DEF GhostsIn, Counts
<1> DEFINE n == Cardinality(Matching(rows, column, json, pattern))
<1>2. n \in 0..Cardinality(Rows) /\ g.count = n BY <1>1, MatchingFacts
<1>3. g.count > 0 BY DEF GhostsIn
<1>4. n \in 1..Cardinality(Rows)
  <2>1. Cardinality(Rows) \in Nat BY FS_CardinalityType DEF DiscoveryAssumption, WorldAssumption
  <2> HIDE DEF n
  <2> QED BY <1>2, <1>3, <2>1
<1> HIDE DEF n
<1>5. g = [resource |-> q, column |-> column, json |-> json, pattern |-> pattern, count |-> n]
  BY <1>1 DEF n
<1>6. /\ g.resource = q /\ g.column = column /\ g.json = json /\ g.pattern = pattern
      /\ g.count = n
  BY <1>5
<1> QED BY <1>4, <1>5, <1>6 DEF n

LEMMA GhostsType ==
    ASSUME DiscoveryAssumption, NEW q \in Resources, NEW d \in Declaration,
           NEW columns \in SUBSET Columns, NEW rows \in SUBSET Rows
    PROVE  GhostsIn(q, d, columns, rows) \subseteq Ghost
<1> SUFFICES ASSUME NEW g \in GhostsIn(q, d, columns, rows) PROVE g \in Ghost OBVIOUS
<1>1. Enabled(d) \subseteq Patterns BY DEF Enabled, Declaration
<1>2. g.column \in Columns /\ g.pattern \in Patterns BY <1>1, GhostFacts
<1> QED BY <1>2, GhostFacts DEF Ghost

LEMMA SamplesFact ==
    ASSUME NEW d, NEW rows, NEW sample \in Samples(d, rows)
    PROVE  /\ sample \subseteq rows
           /\ d.full \/ Cardinality(rows) <= SampleLimit => sample = rows
BY DEF Samples

LEMMA ScanType ==
    ASSUME DiscoveryAssumption, TypeInv, NEW s \in Scans, ScanNext(s)
    PROVE  ScansOK'
<1>0. /\ scan[s] \in ScanState /\ ScanLoop(scan[s]) /\ registry \in Snapshot
      /\ tables \in [Resources -> Table \cup {NoTable}]
  BY TypeParts DEF ScansOK, WorldOK
<1>1. SUFFICES \E state \in ScanState :
                   ScanLoop(state) /\ scan' = [scan EXCEPT ![s] = state]
  BY TypeParts DEF ScansOK
<1>2. CASE StartScan(s)
  <2> DEFINE snapshot == [q \in Resources |->
                 IF q \in Declared /\ registry[q].scanned THEN registry[q] ELSE Undeclared]
             todo == {q \in Declared : registry[q].scanned}
             state == [scan[s] EXCEPT !.phase = "scanning", !.registry = snapshot, !.todo = todo]
  <2>1. scan' = [scan EXCEPT ![s] = state] BY <1>2 DEF StartScan
  <2>2. snapshot \in Snapshot BY <1>0 DEF Snapshot
  <2>3. todo \subseteq Resources /\ \A q \in todo : snapshot[q] # Undeclared BY DEF Declared
  <2> HIDE DEF snapshot, todo
  <2>4. state \in ScanState BY <1>0, <2>2, <2>3 DEF ScanState
  <2>5. ScanLoop(state) BY <1>0, <2>3 DEF ScanLoop, ScanState
  <2> QED BY <2>1, <2>4, <2>5
<1>3. ASSUME NEW q \in Resources, NEW sample \in SUBSET Rows, ScanTable(s, q, sample)
      PROVE  \E state \in ScanState : ScanLoop(state) /\ scan' = [scan EXCEPT ![s] = state]
  <2> DEFINE new == GhostsIn(q, scan[s].registry[q], tables[q].columns, sample)
             state == [scan[s] EXCEPT !.todo = scan[s].todo \ {q},
                                      !.findings = scan[s].findings \cup new]
  <2>1. scan' = [scan EXCEPT ![s] = state] BY <1>3 DEF ScanTable
  <2>2. q \in scan[s].todo /\ tables[q] # NoTable /\ scan[s].phase = "scanning"
    BY <1>3 DEF ScanTable
  <2>3. scan[s].registry[q] \in Declaration
    BY <1>0, <2>2, SnapshotFact DEF ScanLoop, ScanState
  <2>4. new \subseteq Ghost BY <2>2, <2>3, TablesType, GhostsType
  <2> HIDE DEF new
  <2>5. state \in ScanState BY <1>0, <2>4 DEF ScanState
  <2>6. ScanLoop(state) BY <1>0, <2>2 DEF ScanLoop, ScanState
  <2> QED BY <2>1, <2>5, <2>6
<1>4. CASE ScanRaises(s)
  <2> DEFINE state == [scan[s] EXCEPT !.phase = "failed"]
  <2>1. scan' = [scan EXCEPT ![s] = state] BY <1>4 DEF ScanRaises
  <2>2. state \in ScanState /\ ScanLoop(state) BY <1>0 DEF ScanState, ScanLoop
  <2> QED BY <2>1, <2>2
<1>5. CASE ScanEnds(s)
  <2> DEFINE state == [scan[s] EXCEPT !.phase = "done"]
  <2>1. scan' = [scan EXCEPT ![s] = state] BY <1>5 DEF ScanEnds
  <2>2. state \in ScanState /\ ScanLoop(state) BY <1>0 DEF ScanState, ScanLoop
  <2> QED BY <2>1, <2>2
<1> QED BY <1>2, <1>3, <1>4, <1>5 DEF ScanNext

LEMMA NextType ==
    ASSUME DiscoveryAssumption, TypeInv, [Next]_vars
    PROVE  TypeInv'
<1> SUFFICES WorldOK' /\ CrawlsOK' /\ ScansOK' /\ PublicationsOK' /\ ChecksOK'
  <2>1. TypeInv' <=> WorldOK' /\ CrawlsOK' /\ ScansOK' /\ PublicationsOK' /\ ChecksOK'
    BY DEF TypeInv, TypeOK, LoopsSound, WorldOK, CrawlsOK, ScansOK, PublicationsOK, ChecksOK
  <2> QED BY <2>1
<1>0. /\ WorldOK /\ CrawlsOK /\ ScansOK /\ PublicationsOK /\ ChecksOK BY TypeParts
<1>1. UNCHANGED crawl => CrawlsOK' BY <1>0 DEF CrawlsOK
<1>2. UNCHANGED scan => ScansOK' BY <1>0 DEF ScansOK
<1>3. UNCHANGED publish => PublicationsOK' BY <1>0 DEF PublicationsOK
<1>4. UNCHANGED check => ChecksOK' BY <1>0 DEF ChecksOK
<1>5. CASE UNCHANGED vars
  <2>1. WorldOK' BY <1>0, <1>5 DEF vars, world, history, WorldOK, HistoryOK
  <2> QED BY <1>1, <1>2, <1>3, <1>4, <1>5, <2>1 DEF vars
<1>6. CASE OutsideStep BY <1>1, <1>2, <1>3, <1>4, <1>6, OutsideType DEF OutsideStep
<1>7. ASSUME NEW c \in Crawls, CrawlStep(c)
      PROVE  WorldOK' /\ CrawlsOK' /\ ScansOK' /\ PublicationsOK' /\ ChecksOK'
  BY <1>2, <1>3, <1>4, <1>7, Kinds, PassType, CrawlType DEF CrawlStep
<1>8. ASSUME NEW s \in Scans, ScanStep(s)
      PROVE  WorldOK' /\ CrawlsOK' /\ ScansOK' /\ PublicationsOK' /\ ChecksOK'
  BY <1>1, <1>3, <1>4, <1>8, Kinds, PassType, ScanType DEF ScanStep
<1>9. ASSUME NEW p \in Publications, PublishStep(p)
      PROVE  WorldOK' /\ CrawlsOK' /\ ScansOK' /\ PublicationsOK' /\ ChecksOK'
  BY <1>1, <1>2, <1>4, <1>9, Kinds, PassType, PublishType DEF PublishStep
<1>10. ASSUME NEW k \in Checks, CheckStep(k)
       PROVE  WorldOK' /\ CrawlsOK' /\ ScansOK' /\ PublicationsOK' /\ ChecksOK'
  BY <1>1, <1>2, <1>3, <1>10, Kinds, PassType, CheckType DEF CheckStep
<1> QED
  BY <1>5, <1>6, <1>7, <1>8, <1>9, <1>10
     DEF Next, CrawlStep, ScanStep, PublishStep, CheckStep, OutsideStep

LEMMA Constants == DiscoveryAssumption
BY WorldAssumption, CrawlAssumption, ScanAssumption, PublishAssumption, PolicyAssumption
   DEF DiscoveryAssumption

\* Every step of any number of passes of the four kinds, and of the world that
\* changes under them, keeps the types.
THEOREM TypeCorrect == Spec => []TypeOK
<1>1. Init => TypeInv BY Constants, InitType
<1>2. TypeInv /\ [Next]_vars => TypeInv' BY Constants, NextType
<1>3. TypeInv => TypeOK BY DEF TypeInv
<1> QED BY <1>1, <1>2, <1>3, PTL DEF Spec

-----------------------------------------------------------------------------
(* The metadata crawl                                                      *)

\* The turns in which crawl c has read the columns of q.
Reached(c, q) == {i \in Turns(q) : i < crawl[c].at}

\* What crawl c has of a resource that is left alone is what is there.
CrawlAgrees(c, q) ==
    /\ crawl[c].registry[q] = registry[q]
    /\ crawl[c].phase = "columns" =>
          (q \in crawl[c].listed <=> q \in InDataset(c) /\ tables[q] # NoTable)
    /\ \A t \in crawl[c].found :
          t.resource = q => /\ t.columns = tables[q].columns /\ tables[q] # NoTable
                            /\ t.turn \in Reached(c, q)
    /\ tables[q] # NoTable => \A i \in Reached(c, q) :
          [turn |-> i, resource |-> q, columns |-> tables[q].columns] \in crawl[c].found

CrawlSound(c) ==
    crawl[c].phase \in {"tables", "columns", "done"} =>
        /\ \A q \in Resources : ColumnsOf(q) \in seen[c][q]
        /\ \A t \in crawl[c].found : t.columns \in seen[c][t.resource]
        /\ \A q \in Resources \ disturbed[c] : CrawlAgrees(c, q)

CrawlInv == \A c \in Crawls : CrawlSound(c)

LEMMA BeginFacts ==
    ASSUME TypeInv, NEW p \in Passes, Begins(p)
    PROVE  /\ disturbed'[p] = {}
           /\ \A q \in Resources : seen'[p][q] = {ColumnsOf(q)}
           /\ \A l \in Locations : held'[p][l] = {Holds(l)}
BY DEF Begins, TypeInv, TypeOK, HistoryOK

LEMMA CrawlKept ==
    ASSUME TypeInv, NEW c \in Crawls, CrawlSound(c), Watched(c), crawl'[c] = crawl[c]
    PROVE  CrawlSound(c)'
<1> SUFFICES ASSUME crawl[c].phase \in {"tables", "columns", "done"} PROVE CrawlSound(c)'
  BY DEF CrawlSound
<1>1. \A q \in Resources : ColumnsOf(q)' \in seen'[c][q] BY DEF CrawlSound, Watched
<1>2. \A t \in crawl[c].found : t.columns \in seen'[c][t.resource]
  <2>1. \A t \in crawl[c].found : t.resource \in Resources
    BY DEF TypeInv, TypeOK, CrawlState, Discovered
  <2> QED BY <2>1 DEF CrawlSound, Watched
<1>3. ASSUME NEW q \in Resources \ disturbed'[c] PROVE CrawlAgrees(c, q)'
  <2>1. /\ q \notin disturbed[c] /\ registry'[q] = registry[q] /\ tables'[q] = tables[q]
    BY DEF Watched
  <2>2. CrawlAgrees(c, q) BY <2>1 DEF CrawlSound
  <2>3. InDataset(c)' = InDataset(c) /\ Reached(c, q)' = Reached(c, q) BY DEF InDataset, Reached
  <2> QED BY <2>1, <2>2, <2>3 DEF CrawlAgrees
<1> QED BY <1>1, <1>2, <1>3 DEF CrawlSound

LEMMA CrawlOwn ==
    ASSUME DiscoveryAssumption, TypeInv, NEW c \in Crawls, CrawlSound(c), CrawlNext(c)
    PROVE  CrawlSound(c)'
<1>0. /\ crawl \in [Crawls -> CrawlState] /\ crawl[c] \in CrawlState /\ CrawlLoop(crawl[c])
      /\ c \in Passes
  BY TypeParts, Kinds DEF CrawlsOK
<1>1. CASE FetchRegistry(c)
  <2>1. /\ crawl'[c].registry = registry /\ crawl'[c].found = {} /\ crawl'[c].at = 1
        /\ crawl'[c].phase \in {"tables", "done"} /\ UNCHANGED <<registry, tables>>
    BY <1>0, <1>1 DEF FetchRegistry, CrawlLoop, IdleCrawl, CrawlState, world
  <2>2. \A q \in Resources : seen'[c][q] = {ColumnsOf(q)} /\ ColumnsOf(q)' = ColumnsOf(q)
    BY <1>0, <1>1, <2>1, BeginFacts DEF FetchRegistry, ColumnsOf
  <2>3. \A q \in Resources : Reached(c, q)' = {} BY <2>1, LengthFacts DEF Reached, Turns
  <2>4. \A q \in Resources : CrawlAgrees(c, q)' BY <2>1, <2>3 DEF CrawlAgrees
  <2> QED BY <2>1, <2>2, <2>4 DEF CrawlSound
<1>2. CASE QueryTables(c)
  <2>1. /\ crawl[c].phase = "tables" /\ crawl'[c].phase = "columns"
        /\ crawl'[c].registry = crawl[c].registry /\ crawl'[c].at = crawl[c].at
        /\ crawl'[c].found = crawl[c].found
        /\ crawl'[c].listed = {q \in InDataset(c) : tables[q] # NoTable}
        /\ UNCHANGED <<registry, tables, disturbed, seen>>
    BY <1>0, <1>2 DEF QueryTables, CrawlState, world, history
  <2>2. InDataset(c)' = InDataset(c) BY <2>1 DEF InDataset
  <2>3. \A q \in Resources : Reached(c, q)' = Reached(c, q) /\ ColumnsOf(q)' = ColumnsOf(q)
    BY <2>1 DEF Reached, ColumnsOf
  <2>4. ASSUME NEW q \in Resources \ disturbed[c] PROVE CrawlAgrees(c, q)'
    BY <2>1, <2>2, <2>3 DEF CrawlSound, CrawlAgrees
  <2> QED BY <2>1, <2>3, <2>4 DEF CrawlSound
<1>3. CASE QueryColumns(c)
  <2> DEFINE new == Discoveries(c)
             now == crawl[c].at
  <2>1. /\ crawl[c].phase = "columns" /\ crawl'[c].phase \in {"tables", "done"}
        /\ crawl'[c].registry = crawl[c].registry /\ crawl'[c].at = crawl[c].at + 1
        /\ crawl'[c].found = crawl[c].found \cup new
        /\ UNCHANGED <<registry, tables, disturbed, seen>>
    BY <1>0, <1>3 DEF QueryColumns, NextDataset, CrawlState, world, history
  <2>2. crawl[c].listed \subseteq Resources BY <1>0 DEF CrawlState
  <2>3. \A q \in Resources : ColumnsOf(q)' = ColumnsOf(q) BY <2>1 DEF ColumnsOf
  <2>4. \A t \in new : /\ t.resource \in crawl[c].listed \ Excluded /\ t.turn = now
                       /\ t.columns = ColumnsOf(t.resource)
    BY DEF Discoveries
  <2>5. \A q \in crawl[c].listed \ Excluded :
            [turn |-> now, resource |-> q, columns |-> ColumnsOf(q)] \in new
    BY DEF Discoveries
  <2> HIDE DEF new
  <2>6. now \in 1..Len(Datasets) /\ DOMAIN Datasets = 1..Len(Datasets) /\ Len(Datasets) \in Nat
    BY <1>0, <2>1, LengthFacts DEF CrawlState, CrawlLoop
  <2>7. \A q \in Resources : Reached(c, q)' =
            Reached(c, q) \cup (IF q \in InDataset(c) \ Excluded THEN {now} ELSE {})
    BY <2>1, <2>6 DEF Reached, InDataset, Turns
  <2>8. ASSUME NEW q \in Resources \ disturbed[c] PROVE CrawlAgrees(c, q)'
    <3>1. CrawlAgrees(c, q) BY <2>1 DEF CrawlSound
    <3>2. q \in crawl[c].listed <=> q \in InDataset(c) /\ tables[q] # NoTable
      BY <2>1, <3>1 DEF CrawlAgrees
    <3>3. ASSUME NEW t \in crawl'[c].found, t.resource = q
          PROVE  t.columns = tables[q].columns /\ tables[q] # NoTable /\ t.turn \in Reached(c, q)'
      <4>1. CASE t \in crawl[c].found BY <2>7, <3>1, <3>3, <4>1 DEF CrawlAgrees
      <4>2. CASE t \in new BY <2>4, <2>7, <3>2, <3>3, <4>2 DEF ColumnsOf
      <4> QED BY <2>1, <4>1, <4>2
    <3>4. ASSUME NEW i \in Reached(c, q)', tables[q] # NoTable
          PROVE  [turn |-> i, resource |-> q, columns |-> tables[q].columns] \in crawl'[c].found
      <4>1. CASE i \in Reached(c, q) BY <2>1, <3>1, <3>4, <4>1 DEF CrawlAgrees
      <4>2. CASE i = now /\ q \in InDataset(c) /\ q \notin Excluded
        <5>1. ColumnsOf(q) = tables[q].columns BY <3>4 DEF ColumnsOf
        <5> QED BY <2>1, <2>5, <3>2, <3>4, <4>2, <5>1
      <4> QED BY <2>7, <3>4, <4>1, <4>2
    <3> QED BY <2>1, <3>1, <3>3, <3>4 DEF CrawlAgrees
  <2>9. \A t \in crawl'[c].found : t.columns \in seen'[c][t.resource]
    BY <2>1, <2>2, <2>4 DEF CrawlSound
  <2> QED BY <2>1, <2>3, <2>8, <2>9 DEF CrawlSound
<1>4. CASE CrawlFails(c)
  <2>1. crawl'[c].phase = "failed" BY <1>0, <1>4 DEF CrawlFails, IdleCrawl
  <2> QED BY <2>1 DEF CrawlSound
<1> QED BY <1>1, <1>2, <1>3, <1>4 DEF CrawlNext

LEMMA InitCrawl ==
    ASSUME Init
    PROVE  CrawlInv
BY DEF Init, CrawlInv, CrawlSound, IdleCrawl

LEMMA NextCrawl ==
    ASSUME DiscoveryAssumption, TypeInv, CrawlInv, [Next]_vars
    PROVE  CrawlInv'
<1> SUFFICES ASSUME NEW c \in Crawls PROVE CrawlSound(c)' BY DEF CrawlInv
<1>1. CrawlSound(c) BY DEF CrawlInv
<1>2. CrawlNext(c) \/ Elsewhere(c) BY Kinds, StepsOf
<1> QED BY <1>1, <1>2, CrawlKept, CrawlOwn DEF Elsewhere

\* The two sides of compare_table_to_registry.
LEMMA SameStatus ==
    ASSUME NEW q \in Resources, NEW i
    PROVE  Reference(i, q) = [turn |-> i, resource |-> q, columns |-> tables[q].columns,
                              status |-> Status(registry[q], tables[q].columns)]
BY DEF Reference, Status, Declared

LEMMA RightFromSound ==
    ASSUME DiscoveryAssumption, TypeInv, CrawlInv
    PROVE  CrawlRight
<1> SUFFICES ASSUME NEW c \in Crawls, crawl[c].phase = "done", NEW q \in Resources \ disturbed[c]
             PROVE  {t \in Diffs(c) : t.resource = q} =
                        IF tables[q] = NoTable THEN {} ELSE {Reference(i, q) : i \in Turns(q)}
  BY DEF CrawlRight
<1>1. CrawlAgrees(c, q) BY DEF CrawlInv, CrawlSound
<1>2. Reached(c, q) = Turns(q)
  <2>1. crawl[c].at = Len(Datasets) + 1 BY TypeParts DEF CrawlsOK, CrawlLoop
  <2> QED BY <2>1, LengthFacts DEF Reached, Turns
<1> DEFINE diff(t) == [turn |-> t.turn, resource |-> t.resource, columns |-> t.columns,
                       status |-> Status(crawl[c].registry[t.resource], t.columns)]
<1>3. \A t \in crawl[c].found : t.resource = q =>
          diff(t) = Reference(t.turn, q) /\ t.turn \in Turns(q) /\ tables[q] # NoTable
  BY <1>1, <1>2, SameStatus DEF CrawlAgrees
<1>4. tables[q] # NoTable => \A i \in Turns(q) :
          \E t \in crawl[c].found : t.resource = q /\ t.turn = i
  <2>1. ASSUME tables[q] # NoTable, NEW i \in Turns(q)
        PROVE  \E t \in crawl[c].found : t.resource = q /\ t.turn = i
    <3> DEFINE t == [turn |-> i, resource |-> q, columns |-> tables[q].columns]
    <3>1. t \in crawl[c].found BY <1>1, <1>2, <2>1 DEF CrawlAgrees
    <3>2. t.resource = q /\ t.turn = i OBVIOUS
    <3> QED BY <3>1, <3>2
  <2> QED BY <2>1
<1>5. \A t : diff(t).resource = t.resource OBVIOUS
<1>6. Diffs(c) = {diff(t) : t \in crawl[c].found} BY DEF Diffs
<1> HIDE DEF diff
<1>7. \A u \in Diffs(c) : u.resource = q =>
          tables[q] # NoTable /\ \E i \in Turns(q) : u = Reference(i, q)
  BY <1>3, <1>5, <1>6
<1>8. tables[q] # NoTable => \A i \in Turns(q) :
          Reference(i, q) \in Diffs(c) /\ Reference(i, q).resource = q
  <2>1. ASSUME tables[q] # NoTable, NEW i \in Turns(q)
        PROVE  Reference(i, q) \in Diffs(c) /\ Reference(i, q).resource = q
    <3>1. PICK t \in crawl[c].found : t.resource = q /\ t.turn = i BY <1>4, <2>1
    <3>2. diff(t) = Reference(i, q) BY <1>3, <3>1
    <3> QED BY <1>5, <1>6, <3>1, <3>2
  <2> QED BY <2>1
<1>9. ASSUME tables[q] # NoTable
      PROVE  {t \in Diffs(c) : t.resource = q} = {Reference(i, q) : i \in Turns(q)}
  <2> DEFINE reported == {t \in Diffs(c) : t.resource = q}
             right == {Reference(i, q) : i \in Turns(q)}
  <2>1. ASSUME NEW u \in reported PROVE u \in right BY <1>7, <2>1
  <2>2. ASSUME NEW i \in Turns(q) PROVE Reference(i, q) \in reported BY <1>8, <1>9
  <2>3. \A u \in right : u \in reported BY <2>2
  <2> HIDE DEF reported, right
  <2>4. reported = right BY <2>1, <2>3
  <2> QED BY <2>4 DEF reported, right
<1>10. tables[q] = NoTable => {t \in Diffs(c) : t.resource = q} = {} BY <1>7
<1> QED BY <1>9, <1>10

LEMMA WitnessedFromSound ==
    ASSUME TypeInv, CrawlInv
    PROVE  VerdictWitnessed
<1> SUFFICES ASSUME NEW c \in Crawls, crawl[c].phase = "done", NEW u \in crawl[c].found,
                    NEW t, t = [turn |-> u.turn, resource |-> u.resource, columns |-> u.columns,
                                status |-> Status(crawl[c].registry[u.resource], u.columns)]
             PROVE  LET expected == crawl[c].registry[t.resource].columns
                    IN  CASE t.status = "REGISTERED" -> expected \in seen[c][t.resource]
                          [] t.status = "DRIFTED" -> seen[c][t.resource] # {expected}
                          [] OTHER -> crawl[c].registry[t.resource] = Undeclared
  BY DEF VerdictWitnessed, Diffs
<1> DEFINE d == crawl[c].registry[u.resource]
<1>1. u.columns \in seen[c][u.resource] BY DEF CrawlInv, CrawlSound
<1>2. t.resource = u.resource /\ t.status = Status(d, u.columns) OBVIOUS
<1>3. CASE d = Undeclared
  <2>1. t.status = "UNREGISTERED" BY <1>2, <1>3 DEF Status
  <2> QED BY <1>2, <1>3, <2>1
<1>4. CASE d # Undeclared /\ u.columns = d.columns
  <2>1. t.status = "REGISTERED" BY <1>2, <1>4 DEF Status
  <2> QED BY <1>1, <1>2, <1>4, <2>1
<1>5. CASE d # Undeclared /\ u.columns # d.columns
  <2>1. t.status = "DRIFTED" BY <1>2, <1>5 DEF Status
  <2>2. seen[c][u.resource] # {d.columns} BY <1>1, <1>5
  <2> QED BY <1>2, <2>1, <2>2
<1> QED BY <1>3, <1>4, <1>5

\* A crawl reports each table that is left alone once for each time its dataset
\* is listed, and rightly, and no table that is not there, for any datasets and
\* any number of changes to other tables in between its queries.
THEOREM CrawlCorrect == Spec => []CrawlRight
<1>1. Init => TypeInv /\ CrawlInv BY Constants, InitType, InitCrawl
<1>2. TypeInv /\ CrawlInv /\ [Next]_vars => (TypeInv /\ CrawlInv)'
  BY Constants, NextType, NextCrawl
<1>3. TypeInv /\ CrawlInv => CrawlRight BY Constants, RightFromSound
<1> QED BY <1>1, <1>2, <1>3, PTL DEF Spec

\* What a crawl says of a table that changes under it was so at some moment of
\* the crawl.
THEOREM VerdictsCorrect == Spec => []VerdictWitnessed
<1>1. Init => TypeInv /\ CrawlInv BY Constants, InitType, InitCrawl
<1>2. TypeInv /\ CrawlInv /\ [Next]_vars => (TypeInv /\ CrawlInv)'
  BY Constants, NextType, NextCrawl
<1>3. TypeInv /\ CrawlInv => VerdictWitnessed BY WitnessedFromSound
<1> QED BY <1>1, <1>2, <1>3, PTL DEF Spec

-----------------------------------------------------------------------------
(* The dbt findings                                                        *)

\* Publication p has queried location l.
Queried(p, l) == \E i \in 1..(publish[p].at - 1) : Configured[i] = l

\* What publication p has collected comes from the locations it has queried,
\* and all that they hold all along is in it, or the query failed.
PublishSound(p) ==
    publish[p].phase \in {"reading", "done"} =>
        /\ \A l \in Locations : Holds(l) \in held[p][l]
        /\ \A l \in Locations : Queried(p, l) =>
              \/ l \in publish[p].unread
              \/ \E findings \in held[p][l] : findings \subseteq publish[p].byResource
        /\ \A f \in publish[p].byResource :
              \E l \in Locations : Queried(p, l) /\ \E findings \in held[p][l] : f \in findings

PublishInv == \A p \in Publications : PublishSound(p)

LEMMA PublishKept ==
    ASSUME TypeInv, NEW p \in Publications, PublishSound(p), Watched(p), publish'[p] = publish[p]
    PROVE  PublishSound(p)'
<1> SUFFICES ASSUME publish[p].phase \in {"reading", "done"} PROVE PublishSound(p)'
  BY DEF PublishSound
<1>1. \A l \in Locations : held[p][l] \subseteq held'[p][l] /\ Holds(l)' \in held'[p][l]
  BY DEF PublishSound, Watched
<1>2. \A l \in Locations : Queried(p, l)' = Queried(p, l) BY DEF Queried
<1> QED BY <1>1, <1>2 DEF PublishSound

LEMMA PublishOwn ==
    ASSUME DiscoveryAssumption, TypeInv, NEW p \in Publications, PublishSound(p), PublishNext(p)
    PROVE  PublishSound(p)'
<1>0. /\ publish \in [Publications -> PublishState] /\ publish[p] \in PublishState
      /\ PublishLoop(publish[p]) /\ p \in Passes
  BY TypeParts, Kinds DEF PublicationsOK
<1>1. CASE StartPublish(p)
  <2>1. /\ publish'[p].byResource = {} /\ publish'[p].at = 1 /\ UNCHANGED built
    BY <1>0, <1>1 DEF StartPublish, PublishLoop, IdlePublish, PublishState, world
  <2>2. \A l \in Locations : held'[p][l] = {Holds(l)} /\ Holds(l)' = Holds(l)
    BY <1>0, <1>1, <2>1, BeginFacts DEF StartPublish, Holds
  <2>3. \A l \in Locations : ~Queried(p, l)' BY <2>1 DEF Queried
  <2> QED BY <2>1, <2>2, <2>3 DEF PublishSound
<1> DEFINE location == Configured[publish[p].at]
<1>2. ASSUME publish[p].phase = "reading", publish'[p].at = publish[p].at + 1
      PROVE  /\ location \in Locations
             /\ \A l \in Locations : Queried(p, l)' <=> Queried(p, l) \/ l = location
  <2>1. publish[p].at \in 1..Len(Configured)
    BY <1>0, <1>2, LengthFacts DEF PublishLoop, PublishState
  <2>2. location \in Locations BY <2>1, LengthFacts
  <2> QED BY <1>2, <2>1, <2>2 DEF Queried
<1> HIDE DEF location
<1>3. CASE ReadLocation(p)
  <2>1. /\ publish[p].phase = "reading" /\ publish'[p].at = publish[p].at + 1
        /\ publish'[p].byResource = publish[p].byResource \cup Holds(location)
        /\ publish'[p].unread = publish[p].unread
        /\ UNCHANGED <<built, held>>
    BY <1>0, <1>3 DEF ReadLocation, Collected, PublishState, world, history, location
  <2>2. \A l \in Locations : Holds(l)' = Holds(l) /\ Holds(l) \in held[p][l]
    BY <2>1 DEF Holds, PublishSound
  <2>3. \A l \in Locations : Queried(p, l)' =>
            \/ l \in publish'[p].unread
            \/ \E findings \in held'[p][l] : findings \subseteq publish'[p].byResource
    BY <1>2, <2>1, <2>2 DEF PublishSound
  <2>4. ASSUME NEW f \in publish'[p].byResource
        PROVE  \E l \in Locations : Queried(p, l)' /\ \E findings \in held'[p][l] : f \in findings
    <3>1. CASE f \in Holds(location) BY <1>2, <2>1, <2>2, <3>1
    <3>2. CASE f \in publish[p].byResource BY <1>2, <2>1, <3>2 DEF PublishSound
    <3> QED BY <2>1, <2>4, <3>1, <3>2
  <2> QED BY <2>1, <2>2, <2>3, <2>4 DEF PublishSound
<1>4. CASE ReadLocationFails(p)
  <2>1. /\ publish[p].phase = "reading" /\ publish'[p].at = publish[p].at + 1
        /\ publish'[p].byResource = publish[p].byResource
        /\ publish'[p].unread = publish[p].unread \cup {location}
        /\ UNCHANGED <<built, held>>
    BY <1>0, <1>4 DEF ReadLocationFails, PublishState, world, history, location
  <2>2. \A l \in Locations : Holds(l)' = Holds(l) BY <2>1 DEF Holds
  <2> QED BY <1>2, <2>1, <2>2 DEF PublishSound
<1> QED BY <1>1, <1>3, <1>4 DEF PublishNext

LEMMA NextPublish ==
    ASSUME DiscoveryAssumption, TypeInv, PublishInv, [Next]_vars
    PROVE  PublishInv'
<1> SUFFICES ASSUME NEW p \in Publications PROVE PublishSound(p)' BY DEF PublishInv
<1>1. PublishSound(p) BY DEF PublishInv
<1>2. PublishNext(p) \/ Elsewhere(p) BY Kinds, StepsOf
<1> QED BY <1>1, <1>2, PublishKept, PublishOwn DEF Elsewhere

LEMMA PublishRightFromSound ==
    ASSUME DiscoveryAssumption, TypeInv, PublishInv
    PROVE  PublishRight
<1> DEFINE places == {Configured[i] : i \in DOMAIN Configured}
<1> SUFFICES ASSUME NEW p \in Publications, publish[p].phase = "done"
             PROVE  /\ \A l \in places \ publish[p].unread : \A f \in Finding :
                          (\A findings \in held[p][l] : f \in findings) => f \in publish[p].byResource
                    /\ \A f \in publish[p].byResource :
                          \E l \in places : \E findings \in held[p][l] : f \in findings
  BY DEF PublishRight
<1>1. publish[p].at = Len(Configured) + 1 BY TypeParts DEF PublicationsOK, PublishLoop
<1>2. places \subseteq Locations /\ \A l \in Locations : Queried(p, l) <=> l \in places
  BY <1>1, LengthFacts DEF Queried
<1> HIDE DEF places
<1> QED BY <1>2 DEF PublishInv, PublishSound

\* A finding that a configured location holds for the whole pass is published
\* unless its own query failed, and no other is, for any number of locations
\* and rebuilds.
THEOREM PublishCorrect == Spec => []PublishRight
<1>1. Init => TypeInv /\ PublishInv
  BY Constants, InitType DEF Init, PublishInv, PublishSound, IdlePublish
<1>2. TypeInv /\ PublishInv /\ [Next]_vars => (TypeInv /\ PublishInv)'
  BY Constants, NextType, NextPublish
<1>3. TypeInv /\ PublishInv => PublishRight BY Constants, PublishRightFromSound
<1> QED BY <1>1, <1>2, <1>3, PTL DEF Spec

-----------------------------------------------------------------------------
(* The dbt policy                                                          *)

\* A check remembers the declarations that are left alone as they are, and its
\* verdicts follow from what it remembers.
CheckSound(k) ==
    /\ check[k].phase \in {"registry", "done"} =>
          \A q \in Resources \ disturbed[k] : check[k].registry[q] = registry[q]
    /\ check[k].phase = "done" =>
          \A m \in Models : check[k].violations[m] \in Verdicts(m, check[k].registry)

CheckInv == \A k \in Checks : CheckSound(k)

LEMMA CheckOwn ==
    ASSUME DiscoveryAssumption, TypeInv, NEW k \in Checks, CheckSound(k), CheckNext(k)
    PROVE  CheckSound(k)'
<1>0. check \in [Checks -> CheckState] /\ check[k] \in CheckState BY TypeParts DEF ChecksOK
<1>1. CASE FetchPolicyRegistry(k)
  <2>1. check'[k].phase = "registry" /\ check'[k].registry = registry /\ UNCHANGED registry
    BY <1>0, <1>1 DEF FetchPolicyRegistry, CheckState, world
  <2> QED BY <2>1 DEF CheckSound
<1>2. CASE ValidateManifest(k)
  <2>1. PICK verdict \in [Models -> SUBSET Rules] :
            /\ \A m \in Models : verdict[m] \in Verdicts(m, check[k].registry)
            /\ check' = [check EXCEPT ![k] = [check[k] EXCEPT !.phase = "done", !.violations = verdict]]
    BY <1>2 DEF ValidateManifest
  <2>2. /\ check'[k].registry = check[k].registry /\ check'[k].violations = verdict
        /\ check[k].phase = "registry" /\ UNCHANGED <<registry, disturbed>>
    BY <1>0, <1>2, <2>1 DEF ValidateManifest, CheckState, world, history
  <2> QED BY <2>1, <2>2 DEF CheckSound, Verdicts, Matches
<1> QED BY <1>1, <1>2 DEF CheckNext

LEMMA NextCheck ==
    ASSUME DiscoveryAssumption, TypeInv, CheckInv, [Next]_vars
    PROVE  CheckInv'
<1> SUFFICES ASSUME NEW k \in Checks PROVE CheckSound(k)' BY DEF CheckInv
<1>1. CheckSound(k) BY DEF CheckInv
<1>2. CheckNext(k) \/ Elsewhere(k) BY Kinds, StepsOf
<1>3. CASE Elsewhere(k)
  <2>1. check'[k] = check[k] BY <1>3 DEF Elsewhere
  <2>2. \A q \in Resources \ disturbed'[k] : q \notin disturbed[k] /\ registry'[q] = registry[q]
    BY <1>3 DEF Elsewhere, Watched
  <2> QED BY <1>1, <2>1, <2>2 DEF CheckSound
<1> QED BY <1>1, <1>2, <1>3, CheckOwn

\* The rules together are compliance.
LEMMA RulesComply ==
    ASSUME NEW m, NEW d
    PROVE  Violations(m, d) = {} <=> Compliant(m, d)
<1>1. TenantScope(m, d) = {} <=> (d.tenantScoped => d.tenantColumn \in Has[m])
  BY DEF TenantScope
<1>2. CryptoShredScope(m, d) = {} <=> (d.cryptoShred => d.exempt \/ d.userColumn \in Has[m])
  BY DEF CryptoShredScope
<1>3. MartIdentifiers(m, d) = {} <=>
          \A c \in Has[m] : m \in Marts /\ c \in d.columns \cap d.direct => c \in d.inMart
  BY DEF MartIdentifiers, DirectIdentifiers
<1> QED BY <1>1, <1>2, <1>3 DEF Violations, Compliant

LEMMA PolicyRightFromSound ==
    ASSUME DiscoveryAssumption, TypeInv, CheckInv
    PROVE  PolicyRight
<1> SUFFICES ASSUME NEW k \in Checks, check[k].phase = "done",
                    NEW m \in Models, Candidates[m] \cap disturbed[k] = {}
             PROVE  LET declarations == {registry[q] : q \in {r \in Candidates[m] \cap Declared :
                                                                  registry[r].table}}
                    IN  IF check[k].violations[m] = {}
                        THEN declarations = {} \/ \E d \in declarations : Compliant(m, d)
                        ELSE \E d \in declarations : ~Compliant(m, d)
  BY DEF PolicyRight
<1>1. Candidates[m] \subseteq Resources BY DEF DiscoveryAssumption, PolicyAssumption
<1>2. \A q \in Candidates[m] : check[k].registry[q] = registry[q]
  BY <1>1 DEF CheckInv, CheckSound
<1> DEFINE going == {r \in Candidates[m] \cap Declared : registry[r].table}
<1>3. Matches(m, check[k].registry) = going
  BY <1>1, <1>2 DEF Matches, Declared
<1>4. check[k].violations[m] \in Verdicts(m, check[k].registry) BY DEF CheckInv, CheckSound
<1>5. CASE going = {}
  <2>1. check[k].violations[m] = {} BY <1>3, <1>4, <1>5 DEF Verdicts
  <2> QED BY <1>5, <2>1
<1>6. CASE going # {}
  <2>1. PICK q \in going : check[k].violations[m] = Violations(m, registry[q])
    BY <1>2, <1>3, <1>4, <1>6 DEF Verdicts
  <2> QED BY <2>1, RulesComply
<1> QED BY <1>5, <1>6

\* A model whose declarations are left alone during the check passes exactly
\* if a declaration it goes by lets it through.
THEOREM PolicyCorrect == Spec => []PolicyRight
<1>1. Init => TypeInv /\ CheckInv
  BY Constants, InitType DEF Init, CheckInv, CheckSound, IdleCheck
<1>2. TypeInv /\ CheckInv /\ [Next]_vars => (TypeInv /\ CheckInv)'
  BY Constants, NextType, NextCheck
<1>3. TypeInv /\ CheckInv => PolicyRight BY Constants, PolicyRightFromSound
<1> QED BY <1>1, <1>2, <1>3, PTL DEF Spec

-----------------------------------------------------------------------------
(* The ghost scan                                                          *)

\* Of a resource that is left alone, scan s knows the declaration if it is to
\* be scanned; has reported only what a sample of its rows holds; and has
\* reported all of one sample once it is through with it.
ScanAgrees(s, q) ==
    /\ q \in scan[s].todo => q \in Declared /\ registry[q].scanned
    /\ q \in Declared /\ registry[q].scanned => scan[s].registry[q] = registry[q]
    /\ \A g \in scan[s].findings : g.resource = q =>
          \E sample \in Samples(registry[q], tables[q].rows) :
              g \in GhostsIn(q, registry[q], tables[q].columns, sample)
    /\ (/\ q \notin scan[s].todo
        /\ q \in Declared /\ registry[q].scanned) =>
          \E sample \in Samples(registry[q], tables[q].rows) :
              GhostsIn(q, registry[q], tables[q].columns, sample) \subseteq scan[s].findings

ScanSound(s) ==
    scan[s].phase # "idle" =>
        /\ \A q \in Resources \ disturbed[s] : ScanAgrees(s, q)
        /\ scan[s].phase = "done" => scan[s].todo = {}

ScanInv == \A s \in Scans : ScanSound(s)

LEMMA ScanKept ==
    ASSUME NEW s \in Scans, ScanSound(s), Watched(s), scan'[s] = scan[s]
    PROVE  ScanSound(s)'
<1>1. ASSUME NEW q \in Resources \ disturbed'[s], scan[s].phase # "idle"
      PROVE  ScanAgrees(s, q)'
  <2>1. q \notin disturbed[s] /\ registry'[q] = registry[q] /\ tables'[q] = tables[q]
    BY DEF Watched
  <2>2. ScanAgrees(s, q) BY <1>1, <2>1 DEF ScanSound
  <2>3. q \in Declared' <=> q \in Declared BY <2>1 DEF Declared
  <2> QED BY <2>1, <2>2, <2>3 DEF ScanAgrees
<1> QED BY <1>1 DEF ScanSound

LEMMA ScanOwn ==
    ASSUME DiscoveryAssumption, TypeInv, NEW s \in Scans, ScanSound(s), ScanNext(s)
    PROVE  ScanSound(s)'
<1>0. scan \in [Scans -> ScanState] /\ scan[s] \in ScanState /\ ScanLoop(scan[s])
  BY TypeParts DEF ScansOK
<1>world. UNCHANGED <<registry, tables>> /\ \A q \in Resources : q \in Declared' <=> q \in Declared
  BY PassReads DEF Declared
<1>1. CASE StartScan(s)
  <2> DEFINE snapshot == [q \in Resources |->
                 IF q \in Declared /\ registry[q].scanned THEN registry[q] ELSE Undeclared]
             todo == {q \in Declared : registry[q].scanned}
  <2>1. \A q \in Resources :
            /\ q \in todo <=> q \in Declared /\ registry[q].scanned
            /\ q \in Declared /\ registry[q].scanned => snapshot[q] = registry[q]
    OBVIOUS
  <2>2. /\ scan' = [scan EXCEPT ![s] = [scan[s] EXCEPT !.phase = "scanning",
                                                      !.registry = snapshot, !.todo = todo]]
        /\ scan[s].phase = "idle"
    BY <1>1 DEF StartScan
  <2> HIDE DEF snapshot, todo
  <2>3. scan[s].findings = {} BY <1>0, <2>2 DEF ScanLoop, IdleScan
  <2>4. /\ scan'[s].phase = "scanning" /\ scan'[s].findings = {}
        /\ scan'[s].registry = snapshot /\ scan'[s].todo = todo
    BY <1>0, <2>2, <2>3 DEF ScanState
  <2>5. \A q \in Resources : ScanAgrees(s, q)' BY <1>world, <2>1, <2>4 DEF ScanAgrees
  <2> QED BY <2>4, <2>5 DEF ScanSound
<1>2. ASSUME NEW q \in Resources, NEW sample \in SUBSET Rows, ScanTable(s, q, sample)
      PROVE  ScanSound(s)'
  <2> DEFINE new == GhostsIn(q, scan[s].registry[q], tables[q].columns, sample)
  <2>1. /\ scan[s].phase = "scanning" /\ scan'[s].phase = "scanning"
        /\ scan'[s].registry = scan[s].registry /\ scan'[s].todo = scan[s].todo \ {q}
        /\ scan'[s].findings = scan[s].findings \cup new
        /\ UNCHANGED disturbed
    BY <1>0, <1>2 DEF ScanTable, ScanState, history
  <2>2. /\ q \in scan[s].todo /\ tables[q] # NoTable
        /\ sample \in Samples(scan[s].registry[q], tables[q].rows)
    BY <1>2 DEF ScanTable
  <2>3. \A g \in new : g.resource = q BY GhostFacts
  <2>4. ASSUME q \notin disturbed[s]
        PROVE  new = GhostsIn(q, registry[q], tables[q].columns, sample)
               /\ sample \in Samples(registry[q], tables[q].rows)
    <3>1. ScanAgrees(s, q) BY <2>1, <2>4 DEF ScanSound
    <3>2. scan[s].registry[q] = registry[q] BY <2>2, <3>1 DEF ScanAgrees
    <3> QED BY <2>2, <3>2
  <2> HIDE DEF new
  <2>5. ASSUME NEW r \in Resources \ disturbed[s]
        PROVE  ScanAgrees(s, r)'
    <3>1. ScanAgrees(s, r) BY <2>1 DEF ScanSound
    <3>2. CASE r = q BY <1>world, <2>1, <2>2, <2>3, <2>4, <3>1, <3>2 DEF ScanAgrees
    <3>3. CASE r # q BY <1>world, <2>1, <2>3, <3>1, <3>3 DEF ScanAgrees
    <3> QED BY <3>2, <3>3
  <2> QED BY <2>1, <2>5 DEF ScanSound
<1>3. CASE ScanRaises(s)
  <2>1. /\ scan[s].phase = "scanning" /\ scan'[s].phase = "failed"
        /\ scan'[s].registry = scan[s].registry /\ scan'[s].todo = scan[s].todo
        /\ scan'[s].findings = scan[s].findings /\ UNCHANGED disturbed
    BY <1>0, <1>3 DEF ScanRaises, ScanState, history
  <2>2. ASSUME NEW q \in Resources \ disturbed[s] PROVE ScanAgrees(s, q)'
    BY <1>world, <2>1 DEF ScanSound, ScanAgrees
  <2> QED BY <2>1, <2>2 DEF ScanSound
<1>4. CASE ScanEnds(s)
  <2>1. /\ scan[s].phase = "scanning" /\ scan[s].todo = {} /\ scan'[s].phase = "done"
        /\ scan'[s].registry = scan[s].registry /\ scan'[s].todo = {}
        /\ scan'[s].findings = scan[s].findings /\ UNCHANGED disturbed
    BY <1>0, <1>4 DEF ScanEnds, ScanState, history
  <2>2. ASSUME NEW q \in Resources \ disturbed[s] PROVE ScanAgrees(s, q)'
    BY <1>world, <2>1 DEF ScanSound, ScanAgrees
  <2> QED BY <2>1, <2>2 DEF ScanSound
<1> QED BY <1>1, <1>2, <1>3, <1>4 DEF ScanNext

LEMMA NextScan ==
    ASSUME DiscoveryAssumption, TypeInv, ScanInv, [Next]_vars
    PROVE  ScanInv'
<1> SUFFICES ASSUME NEW s \in Scans PROVE ScanSound(s)' BY DEF ScanInv
<1>1. ScanSound(s) BY DEF ScanInv
<1>2. ScanNext(s) \/ Elsewhere(s) BY Kinds, StepsOf
<1> QED BY <1>1, <1>2, ScanKept, ScanOwn DEF Elsewhere

-----------------------------------------------------------------------------
(* What a classification says of a cell                                    *)

LEMMA FirstOf ==
    ASSUME NEW S, S \subseteq Nat, S # {}
    PROVE  \E i \in S : \A j \in S : i <= j
<1> DEFINE R == {ss \in Nat \X Nat : ss[1] < ss[2]}
<1>1. PICK i \in S : \A j \in S : ~ (<<j, i>> \in R)
  <2>1. IsWellFoundedOn(R, Nat) BY NatLessThanWellFounded, SMT DEF OpToRel
  <2> HIDE DEF R
  <2> QED BY <2>1, WFMin
<1>2. \A j \in S : ~ (j < i) BY <1>1
<1> QED BY <1>2

\* The pattern of a cell is the pattern of one of its strings.
LEMMA ClassifiedIsThere ==
    ASSUME DiscoveryAssumption, NEW row \in Rows, NEW column \in Columns, NEW pattern \in Patterns,
           Classified(row, column, pattern)
    PROVE  pattern \in PatternsIn(row, column)
BY DEF Classified, PatternsIn, DiscoveryAssumption, WorldAssumption

\* A cell with a pattern in it is classified by one of its patterns: the one of
\* its first string that has any.
LEMMA FirstPatternFound ==
    ASSUME DiscoveryAssumption, NEW row \in Rows, NEW column \in Columns,
           PatternsIn(row, column) # {}
    PROVE  \E pattern \in PatternsIn(row, column) : Classified(row, column, pattern)
<1> DEFINE leaves == Cell[row][column]
           telling == {i \in DOMAIN leaves : leaves[i] # Benign}
<1>1. leaves \in Seq(Patterns \cup {Benign}) BY DEF DiscoveryAssumption, WorldAssumption
<1> HIDE DEF leaves
<1>2. DOMAIN leaves = 1..Len(leaves) /\ Len(leaves) \in Nat BY <1>1
<1>3. PatternsIn(row, column) = {leaves[i] : i \in DOMAIN leaves} \ {Benign}
  BY DEF PatternsIn, leaves
<1>4. telling # {} BY <1>3
<1>5. \A i \in telling : leaves[i] \in PatternsIn(row, column) BY <1>3
<1>6. PICK i \in telling : \A j \in telling : i <= j
  <2>1. telling \subseteq Nat BY <1>2
  <2> QED BY <1>4, <2>1, FirstOf
<1>7. \A j \in 1..(i - 1) : leaves[j] = Benign BY <1>2, <1>6
<1> QED BY <1>5, <1>6, <1>7 DEF Classified, leaves

\* The rows that have the pattern of finding g in its column.
Holding(rows, g) == {row \in rows : g.pattern \in PatternsIn(row, g.column)}

\* A finding names a value that is there, in an open column, and counts no row
\* twice.
LEMMA FindingHonest ==
    ASSUME DiscoveryAssumption, NEW q, NEW d \in Declaration, NEW columns \in SUBSET Columns,
           NEW rows \in SUBSET Rows, NEW sample \in SUBSET rows,
           NEW g \in GhostsIn(q, d, columns, sample)
    PROVE  /\ g.column \in columns \ Known(d) /\ g.pattern \in Enabled(d)
           /\ g.count <= Cardinality(Holding(rows, g))
<1>1. /\ g.column \in columns \ Known(d) /\ g.pattern \in Enabled(d)
      /\ g.count = Cardinality(Matching(sample, g.column, g.json, g.pattern))
  BY GhostFacts
<1>2. g.column \in Columns /\ g.pattern \in Patterns BY <1>1 DEF Enabled, Declaration
<1> DEFINE holding == Holding(rows, g)
           matching == Matching(sample, g.column, g.json, g.pattern)
<1>3. matching \subseteq holding BY <1>2, ClassifiedIsThere DEF Matching, Holding
<1>4. IsFiniteSet(holding)
  <2>1. IsFiniteSet(Rows) /\ holding \subseteq Rows
      BY DEF DiscoveryAssumption, WorldAssumption, Holding
  <2> HIDE DEF holding
  <2> QED BY <2>1, FS_Subset
<1> HIDE DEF holding, matching
<1>5. Cardinality(matching) <= Cardinality(holding) BY <1>3, <1>4, FS_Subset
<1> QED BY <1>1, <1>5 DEF holding, matching

\* A cell of an open column that is classified by an enabled pattern is found in
\* a sample that its row is in.
LEMMA CellFound ==
    ASSUME DiscoveryAssumption, NEW q, NEW d, NEW columns \in SUBSET Columns,
           NEW rows \in SUBSET Rows, NEW row \in rows,
           NEW column \in columns \ Known(d), NEW pattern \in Enabled(d),
           Classified(row, column, pattern)
    PROVE  \E g \in GhostsIn(q, d, columns, rows) :
               g.resource = q /\ g.column = column /\ g.pattern = pattern
<1>1. Classified(row, column, pattern) OBVIOUS
<1>2. PICK json \in BOOLEAN : row \in Matching(rows, column, json, pattern)
  <2>1. CASE column \in Json[row]
    <3>1. row \in Matching(rows, column, TRUE, pattern) BY <1>1, <2>1 DEF Matching
    <3> QED BY <3>1
  <2>2. CASE column \notin Json[row]
    <3>1. row \in Matching(rows, column, FALSE, pattern) BY <1>1, <2>2 DEF Matching
    <3> QED BY <3>1
  <2> QED BY <2>1, <2>2
<1> DEFINE n == Cardinality(Matching(rows, column, json, pattern))
           g == [resource |-> q, column |-> column, json |-> json, pattern |-> pattern, count |-> n]
<1>3. n > 0
  <2>1. n \in 0..Cardinality(Rows) /\ n # 0 BY <1>2, MatchingFacts
  <2>2. Cardinality(Rows) \in Nat BY FS_CardinalityType DEF DiscoveryAssumption, WorldAssumption
  <2> HIDE DEF n
  <2> QED BY <2>1, <2>2
<1>4. g \in Counts(q, d, columns, rows) BY DEF Counts
<1> HIDE DEF n
<1>5. g.count = n /\ g.resource = q /\ g.column = column /\ g.pattern = pattern OBVIOUS
<1> HIDE DEF g
<1> QED BY <1>3, <1>4, <1>5 DEF GhostsIn

LEMMA GhostRightFromSound ==
    ASSUME DiscoveryAssumption, TypeInv, ScanInv
    PROVE  GhostRight
<1> SUFFICES ASSUME NEW s \in Scans, scan[s].phase \in {"done", "failed"},
                    NEW q \in (Declared \ disturbed[s]) \ {r \in Resources : tables[r] = NoTable}
             PROVE  LET d == registry[q]
                        t == tables[q]
                        open == t.columns \ (d.allowed \cup (d.direct \cap d.columns)
                                                \cup {d.tenantColumn, d.userColumn})
                        wanted == {p \in Patterns : d.patterns # {} => p \in d.patterns}
                        found == {g \in scan[s].findings : g.resource = q}
                    IN  /\ \A g \in found :
                              /\ g.column \in open /\ g.pattern \in wanted
                              /\ g.count <= Cardinality({row \in t.rows :
                                                            g.pattern \in PatternsIn(row, g.column)})
                        /\ (d.scanned /\ q \notin scan[s].todo
                                /\ (d.full \/ Cardinality(t.rows) <= SampleLimit)) =>
                              \A c \in open, row \in t.rows :
                                  (PatternsIn(row, c) # {} /\ PatternsIn(row, c) \subseteq wanted) =>
                                      \E g \in found : g.column = c /\ g.pattern \in PatternsIn(row, c)
                        /\ (scan[s].phase = "done" /\ d.scanned) => q \notin scan[s].todo
  BY DEF GhostRight
<1> DEFINE d == registry[q]
           t == tables[q]
           open == t.columns \ (d.allowed \cup (d.direct \cap d.columns)
                                   \cup {d.tenantColumn, d.userColumn})
           wanted == {p \in Patterns : d.patterns # {} => p \in d.patterns}
           found == {g \in scan[s].findings : g.resource = q}
<1>1. q \in Resources /\ q \in Declared /\ q \notin disturbed[s] /\ t # NoTable BY DEF Declared
<1>2. d \in Declaration
  <2>1. registry \in Snapshot /\ d # Undeclared BY <1>1, TypeParts DEF WorldOK, Declared
  <2> QED BY <1>1, <2>1, SnapshotFact
<1>3. t.columns \in SUBSET Columns /\ t.rows \in SUBSET Rows BY <1>1, TablesType
<1>4. ScanAgrees(s, q) /\ (scan[s].phase = "done" => scan[s].todo = {})
  BY <1>1 DEF ScanInv, ScanSound
<1>5. open = t.columns \ Known(d) BY DEF Known, DirectIdentifiers
<1>6. wanted = Enabled(d) BY <1>2 DEF Enabled, Declaration
<1>7. \A g \in found : \E sample \in Samples(d, t.rows) : g \in GhostsIn(q, d, t.columns, sample)
  BY <1>4 DEF ScanAgrees
<1>8. ASSUME q \notin scan[s].todo, d.scanned
      PROVE  \E sample \in Samples(d, t.rows) :
                 GhostsIn(q, d, t.columns, sample) \subseteq scan[s].findings
  BY <1>1, <1>4, <1>8 DEF ScanAgrees
<1> HIDE DEF d, t, open, wanted
<1>9. ASSUME NEW g \in found
      PROVE  /\ g.column \in open /\ g.pattern \in wanted
             /\ g.count <= Cardinality(Holding(t.rows, g))
  <2>1. PICK sample \in Samples(d, t.rows) : g \in GhostsIn(q, d, t.columns, sample) BY <1>7
  <2>2. sample \in SUBSET t.rows BY SamplesFact
  <2> QED BY <1>2, <1>3, <1>5, <1>6, <2>1, <2>2, FindingHonest
<1>10. ASSUME q \notin scan[s].todo, d.scanned, d.full \/ Cardinality(t.rows) <= SampleLimit,
              NEW c \in open, NEW row \in t.rows,
              PatternsIn(row, c) # {}, PatternsIn(row, c) \subseteq wanted
       PROVE  \E g \in found : g.column = c /\ g.pattern \in PatternsIn(row, c)
  <2>0. PICK p \in PatternsIn(row, c) : Classified(row, c, p)
    BY <1>3, <1>5, <1>10, FirstPatternFound
  <2>1. PICK sample \in Samples(d, t.rows) :
            GhostsIn(q, d, t.columns, sample) \subseteq scan[s].findings
    BY <1>8, <1>10
  <2>2. sample = t.rows BY <1>10, SamplesFact
  <2>3. PICK g \in GhostsIn(q, d, t.columns, t.rows) :
            g.resource = q /\ g.column = c /\ g.pattern = p
    BY <1>3, <1>5, <1>6, <1>10, <2>0, CellFound
  <2> QED BY <2>0, <2>1, <2>2, <2>3
<1> QED BY <1>4, <1>9, <1>10 DEF d, t, open, wanted, Holding

\* Of a table that is left alone a ghost scan reports only what is there, and
\* when it got to the table and read it whole it misses no cell whose patterns
\* are enabled, failed pass or not, for any rows, columns and patterns.
THEOREM GhostCorrect == Spec => []GhostRight
<1>1. Init => TypeInv /\ ScanInv
  BY Constants, InitType DEF Init, ScanInv, ScanSound, IdleScan
<1>2. TypeInv /\ ScanInv /\ [Next]_vars => (TypeInv /\ ScanInv)'
  BY Constants, NextType, NextScan
<1>3. TypeInv /\ ScanInv => GhostRight BY Constants, GhostRightFromSound
<1> QED BY <1>1, <1>2, <1>3, PTL DEF Spec
=============================================================================
