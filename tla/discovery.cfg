SPECIFICATION Spec
CONSTANTS
    q1 = q1  q2 = q2  q3 = q3  q4 = q4  d1 = d1  d2 = d2  id = id  mail = mail  blob = blob
    EMAIL = EMAIL  PHONE = PHONE  x1 = x1  x2 = x2  l1 = l1  l2 = l2
    c1 = c1  s1 = s1  p1 = p1  k1 = k1  m1 = m1  m2 = m2  m3 = m3
    Resources = {q1, q2, q3, q4}
    Columns = {id, mail, blob}
    NoColumn = NoColumn
    Patterns = {EMAIL, PHONE}
    Benign = Benign
    Rows = {x1, x2}
    Cell <- MCCell
    Json <- MCJson
    Declarations <- MCDeclarations
    Contents <- MCContents
    NoTable = NoTable
    Undeclared = Undeclared
    Locations = {l1, l2}
    PiiNamed = {mail}
    NotBuilt = NotBuilt
    Crawls = {c1}
    Scans = {s1}
    Publications = {p1}
    Checks = {k1}
    Schedules <- MCSchedules
    MaxChanges = 3
    MaxFaults = 1
    DatasetOf <- MCDatasetOf
    Datasets <- MCDatasets
    Excluded = {q3}
    SampleLimit = 1
    Configured <- MCConfigured
    Models = {m1, m2, m3}
    Candidates <- MCCandidates
    Has <- MCHas
    Marts = {m1}
INVARIANTS TypeOK CrawlRight VerdictWitnessed GhostRight PublishRight PolicyRight
CHECK_DEADLOCK FALSE
