SPECIFICATION FairSpec
CONSTANTS
    q1 = q1  u1 = u1  u2 = u2  x1 = x1  x2 = x2  x3 = x3
    f1 = f1  f2 = f2  r1 = r1  r2 = r2  w1 = w1  w2 = w2  i1 = i1
    Resources = {q1}
    Users = {u1, u2}
    Fields = {f1}
    Rows = {x1, x2}
    ResourceOf <- MCResourceOf
    UserOf <- MCUserOf
    Manual = {q1}
    Syncable = {q1}
    Stamped = {q1}
    CopyOpted = {}
    Original <- MCOriginal
    Runs = {r1}
    Workers = {w1}
    Instances = {i1}
    HostOf <- MCHostOf
    ChunkSize = 1
    StampLag = 0
    MaxTime = 1
    MaxFaults = 1
    MaxReports = 1
    Possible = {"crash", "duplicate", "vault", "insert", "report", "shred"}
    NoResource = NoResource
    NoMessage = NoMessage
PROPERTIES ShreddingHolds RunsEnd TopicDrains EnumeratedIsSynced
