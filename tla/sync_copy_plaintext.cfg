SPECIFICATION Spec
CONSTANTS
    q1 = q1  u1 = u1  u2 = u2  x1 = x1  x2 = x2  x3 = x3
    f1 = f1  f2 = f2  r1 = r1  r2 = r2  w1 = w1  w2 = w2  i1 = i1
    Resources = {q1}
    Users = {u1}
    Fields = {f1, f2}
    Rows = {x1}
    ResourceOf <- MCResourceOf
    UserOf <- MCUserOf
    Manual = {q1}
    Syncable = {q1}
    Stamped = {q1}
    CopyOpted = {q1}
    Original <- MCOriginal
    Runs = {r1, r2}
    Workers = {w1}
    Instances = {i1}
    HostOf <- MCHostOf
    ChunkSize = 1
    StampLag = 0
    MaxTime = 2
    MaxFaults = 1
    MaxReports = 2
    Possible = {"addField"}
    NoResource = NoResource
    NoMessage = NoMessage
INVARIANTS CopyIsEncrypted
