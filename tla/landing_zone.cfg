SPECIFICATION FairSpec
CONSTANTS
    a1 = a1  a2 = a2  b1 = b1  x1 = x1  x2 = x2  x3 = x3
    id = id  email = email  phone = phone  n1 = n1  n2 = n2  i1 = i1  i2 = i2
    Uploads = {a1, a2}
    Names = {n1, n2}
    NameOf <- MCNameOf
    Json <- MCJson
    Instances = {i1, i2}
    Rows = {x1, x2, x3}
    UploadOf <- MCUploadOf
    Fields = {id, email, phone}
    Columns <- MCColumns
    Cells <- MCCells
    UserId = id
    Email = email
    Registered = {email, phone}
    MaxFaults = 1
    Possible = {"registry", "download", "vault", "row", "publish", "delete", "move", "lineage", "crash"}
    NoUpload = NoUpload
INVARIANTS TypeOK NothingLost RepublishBounded LeaksBounded
PROPERTY InboundEmpties
