CONSTANTS
    u1 = u1  u2 = u2  o1 = o1  o2 = o2  j1 = j1  j2 = j2
    User <- Users
    OrderId <- OneOrder
    Job <- Jobs
    File <- GoodParts
    Body <- OneBody
    Scale = 1
    MaxNumeric = 20
    MaxSize = 3
    MayFail = FALSE
    MaxCrashes = 0
SPECIFICATION FairSpec
PROPERTY AcceptedUploadIsStored
