CONSTANTS
    u1 = u1  u2 = u2  o1 = o1  o2 = o2  j1 = j1  j2 = j2
    User <- Users
    OrderId <- TwoOrders
    Job <- Jobs
    File <- Parts
    Body <- OneBody
    Scale = 1
    MaxNumeric = 20
    MaxSize = 3
    MayFail = TRUE
    MaxCrashes = 1
SPECIFICATION Spec
SYMMETRY Symmetric
INVARIANTS TypeOK ShownToSender TruthfulUploadReplies
PROPERTY ImplementsShelf
