CONSTANTS
    u1 = u1  u2 = u2  o1 = o1  o2 = o2  a1 = a1  a2 = a2  d1 = d1  d2 = d2
    User <- Users
    OrderId <- OneOrder
    Attempt <- Attempts
    Slot <- Slots
    Body <- Bodies
    Scale = 3
    MaxNumeric = 4
    Env = {"edit", "delete"}
    MaxRestarts = 0
SPECIFICATION FairSpec
INVARIANTS TypeOK ChargesReconcile QuiescentAgreement
PROPERTIES ImplementsLedger OutcomeReachesOrder
