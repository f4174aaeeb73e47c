CONSTANTS
    u1 = u1  u2 = u2  o1 = o1  a1 = a1  a2 = a2  d1 = d1  v1 = v1
    User <- Users
    OrderId <- OneOrder
    Attempt <- Attempts
    Slot <- OneSlot
    View <- OneView
    Body <- OneBody
    Scale = 1
    MaxNumeric = 20
    Env = {"edit", "delete", "early"}
    MaxRestarts = 1
SPECIFICATION SpecWithViews
INVARIANTS PaymentHasOwnersOrder
INVARIANTS NotFoundMeansGone ReadsNeverGoBack TakenOutcomeIsShown
PROPERTIES NeverReopened ShownToOwner
