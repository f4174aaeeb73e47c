CONSTANTS
    u1 = u1  u2 = u2  o1 = o1  o2 = o2  a1 = a1  a2 = a2  d1 = d1  d2 = d2
    User <- OneUser
    OrderId <- OneOrder
    Attempt <- Attempts
    Slot <- OneSlot
    Body <- OneBody
    Scale = 1
    MaxNumeric = 20
    Env = {"early"}
    MaxRestarts = 0
SPECIFICATION Spec
INVARIANT CallbackCascades
