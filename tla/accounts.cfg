CONSTANTS
    r1 = r1  r2 = r2  r3 = r3
    Request <- Requests
    Form <- Forms
    TTL = 5
    TimePrecision = 3
    MaxTime = 7
SPECIFICATION Spec
SYMMETRY Symmetric
INVARIANTS TypeOK OneAccountPerAddress TruthfulSignupReplies SignedUpCanLogIn CallerLoggedIn TokenLastsItsTTL
