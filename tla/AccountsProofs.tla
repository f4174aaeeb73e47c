--------------------------- MODULE AccountsProofs ---------------------------
(***************************************************************************)
(* Theorems about Accounts, for every set of requests and forms, every     *)
(* lifetime of tokens and every precision of dates.                        *)
(***************************************************************************)
EXTENDS Accounts, TLAPS

-----------------------------------------------------------------------------
(* The inductive invariant. *)

\* What a request in flight, or over, may rely on.
RequestsKnow ==
    \A r \in DOMAIN reqs :
        /\ reqs[r].pc # "done" => reqs[r].reply = "none"
        /\ reqs[r].pc = "insert" => /\ SignupVerdict(reqs[r].form) = "none"
                                    /\ r \notin DOMAIN users
        /\ reqs[r].reply = "Created" => r \in DOMAIN users
        /\ reqs[r].before \subseteq DOMAIN users
        /\ \A x \in reqs[r].found :
              /\ x.id \in DOMAIN users
              /\ x.digest = users[x.id].digest
              /\ SameAddress(users[x.id].email,
                             NormalizeEmail(reqs[r].form.email))

\* A row is what its signup sent, after the checks.
RowsAreSignups ==
    \A u \in DOMAIN users :
        /\ reqs[u].pc = "done"
        /\ SignupVerdict(reqs[u].form) = "none"
        /\ users[u] = [email  |-> NormalizeEmail(reqs[u].form.email),
                       digest |-> Digest(reqs[u].form.password)]

\* A token is for the account whose address and password its login sent.
TokensAreLogins ==
    \A t \in DOMAIN tokens :
        /\ reqs[t].pc = "done" /\ reqs[t].reply = "OK"
        /\ tokens[t].exp = Expiry(tokens[t].issued)
        /\ tokens[t].sub \in DOMAIN users
        /\ SameAddress(users[tokens[t].sub].email,
                       NormalizeEmail(reqs[t].form.email))
        /\ users[tokens[t].sub].digest = Digest(reqs[t].form.password)

AccountInv == /\ TypeOK
              /\ RequestsKnow
              /\ RowsAreSignups
              /\ TokensAreLogins
              /\ OneAccountPerAddress
              /\ TruthfulSignupReplies
              /\ SignedUpCanLogIn

-----------------------------------------------------------------------------
(* Lemmas about the operators. *)

\* The date in a token is at most a second before the TTL is over, and never
\* after: for every lifetime and precision.
THEOREM ExpiryBounds ==
    ASSUME NEW t \in Nat
    PROVE  /\ Expiry(t) \in Nat
           /\ Expiry(t) <= t + TTL
           /\ t + TTL < Expiry(t) + TimePrecision
  BY TimeAssumption DEF Expiry

\* What a form that passed Signup's checks is stored as.
LEMMA StoredForm ==
    ASSUME NEW f \in Form, SignupVerdict(f) = "none"
    PROVE  /\ NormalizeEmail(f.email) \in StoredAddress
           /\ Digest(f.password) \in STRING
           /\ f.password.size # 0
           /\ f.email.plain
  <1>1. f.email \in Address /\ f.password \in Password
    BY FormAssumption
  <1>2. f.email.plain
    BY DEF SignupVerdict
  <1>3. f.password.size >= 8
    BY <1>1 DEF SignupVerdict, MinPasswordLen, Password
  <1>4. f.email.plain = TRUE
    BY <1>1, <1>2 DEF Address
  <1>5. NormalizeEmail(f.email) \in StoredAddress
    BY <1>1, <1>4 DEF NormalizeEmail, Address, StoredAddress
  <1> QED
    BY <1>1, <1>2, <1>3, <1>5 DEF Digest, Password

\* A request that begins leaves the others alone.
LEMMA BeginFacts ==
    ASSUME NEW r, NEW f, NEW pc, NEW found, NEW reply,
           BeginRequest(r, f, pc, found, reply)
    PROVE  /\ r \notin DOMAIN reqs
           /\ DOMAIN reqs' = DOMAIN reqs \cup {r}
           /\ \A x \in DOMAIN reqs : reqs'[x] = reqs[x]
           /\ reqs'[r] = [pc |-> pc, form |-> f, found |-> found,
                          before |-> Answered201, reply |-> reply]
  BY DEF BeginRequest, InsertRow

\* A request that ends keeps everything but its program counter and reply.
LEMMA EndFacts ==
    ASSUME NEW r \in DOMAIN reqs, NEW reply, EndRequest(r, reply), TypeOK
    PROVE  /\ DOMAIN reqs' = DOMAIN reqs
           /\ \A x \in DOMAIN reqs : x # r => reqs'[x] = reqs[x]
           /\ reqs'[r].pc = "done" /\ reqs'[r].reply = reply
           /\ reqs'[r].form = reqs[r].form
           /\ reqs'[r].found = reqs[r].found
           /\ reqs'[r].before = reqs[r].before
           /\ reply \in AuthReply => reqs'[r] \in RequestRecord
  BY DEF EndRequest, TypeOK, RequestRecord

-----------------------------------------------------------------------------
(* The invariant holds initially and every action keeps it. *)

LEMMA AccountInit == Init => AccountInv
  <1> SUFFICES ASSUME Init PROVE AccountInv
    OBVIOUS
  <1>1. DOMAIN users = {} /\ DOMAIN reqs = {} /\ DOMAIN tokens = {}
    BY DEF Init, EmptyTable
  <1> QED
    BY <1>1, TimeAssumption DEF Init, AccountInv, TypeOK, RequestsKnow,
       RowsAreSignups, TokensAreLogins, OneAccountPerAddress,
       TruthfulSignupReplies, SignedUpCanLogIn

\* A signup begins.
LEMMA BeginSignupKeeps ==
    ASSUME AccountInv, NEW r \in Request, NEW f \in Form, BeginSignup(r, f)
    PROVE  AccountInv'
  <1> DEFINE verdict == SignupVerdict(f)
             pc == IF verdict = "none" THEN "insert" ELSE "done"
  <1>1. BeginRequest(r, f, pc, {}, verdict)
    BY DEF BeginSignup
  <1>2. UNCHANGED <<users, tokens, now>>
    BY <1>1 DEF BeginRequest
  <1>3. /\ r \notin DOMAIN reqs
        /\ DOMAIN reqs' = DOMAIN reqs \cup {r}
        /\ \A x \in DOMAIN reqs : reqs'[x] = reqs[x]
        /\ reqs'[r] = [pc |-> pc, form |-> f, found |-> {},
                       before |-> Answered201, reply |-> verdict]
    BY <1>1, BeginFacts
  <1>4. verdict \in {"none", "InvalidEmail", "InvalidName",
                     "PasswordTooShort", "PasswordTooLong"}
    BY DEF SignupVerdict
  <1>5. r \notin DOMAIN users /\ r \notin DOMAIN tokens
    BY <1>3 DEF AccountInv, TypeOK
  <1>6. Answered201 \subseteq DOMAIN users
    BY DEF Answered201, AccountInv, RequestsKnow
  <1> HIDE DEF verdict
  <1>7. TypeOK'
    <2>1. reqs'[r] \in RequestRecord
      BY <1>3, <1>4, <1>6 DEF RequestRecord, AuthReply, AccountInv, TypeOK
    <2> QED
      BY <2>1, <1>2, <1>3 DEF AccountInv, TypeOK
  <1>8. RequestsKnow'
    BY <1>2, <1>3, <1>4, <1>5, <1>6 DEF AccountInv, RequestsKnow, verdict
  <1>9. RowsAreSignups' /\ TokensAreLogins' /\ OneAccountPerAddress'
    BY <1>2, <1>3, <1>5 DEF AccountInv, TypeOK, RowsAreSignups,
       TokensAreLogins, OneAccountPerAddress
  <1>10. TruthfulSignupReplies'
    BY <1>2, <1>3, <1>4, <1>5 DEF AccountInv, TruthfulSignupReplies,
       UsersWithEmail
  <1>11. SignedUpCanLogIn'
    <2> SUFFICES ASSUME NEW q \in DOMAIN reqs',
                        reqs'[q].reply = "InvalidCredentials",
                        NEW s \in reqs'[q].before
                 PROVE  ~ /\ reqs'[q].form.email.plain
                          /\ SameAddress(NormalizeEmail(reqs'[q].form.email),
                                         NormalizeEmail(reqs'[s].form.email))
                          /\ reqs'[q].form.password = reqs'[s].form.password
      BY DEF SignedUpCanLogIn
    <2>1. q \in DOMAIN reqs /\ reqs'[q] = reqs[q]
      BY <1>3, <1>4
    <2>2. s \in DOMAIN reqs
      BY <2>1 DEF AccountInv, RequestsKnow, TypeOK
    <2> QED
      BY <2>1, <2>2, <1>3 DEF AccountInv, SignedUpCanLogIn
  <1> QED
    BY <1>7, <1>8, <1>9, <1>10, <1>11 DEF AccountInv

\* A login begins, refused, failed or with the row it found.
LEMMA BeginLoginKeeps ==
    ASSUME AccountInv, NEW r \in Request, NEW f \in Form,
           BeginLogin(r, f) \/ BeginLoginFails(r, f)
    PROVE  AccountInv'
  <1> DEFINE rows == Select(NormalizeEmail(f.email))
             refused == ~f.email.plain \/ f.password.size = 0 \/ rows = {}
  <1>1. PICK pc \in {"compare", "done"},
             reply \in {"none", "InvalidCredentials", "InternalError"},
             found \in SUBSET rows :
          /\ BeginRequest(r, f, pc, found, reply)
          /\ pc = "compare" => reply = "none"
          /\ reply = "InvalidCredentials" => refused
    <2>1. CASE BeginLogin(r, f) /\ refused
      BY <2>1 DEF BeginLogin
    <2>2. CASE BeginLogin(r, f) /\ ~refused
      BY <2>2 DEF BeginLogin
    <2>3. CASE BeginLoginFails(r, f)
      BY <2>3 DEF BeginLoginFails
    <2> QED
      BY <2>1, <2>2, <2>3
  <1>2. BeginRequest(r, f, pc, found, reply) /\ UNCHANGED <<users, tokens, now>>
    BY <1>1 DEF BeginRequest
  <1>3. /\ r \notin DOMAIN reqs
        /\ DOMAIN reqs' = DOMAIN reqs \cup {r}
        /\ \A x \in DOMAIN reqs : reqs'[x] = reqs[x]
        /\ reqs'[r] = [pc |-> pc, form |-> f, found |-> found,
                       before |-> Answered201, reply |-> reply]
    <2> HIDE DEF rows, refused
    <2> QED
      BY <1>2, BeginFacts
  <1>4. \A x \in found : /\ x \in [id : Request, digest : STRING]
                         /\ x.id \in DOMAIN users
                         /\ x.digest = users[x.id].digest
                         /\ SameAddress(users[x.id].email,
                                        NormalizeEmail(f.email))
    BY DEF Select, UsersWithEmail, AccountInv, TypeOK, UserRow
  <1>5. r \notin DOMAIN users /\ r \notin DOMAIN tokens
    BY <1>3 DEF AccountInv, TypeOK
  <1>6. Answered201 \subseteq DOMAIN users
    BY DEF Answered201, AccountInv, RequestsKnow
  <1>7. TypeOK'
    <2>1. reqs'[r] \in RequestRecord
      <3>1. found \subseteq [id : Request, digest : STRING]
        BY <1>4
      <3>2. Answered201 \subseteq Request
        BY DEF Answered201, AccountInv, TypeOK
      <3> QED
        BY <1>1, <1>3, <3>1, <3>2 DEF RequestRecord, AuthReply
    <2> QED
      BY <2>1, <1>2, <1>3 DEF AccountInv, TypeOK
  <1>8. RequestsKnow'
    <2>1. \A x \in DOMAIN reqs : reqs'[x] = reqs[x]
      BY <1>3
    <2> QED
      BY <2>1, <1>1, <1>2, <1>3, <1>4, <1>6 DEF AccountInv, RequestsKnow
  <1>9. RowsAreSignups' /\ TokensAreLogins' /\ OneAccountPerAddress'
    BY <1>2, <1>3, <1>5 DEF AccountInv, TypeOK, RowsAreSignups,
       TokensAreLogins, OneAccountPerAddress
  <1>10. TruthfulSignupReplies'
    BY <1>1, <1>2, <1>3, <1>5 DEF AccountInv, TruthfulSignupReplies,
       UsersWithEmail
  <1>11. SignedUpCanLogIn'
    <2> SUFFICES ASSUME NEW q \in DOMAIN reqs',
                        reqs'[q].reply = "InvalidCredentials",
                        NEW z \in reqs'[q].before,
                        reqs'[q].form.email.plain,
                        SameAddress(NormalizeEmail(reqs'[q].form.email),
                                    NormalizeEmail(reqs'[z].form.email)),
                        reqs'[q].form.password = reqs'[z].form.password
                 PROVE  FALSE
      BY DEF SignedUpCanLogIn
    <2>1. CASE q # r
      <3>1. q \in DOMAIN reqs /\ reqs'[q] = reqs[q]
        BY <1>3, <2>1
      <3>2. z \in DOMAIN reqs
        BY <3>1 DEF AccountInv, RequestsKnow, TypeOK
      <3> QED
        BY <3>1, <3>2, <1>3 DEF AccountInv, SignedUpCanLogIn
    <2>2. CASE q = r
      <3>1. /\ reqs'[q].form = f /\ refused
            /\ z \in DOMAIN users /\ z \in DOMAIN reqs /\ reqs'[z] = reqs[z]
        BY <2>2, <1>1, <1>3, <1>6 DEF AccountInv, TypeOK
      <3>2. /\ SignupVerdict(reqs[z].form) = "none"
            /\ users[z].email = NormalizeEmail(reqs[z].form.email)
            /\ reqs[z].form \in Form
        BY <3>1 DEF AccountInv, RowsAreSignups, TypeOK, RequestRecord
      <3>3. reqs[z].form.password.size # 0
        BY <3>2, StoredForm
      <3>4. rows = {}
        BY <3>1, <3>3
      <3>5. SameAddress(users[z].email, NormalizeEmail(f.email))
        BY <3>1, <3>2 DEF SameAddress
      <3> QED
        BY <3>1, <3>4, <3>5 DEF Select, UsersWithEmail
    <2> QED
      BY <2>1, <2>2
  <1> QED
    BY <1>7, <1>8, <1>9, <1>10, <1>11 DEF AccountInv

\* An INSERT, refused by the index or applied, answered or not.
LEMMA InsertUserKeeps ==
    ASSUME AccountInv, NEW r \in Request, NEW answered \in BOOLEAN,
           InsertUser(r, answered)
    PROVE  AccountInv'
  <1> DEFINE email == NormalizeEmail(reqs[r].form.email)
             row   == [email  |-> email,
                       digest |-> Digest(reqs[r].form.password)]
  <1>1. /\ r \in DOMAIN reqs /\ reqs[r].pc = "insert"
        /\ UNCHANGED <<tokens, now>>
    BY DEF InsertUser, At
  <1>2. /\ r \notin DOMAIN users /\ r \notin DOMAIN tokens
        /\ SignupVerdict(reqs[r].form) = "none"
        /\ reqs[r].form \in Form
    BY <1>1 DEF AccountInv, RequestsKnow, TokensAreLogins, TypeOK, RequestRecord
  <1>3. PICK reply \in {"EmailAlreadyExists", "Created", "InternalError"} :
          /\ EndRequest(r, reply)
          /\ \/ /\ reply = "EmailAlreadyExists"
                /\ UsersWithEmail(email) # {}
                /\ UNCHANGED users
             \/ /\ reply # "EmailAlreadyExists"
                /\ UsersWithEmail(email) = {}
                /\ users' = InsertRow(users, r, row)
    BY DEF InsertUser
  <1>4. /\ DOMAIN reqs' = DOMAIN reqs
        /\ \A x \in DOMAIN reqs : x # r => reqs'[x] = reqs[x]
        /\ reqs'[r].pc = "done" /\ reqs'[r].reply = reply
        /\ reqs'[r].form = reqs[r].form
        /\ reqs'[r].found = reqs[r].found
        /\ reqs'[r].before = reqs[r].before
        /\ reply \in AuthReply => reqs'[r] \in RequestRecord
    BY <1>1, <1>3, EndFacts DEF AccountInv
  <1>5. row \in UserRow
    BY <1>2, StoredForm DEF UserRow
  <1>6. /\ DOMAIN users \subseteq DOMAIN users'
        /\ \A u \in DOMAIN users : users'[u] = users[u]
        /\ \A u \in DOMAIN users' : u \in DOMAIN users \/ u = r
        /\ r \in DOMAIN users' => /\ users'[r] = row
                                  /\ UsersWithEmail(email) = {}
                                  /\ reply # "EmailAlreadyExists"
        /\ reply = "Created" => r \in DOMAIN users'
    BY <1>2, <1>3 DEF InsertRow
  <1> HIDE DEF row, email
  <1>7. TypeOK'
    <2>1. reqs'[r] \in RequestRecord
      BY <1>4, <1>3 DEF AuthReply
    <2>2. DOMAIN users' \subseteq DOMAIN reqs'
      BY <1>1, <1>4, <1>6 DEF AccountInv, TypeOK
    <2>3. \A u \in DOMAIN users' : users'[u] \in UserRow
      BY <1>5, <1>6 DEF AccountInv, TypeOK
    <2> QED
      BY <1>1, <1>4, <2>1, <2>2, <2>3 DEF AccountInv, TypeOK
  <1>8. RequestsKnow'
    <2> SUFFICES ASSUME NEW q \in DOMAIN reqs
                 PROVE  RequestsKnow!(q)'
      BY <1>4 DEF RequestsKnow
    <2>1. CASE q = r
      BY <2>1, <1>1, <1>4, <1>6 DEF AccountInv, RequestsKnow
    <2>2. CASE q # r
      BY <2>2, <1>4, <1>6 DEF AccountInv, RequestsKnow
    <2> QED
      BY <2>1, <2>2
  <1>9. RowsAreSignups'
    <2>1. r \in DOMAIN users' =>
            users'[r] = [email  |-> NormalizeEmail(reqs'[r].form.email),
                         digest |-> Digest(reqs'[r].form.password)]
      BY <1>4, <1>6 DEF row, email
    <2>2. \A u \in DOMAIN users : u # r /\ u \in DOMAIN reqs
      BY <1>2 DEF AccountInv, TypeOK
    <2> QED
      BY <2>1, <2>2, <1>2, <1>4, <1>6 DEF AccountInv, RowsAreSignups
  <1>10. TokensAreLogins'
    <2>1. \A t \in DOMAIN tokens : t # r /\ t \in DOMAIN reqs
      BY <1>2 DEF AccountInv, TypeOK
    <2> QED
      BY <2>1, <1>1, <1>4, <1>6 DEF AccountInv, TokensAreLogins
  <1>11. OneAccountPerAddress'
    <2>1. \A u \in DOMAIN users : r \in DOMAIN users' =>
             ~SameAddress(users[u].email, email) /\ ~SameAddress(email, users[u].email)
      BY <1>6 DEF UsersWithEmail, SameAddress
    <2> QED
      BY <2>1, <1>6 DEF AccountInv, OneAccountPerAddress, row
  <1>12. TruthfulSignupReplies'
    <2> SUFFICES ASSUME NEW q \in DOMAIN reqs
                 PROVE  TruthfulSignupReplies!(q)'
      BY <1>4 DEF TruthfulSignupReplies
    <2>1. CASE q # r
      BY <2>1, <1>4, <1>6 DEF AccountInv, TruthfulSignupReplies, UsersWithEmail
    <2>2. CASE q = r
      <3>1. reply = "EmailAlreadyExists" => UsersWithEmail(email) # {} /\ r \notin DOMAIN users'
        BY <1>3, <1>6
      <3>2. UsersWithEmail(email) \subseteq UsersWithEmail(email)' \ {r}
        BY <1>2, <1>4, <1>6 DEF UsersWithEmail, email
      <3> QED
        BY <2>2, <3>1, <3>2, <1>3, <1>4, <1>6 DEF email, row
    <2> QED
      BY <2>1, <2>2
  <1>13. SignedUpCanLogIn'
    <2> SUFFICES ASSUME NEW q \in DOMAIN reqs,
                        reqs'[q].reply = "InvalidCredentials",
                        NEW z \in reqs'[q].before
                 PROVE  ~ /\ reqs'[q].form.email.plain
                          /\ SameAddress(NormalizeEmail(reqs'[q].form.email),
                                         NormalizeEmail(reqs'[z].form.email))
                          /\ reqs'[q].form.password = reqs'[z].form.password
      BY <1>4 DEF SignedUpCanLogIn
    <2>1. q # r /\ reqs'[q] = reqs[q]
      BY <1>3, <1>4
    <2>2. z \in DOMAIN reqs /\ reqs'[z].form = reqs[z].form
      BY <2>1, <1>4 DEF AccountInv, RequestsKnow, TypeOK
    <2> QED
      BY <2>1, <2>2 DEF AccountInv, SignedUpCanLogIn
  <1> QED
    BY <1>7, <1>8, <1>9, <1>10, <1>11, <1>12, <1>13 DEF AccountInv

\* A comparison and, if it succeeds, a token.
LEMMA IssueTokenKeeps ==
    ASSUME AccountInv, NEW r \in Request, IssueToken(r)
    PROVE  AccountInv'
  <1>1. /\ r \in DOMAIN reqs /\ reqs[r].pc = "compare"
        /\ UNCHANGED <<users, now>>
    BY DEF IssueToken, At
  <1>2. /\ reqs[r].reply = "none"
        /\ r \notin DOMAIN users /\ r \notin DOMAIN tokens
        /\ now \in Nat
    BY <1>1 DEF AccountInv, RequestsKnow, RowsAreSignups, TokensAreLogins, TypeOK
  <1>3. PICK x \in reqs[r].found :
          \/ /\ Digest(reqs[r].form.password) # x.digest
             /\ EndRequest(r, "InvalidCredentials")
             /\ UNCHANGED tokens
          \/ /\ Digest(reqs[r].form.password) = x.digest
             /\ tokens' = InsertRow(tokens, r, [sub    |-> x.id,
                                                exp    |-> Expiry(now),
                                                issued |-> now])
             /\ EndRequest(r, "OK")
          \/ /\ Digest(reqs[r].form.password) = x.digest
             /\ EndRequest(r, "InternalError")
             /\ UNCHANGED tokens
    BY DEF IssueToken
  <1>4. /\ x.id \in DOMAIN users /\ x.id \in Request
        /\ x.digest = users[x.id].digest
        /\ SameAddress(users[x.id].email, NormalizeEmail(reqs[r].form.email))
    BY <1>1, <1>3 DEF AccountInv, RequestsKnow, TypeOK
  <1>5. PICK reply \in {"InvalidCredentials", "OK", "InternalError"} :
          /\ EndRequest(r, reply)
          /\ \/ /\ reply = "InvalidCredentials"
                /\ Digest(reqs[r].form.password) # users[x.id].digest
                /\ UNCHANGED tokens
             \/ /\ reply = "OK"
                /\ Digest(reqs[r].form.password) = users[x.id].digest
                /\ tokens' = InsertRow(tokens, r, [sub    |-> x.id,
                                                   exp    |-> Expiry(now),
                                                   issued |-> now])
             \/ reply = "InternalError" /\ UNCHANGED tokens
    BY <1>3, <1>4
  <1>6. /\ DOMAIN reqs' = DOMAIN reqs
        /\ \A y \in DOMAIN reqs : y # r => reqs'[y] = reqs[y]
        /\ reqs'[r].pc = "done" /\ reqs'[r].reply = reply
        /\ reqs'[r].form = reqs[r].form
        /\ reqs'[r].found = reqs[r].found
        /\ reqs'[r].before = reqs[r].before
        /\ reqs'[r] \in RequestRecord
    BY <1>1, <1>5, EndFacts DEF AccountInv, AuthReply
  <1>7. /\ \A t \in DOMAIN tokens' : t \in DOMAIN tokens \/ t = r
        /\ \A t \in DOMAIN tokens : t \in DOMAIN tokens' /\ tokens'[t] = tokens[t]
        /\ r \in DOMAIN tokens' =>
              /\ reply = "OK"
              /\ Digest(reqs[r].form.password) = users[x.id].digest
              /\ tokens'[r] = [sub |-> x.id, exp |-> Expiry(now), issued |-> now]
    BY <1>2, <1>5 DEF InsertRow
  <1>8. TypeOK'
    <2>1. \A t \in DOMAIN tokens' : tokens'[t] \in Token
      BY <1>2, <1>4, <1>7, ExpiryBounds DEF AccountInv, TypeOK, Token
    <2> QED
      BY <2>1, <1>1, <1>6, <1>7 DEF AccountInv, TypeOK
  <1>9. RequestsKnow'
    <2> SUFFICES ASSUME NEW q \in DOMAIN reqs
                 PROVE  RequestsKnow!(q)'
      BY <1>6 DEF RequestsKnow
    <2>1. CASE q = r
      BY <2>1, <1>1, <1>6 DEF AccountInv, RequestsKnow
    <2>2. CASE q # r
      BY <2>2, <1>1, <1>6 DEF AccountInv, RequestsKnow
    <2> QED
      BY <2>1, <2>2
  <1>10. RowsAreSignups'
    <2>1. \A u \in DOMAIN users : u # r /\ u \in DOMAIN reqs
      BY <1>2 DEF AccountInv, TypeOK
    <2> QED
      BY <2>1, <1>1, <1>6 DEF AccountInv, RowsAreSignups
  <1>11. TokensAreLogins'
    <2> SUFFICES ASSUME NEW t \in DOMAIN tokens'
                 PROVE  TokensAreLogins!(t)'
      BY DEF TokensAreLogins
    <2>1. CASE t = r
      BY <2>1, <1>1, <1>4, <1>6, <1>7
    <2>2. CASE t # r
      <3>1. t \in DOMAIN tokens /\ t \in DOMAIN reqs
        BY <2>2, <1>7 DEF AccountInv, TypeOK
      <3> QED
        BY <2>2, <3>1, <1>1, <1>6, <1>7 DEF AccountInv, TokensAreLogins
    <2> QED
      BY <2>1, <2>2
  <1>12. OneAccountPerAddress'
    BY <1>1 DEF AccountInv, OneAccountPerAddress
  <1>13. TruthfulSignupReplies'
    <2> SUFFICES ASSUME NEW q \in DOMAIN reqs
                 PROVE  TruthfulSignupReplies!(q)'
      BY <1>6 DEF TruthfulSignupReplies
    <2>1. CASE q = r
      BY <2>1, <1>5, <1>6
    <2>2. CASE q # r
      BY <2>2, <1>1, <1>6 DEF AccountInv, TruthfulSignupReplies, UsersWithEmail
    <2> QED
      BY <2>1, <2>2
  <1>14. SignedUpCanLogIn'
    <2> SUFFICES ASSUME NEW q \in DOMAIN reqs,
                        reqs'[q].reply = "InvalidCredentials",
                        NEW z \in reqs'[q].before,
                        reqs'[q].form.email.plain,
                        SameAddress(NormalizeEmail(reqs'[q].form.email),
                                    NormalizeEmail(reqs'[z].form.email)),
                        reqs'[q].form.password = reqs'[z].form.password
                 PROVE  FALSE
      BY <1>6 DEF SignedUpCanLogIn
    <2>1. /\ z \in reqs[q].before /\ z \in DOMAIN users /\ z \in DOMAIN reqs
          /\ reqs'[z].form = reqs[z].form /\ reqs'[q].form = reqs[q].form
      BY <1>6 DEF AccountInv, RequestsKnow, TypeOK
    <2>2. CASE q # r
      BY <2>1, <2>2, <1>6 DEF AccountInv, SignedUpCanLogIn
    <2>3. CASE q = r
      <3>1. users[z] = [email  |-> NormalizeEmail(reqs[z].form.email),
                        digest |-> Digest(reqs[z].form.password)]
        BY <2>1 DEF AccountInv, RowsAreSignups
      <3>2. z = x.id
        BY <2>1, <2>3, <3>1, <1>4 DEF AccountInv, OneAccountPerAddress, SameAddress
      <3> QED
        BY <2>1, <2>3, <3>1, <3>2, <1>5, <1>6
    <2> QED
      BY <2>2, <2>3
  <1> QED
    BY <1>8, <1>9, <1>10, <1>11, <1>12, <1>13, <1>14 DEF AccountInv

\* Requests that end without having done anything: a failure, a restart.
EndAll(over, reply) ==
    reqs' = [r \in DOMAIN reqs |->
                IF r \in over
                THEN [reqs[r] EXCEPT !.pc = "done", !.reply = reply]
                ELSE reqs[r]]

LEMMA EndKeeps ==
    ASSUME AccountInv, NEW over \in SUBSET InFlight,
           NEW reply \in {"InternalError", "NoReply"},
           EndAll(over, reply),
           users' = users, tokens' = tokens, now' = now
    PROVE  AccountInv'
  <1>1. \A r \in DOMAIN reqs :
           /\ reqs'[r].form = reqs[r].form
           /\ reqs'[r].found = reqs[r].found
           /\ reqs'[r].before = reqs[r].before
           /\ r \notin over => reqs'[r] = reqs[r]
           /\ r \in over => /\ reqs'[r].pc = "done" /\ reqs'[r].reply = reply
                            /\ reqs[r].pc # "done"
           /\ reqs'[r] \in RequestRecord
    BY DEF EndAll, AccountInv, TypeOK, RequestRecord, InFlight, AuthReply
  <1>2. DOMAIN reqs' = DOMAIN reqs
    BY DEF EndAll
  <1>3. TypeOK'
    BY <1>1, <1>2 DEF AccountInv, TypeOK
  <1>4. RequestsKnow'
    <2> SUFFICES ASSUME NEW q \in DOMAIN reqs
                 PROVE  RequestsKnow!(q)'
      BY <1>2 DEF RequestsKnow
    <2>1. CASE q \in over
      BY <2>1, <1>1 DEF AccountInv, RequestsKnow
    <2>2. CASE q \notin over
      BY <2>2, <1>1 DEF AccountInv, RequestsKnow
    <2> QED
      BY <2>1, <2>2
  <1>5. RowsAreSignups' /\ TokensAreLogins' /\ OneAccountPerAddress'
    BY <1>1, <1>2 DEF AccountInv, TypeOK, RowsAreSignups, TokensAreLogins,
       OneAccountPerAddress
  <1>6. TruthfulSignupReplies'
    BY <1>1, <1>2 DEF AccountInv, TruthfulSignupReplies, UsersWithEmail
  <1>7. SignedUpCanLogIn'
    <2> SUFFICES ASSUME NEW q \in DOMAIN reqs,
                        reqs'[q].reply = "InvalidCredentials",
                        NEW z \in reqs'[q].before
                 PROVE  ~ /\ reqs'[q].form.email.plain
                          /\ SameAddress(NormalizeEmail(reqs'[q].form.email),
                                         NormalizeEmail(reqs'[z].form.email))
                          /\ reqs'[q].form.password = reqs'[z].form.password
      BY <1>2 DEF SignedUpCanLogIn
    <2>1. q \notin over /\ reqs'[q] = reqs[q]
      BY <1>1
    <2>2. z \in DOMAIN reqs /\ reqs'[z].form = reqs[z].form
      BY <2>1, <1>1 DEF AccountInv, RequestsKnow, TypeOK
    <2> QED
      BY <2>1, <2>2 DEF AccountInv, SignedUpCanLogIn
  <1> QED
    BY <1>3, <1>4, <1>5, <1>6, <1>7 DEF AccountInv

LEMMA AccountStep == AccountInv /\ [Next]_vars => AccountInv'
  <1> SUFFICES ASSUME AccountInv, [Next]_vars PROVE AccountInv'
    OBVIOUS
  <1>1. CASE UNCHANGED vars \/ Wait
    BY <1>1 DEF Wait, vars, AccountInv, TypeOK, RequestsKnow, RowsAreSignups,
       TokensAreLogins, OneAccountPerAddress, TruthfulSignupReplies,
       SignedUpCanLogIn, UsersWithEmail
  <1>2. ASSUME NEW r \in Request, NEW f \in Form,
               BeginSignup(r, f) \/ BeginLogin(r, f) \/ BeginLoginFails(r, f)
        PROVE  AccountInv'
    BY <1>2, BeginSignupKeeps, BeginLoginKeeps
  <1>3. ASSUME NEW r \in Request, NEW answered \in BOOLEAN,
               InsertUser(r, answered)
        PROVE  AccountInv'
    BY <1>3, InsertUserKeeps
  <1>4. ASSUME NEW r \in Request, IssueToken(r)
        PROVE  AccountInv'
    BY <1>4, IssueTokenKeeps
  <1>5. ASSUME NEW r \in Request, RequestFails(r)
        PROVE  AccountInv'
    <2>1. {r} \in SUBSET InFlight
      BY <1>5 DEF RequestFails, At, InFlight
    <2>2. EndAll({r}, "InternalError") /\ UNCHANGED <<users, tokens, now>>
      BY <1>5, <2>1 DEF RequestFails, EndRequest, EndAll, AccountInv, TypeOK,
         RequestRecord, InFlight
    <2> QED
      BY <2>1, <2>2, EndKeeps
  <1>6. CASE Restart
    <2>1. EndAll(InFlight, "NoReply") /\ UNCHANGED <<users, tokens, now>>
      BY <1>6 DEF Restart, EndAll
    <2> QED
      BY <2>1, EndKeeps
  <1>7. CASE Tick
    <2>1. now' \in 0 .. MaxTime /\ UNCHANGED <<users, reqs, tokens>>
      BY <1>7, TimeAssumption DEF Tick, AccountInv, TypeOK
    <2> QED
      BY <2>1 DEF AccountInv, TypeOK, RequestsKnow, RowsAreSignups,
         TokensAreLogins, OneAccountPerAddress, TruthfulSignupReplies,
         SignedUpCanLogIn, UsersWithEmail
  <1> QED
    BY <1>1, <1>2, <1>3, <1>4, <1>5, <1>6, <1>7 DEF Next

-----------------------------------------------------------------------------
(* Theorems. *)

\* The table, the requests and the tokens keep their types; in particular
\* every stored address is normalized, for any interleaving and failures.
THEOREM AccountsTyped == Spec => []TypeOK
  <1>1. AccountInv => TypeOK
    BY DEF AccountInv
  <1> QED
    BY <1>1, AccountInit, AccountStep, PTL DEF Spec

\* An address has one account, whatever signups overlap.
THEOREM AddressesUnique == Spec => []OneAccountPerAddress
  <1>1. AccountInv => OneAccountPerAddress
    BY DEF AccountInv
  <1> QED
    BY <1>1, AccountInit, AccountStep, PTL DEF Spec

\* What a signup is told of its account is true, and stays true.
THEOREM SignupsToldTheTruth == Spec => []TruthfulSignupReplies
  <1>1. AccountInv => TruthfulSignupReplies
    BY DEF AccountInv
  <1> QED
    BY <1>1, AccountInit, AccountStep, PTL DEF Spec

\* A password that was accepted at signup is accepted at every later login.
THEOREM PasswordsKept == Spec => []SignedUpCanLogIn
  <1>1. AccountInv => SignedUpCanLogIn
    BY DEF AccountInv
  <1> QED
    BY <1>1, AccountInit, AccountStep, PTL DEF Spec

\* Nobody is let in without a login of that account within the TTL.
THEOREM CallersKnown == Spec => []CallerLoggedIn
  <1>1. AccountInv => CallerLoggedIn
    <2> SUFFICES ASSUME AccountInv, NEW h \in Headers, Accepts(h)
                 PROVE  CallerLoggedIn!(h)!2
      BY DEF CallerLoggedIn
    <2>1. PICK t \in DOMAIN tokens : tokens[t].sub = h.sub /\ tokens[t].exp = h.exp
      BY DEF Headers, Accepts, Parses
    <2>2. /\ tokens[t].issued \in Nat /\ now \in Nat
          /\ tokens[t].exp = Expiry(tokens[t].issued)
      BY DEF AccountInv, TypeOK, Token, TokensAreLogins
    <2>3. now < tokens[t].issued + TTL
      BY <2>1, <2>2, ExpiryBounds, TimeAssumption DEF Accepts, Parses
    <2> QED
      BY <2>1, <2>3 DEF AccountInv, TokensAreLogins
  <1> QED
    BY <1>1, AccountInit, AccountStep, PTL DEF Spec

\* No token is refused until less than a second of its lifetime is left.
THEOREM TokensLast == Spec => []TokenLastsItsTTL
  <1>1. AccountInv => TokenLastsItsTTL
    <2> SUFFICES ASSUME AccountInv, NEW t \in DOMAIN tokens,
                        now + TimePrecision <= tokens[t].issued + TTL
                 PROVE  now < tokens[t].exp
      BY DEF TokenLastsItsTTL, Accepts, Parses
    <2>1. /\ tokens[t].issued \in Nat /\ now \in Nat
          /\ tokens[t].exp = Expiry(tokens[t].issued)
      BY DEF AccountInv, TypeOK, Token, TokensAreLogins
    <2> QED
      BY <2>1, ExpiryBounds, TimeAssumption
  <1> QED
    BY <1>1, AccountInit, AccountStep, PTL DEF Spec
=============================================================================
