------------------------------ MODULE Accounts ------------------------------
(***************************************************************************)
(* The auth component and the middleware in front of every other route:    *)
(* POST /auth/signup and /auth/login, the table `users`, and the tokens.   *)
(*                                                                         *)
(* A signup is one statement, after a hash that takes a quarter of a       *)
(* second; a login is one statement, before a comparison as long.  Between *)
(* the two parts of a request other requests run and time passes.  A token *)
(* is kept by the client: the server only signs it and checks it.          *)
(***************************************************************************)
EXTENDS Tables, Integers

CONSTANTS
    Request,         \* the signups and logins of a behaviour
    Form,            \* the bodies they may have
    TTL,             \* JWT_TTL, in ticks
    TimePrecision,   \* jwt.TimePrecision, a second, in ticks
    MaxTime          \* bound: the last tick of a behaviour

\* An address is the mailbox it names and how it was spelled: in upper case,
\* with blanks around it, or not plainly an address at all.  A password is
\* its first 72 bytes and its length.  Load has checked the TTL.
Address  == [box : STRING, upper : BOOLEAN, padded : BOOLEAN, plain : BOOLEAN]
Password == [head : STRING, size : Nat]

ASSUME FormAssumption ==
    \A f \in Form : /\ f.email \in Address
                    /\ f.named \in BOOLEAN
                    /\ f.password \in Password

ASSUME TimeAssumption == /\ TTL \in Nat \ {0}
                         /\ TimePrecision \in Nat \ {0}
                         /\ MaxTime \in Nat

VARIABLES
    users,    \* the table; a row's id is the signup that inserted it
    reqs,     \* the requests begun so far, finished ones included
    tokens,   \* the tokens signed so far, by the login that was given it
    now       \* the clock

vars == <<users, reqs, tokens, now>>

\* What the column holds is normalized.
StoredAddress == [box : STRING, upper : {FALSE}, padded : {FALSE}, plain : {TRUE}]

UserRow == [email : StoredAddress, digest : STRING]

AuthReply == {"none", "Created", "OK", "InvalidEmail", "InvalidName",
              "PasswordTooShort", "PasswordTooLong", "EmailAlreadyExists",
              "InvalidCredentials", "InternalError", "NoReply"}

\* found is the row a login read, or none; before is history: the signups
\* that had been answered with 201 when the request began.
RequestRecord == [pc     : {"insert", "compare", "done"},
                  form   : Form,
                  found  : SUBSET [id : Request, digest : STRING],
                  before : SUBSET Request,
                  reply  : AuthReply]

\* sub and exp are claims of the token, issued is history.
Token == [sub : Request, exp : Nat, issued : Nat]

TypeOK == /\ DOMAIN reqs \subseteq Request
          /\ \A r \in DOMAIN reqs : reqs[r] \in RequestRecord
          /\ DOMAIN users \subseteq DOMAIN reqs
          /\ \A u \in DOMAIN users : users[u] \in UserRow
          /\ DOMAIN tokens \subseteq DOMAIN reqs
          /\ \A t \in DOMAIN tokens : tokens[t] \in Token
          /\ now \in 0 .. MaxTime

Init == /\ users = EmptyTable
        /\ reqs = EmptyTable
        /\ tokens = EmptyTable
        /\ now = 0

-----------------------------------------------------------------------------
(* What is in a form. *)

MinPasswordLen == 8
MaxPasswordLen == 72

\* Mutant: only TrimSpace.
TrimEmail(a) == [a EXCEPT !.padded = FALSE]

\* TrimSpace and ToLower.  What ParseAddress would not give back as it is,
\* such as a display name with an address, is refused: plain.
NormalizeEmail(a) == [a EXCEPT !.upper = FALSE, !.padded = FALSE]

\* Equality of the column's type, citext.
SameAddress(a, b) == a.box = b.box /\ a.padded = b.padded

\* Signup's checks, in their order.
SignupVerdict(f) ==
    IF ~f.email.plain THEN "InvalidEmail"
    ELSE IF ~f.named THEN "InvalidName"
    ELSE IF f.password.size < MinPasswordLen THEN "PasswordTooShort"
    ELSE IF f.password.size > MaxPasswordLen THEN "PasswordTooLong"
    ELSE "none"

\* bcrypt hashes 72 bytes.  Generate refuses more than that; Compare, which
\* a login calls with whatever it was sent, looks at the first 72.
Digest(p) == p.head

\* The rows WHERE email = $1 finds: one or none, see OneAccountPerAddress.
UsersWithEmail(a) == {u \in DOMAIN users : SameAddress(users[u].email, a)}

\* What SELECT takes of them.
Select(a) == {[id |-> u, digest |-> users[u].digest] : u \in UsersWithEmail(a)}

At(r, pc) == r \in DOMAIN reqs /\ reqs[r].pc = pc

EndRequest(r, reply) ==
    reqs' = [reqs EXCEPT ![r].pc = "done", ![r].reply = reply]

Answered201 == {r \in DOMAIN reqs : reqs[r].reply = "Created"}

BeginRequest(r, f, pc, found, reply) ==
    /\ r \notin DOMAIN reqs
    /\ reqs' = InsertRow(reqs, r, [pc     |-> pc,
                                   form   |-> f,
                                   found  |-> found,
                                   before |-> Answered201,
                                   reply  |-> reply])
    /\ UNCHANGED <<users, tokens, now>>

-----------------------------------------------------------------------------
(* Service.Signup. *)

\* The checks, and the hash.
BeginSignup(r, f) ==
    LET verdict == SignupVerdict(f)
    IN  BeginRequest(r, f, IF verdict = "none" THEN "insert" ELSE "done",
                     {}, verdict)

\* Mutant: the address was looked up before the hash, and there is no index.
InsertUserUnchecked(r, answered) ==
    /\ At(r, "insert")
    /\ users' = InsertRow(users, r, [email  |-> NormalizeEmail(reqs[r].form.email),
                                     digest |-> Digest(reqs[r].form.password)])
    /\ EndRequest(r, IF answered THEN "Created" ELSE "InternalError")
    /\ UNCHANGED <<tokens, now>>

\* Mutant: an INSERT that finds the address taken replaces the password.
InsertUserUpserting(r, answered) ==
    LET email == NormalizeEmail(reqs[r].form.email)
        row   == [email |-> email, digest |-> Digest(reqs[r].form.password)]
        taken == UsersWithEmail(email)
    IN  /\ At(r, "insert")
        /\ users' = IF taken = {} THEN InsertRow(users, r, row)
                    ELSE [u \in DOMAIN users |-> IF u \in taken THEN row
                                                 ELSE users[u]]
        /\ EndRequest(r, IF answered THEN "Created" ELSE "InternalError")
        /\ UNCHANGED <<tokens, now>>

\* The INSERT, under the unique index on email.
InsertUser(r, answered) ==
    LET email == NormalizeEmail(reqs[r].form.email)
    IN  /\ At(r, "insert")
        /\ \/ /\ UsersWithEmail(email) # {}
              /\ answered
              /\ EndRequest(r, "EmailAlreadyExists")
              /\ UNCHANGED users
           \/ /\ UsersWithEmail(email) = {}
              /\ users' = InsertRow(users, r,
                             [email  |-> email,
                              digest |-> Digest(reqs[r].form.password)])
              /\ EndRequest(r, IF answered THEN "Created" ELSE "InternalError")
        /\ UNCHANGED <<tokens, now>>

-----------------------------------------------------------------------------
(* Service.Login. *)

\* Mutant: the address is looked up as it was typed.
BeginLoginVerbatim(r, f) ==
    LET found   == Select(f.email)
        refused == ~f.email.plain \/ f.password.size = 0 \/ found = {}
    IN  IF refused THEN BeginRequest(r, f, "done", {}, "InvalidCredentials")
                   ELSE BeginRequest(r, f, "compare", found, "none")

\* The checks and the SELECT.
BeginLogin(r, f) ==
    LET found   == Select(NormalizeEmail(f.email))
        refused == ~f.email.plain \/ f.password.size = 0 \/ found = {}
    IN  IF refused THEN BeginRequest(r, f, "done", {}, "InvalidCredentials")
                   ELSE BeginRequest(r, f, "compare", found, "none")

\* The SELECT fails.
BeginLoginFails(r, f) ==
    /\ f.email.plain /\ f.password.size # 0
    /\ BeginRequest(r, f, "done", {}, "InternalError")

\* Mutant: the lifetime is counted in whole seconds, from the last one.
ExpiryInSeconds(t) ==
    (t \div TimePrecision + TTL \div TimePrecision) * TimePrecision

\* jwt.NewNumericDate truncates to the precision.
Expiry(t) == ((t + TTL) \div TimePrecision) * TimePrecision

\* Compare and Generate, which may fail to sign.
IssueToken(r) ==
    /\ At(r, "compare")
    /\ \E u \in reqs[r].found :
          \/ /\ Digest(reqs[r].form.password) # u.digest
             /\ EndRequest(r, "InvalidCredentials")
             /\ UNCHANGED tokens
          \/ /\ Digest(reqs[r].form.password) = u.digest
             /\ tokens' = InsertRow(tokens, r, [sub    |-> u.id,
                                                exp    |-> Expiry(now),
                                                issued |-> now])
             /\ EndRequest(r, "OK")
          \/ /\ Digest(reqs[r].form.password) = u.digest
             /\ EndRequest(r, "InternalError")
             /\ UNCHANGED tokens
    /\ UNCHANGED <<users, now>>

-----------------------------------------------------------------------------
(* The middleware. *)

\* The Authorization headers a request may bring: none or not a bearer's, or
\* a token with any claims; but only the server signs.
Headers ==
    {h \in [bearer : BOOLEAN, signed : BOOLEAN,
            sub : DOMAIN users, exp : 0 .. (MaxTime + TTL)] :
        h.signed => \E t \in DOMAIN tokens : /\ tokens[t].sub = h.sub
                                             /\ tokens[t].exp = h.exp}

\* Parse: the signature and the date.
Parses(h) == h.signed /\ now < h.exp

\* Mutant: the signature is not verified.
AcceptsUnsigned(h) == h.bearer /\ now < h.exp

\* RequireAuth.  Whom the handlers then act for, RequireUserID, is the subject.
Accepts(h) == h.bearer /\ Parses(h)

-----------------------------------------------------------------------------
(* Failures, the process, and time. *)

\* The hash or the INSERT fails; nothing was applied.
RequestFails(r) == /\ At(r, "insert")
                   /\ EndRequest(r, "InternalError")
                   /\ UNCHANGED <<users, tokens, now>>

InFlight == {r \in DOMAIN reqs : reqs[r].pc # "done"}

\* The process ends and another one starts, with the same secret.
Restart ==
    /\ InFlight # {}
    /\ reqs' = [r \in DOMAIN reqs |->
                   IF r \in InFlight
                   THEN [reqs[r] EXCEPT !.pc = "done", !.reply = "NoReply"]
                   ELSE reqs[r]]
    /\ UNCHANGED <<users, tokens, now>>

Tick == /\ now < MaxTime
        /\ now' = now + 1
        /\ UNCHANGED <<users, reqs, tokens>>

\* The server waits for requests.
Wait == InFlight = {} /\ UNCHANGED vars

Next == \/ \E r \in Request, f \in Form : \/ BeginSignup(r, f)
                                          \/ BeginLogin(r, f)
                                          \/ BeginLoginFails(r, f)
        \/ \E r \in Request : \/ \E answered \in BOOLEAN : InsertUser(r, answered)
                              \/ IssueToken(r)
                              \/ RequestFails(r)
        \/ Restart
        \/ Tick
        \/ Wait

Spec == Init /\ [][Next]_vars

-----------------------------------------------------------------------------
(* Properties. *)

\* What two accounts may not share, however signups with one address in
\* several spellings overlap: all of them have passed the checks.
OneAccountPerAddress ==
    \A u, v \in DOMAIN users :
        SameAddress(users[u].email, users[v].email) => u = v

\* 201 is said only of an account that has the address and the password that
\* were sent; 409 only when another signup has the address; and no signup
\* that was refused with 4xx leaves an account.
TruthfulSignupReplies ==
    \A r \in DOMAIN reqs :
        LET email == NormalizeEmail(reqs[r].form.email)
        IN  /\ reqs[r].reply = "Created" =>
                  /\ r \in DOMAIN users
                  /\ users[r] = [email  |-> email,
                                 digest |-> Digest(reqs[r].form.password)]
            /\ reqs[r].reply = "EmailAlreadyExists" =>
                  UsersWithEmail(email) \ {r} # {}
            /\ reqs[r].reply \in {"InvalidEmail", "InvalidName",
                                  "PasswordTooShort", "PasswordTooLong",
                                  "EmailAlreadyExists"} =>
                  r \notin DOMAIN users

\* Who was told 201 can log in from then on with that password, with the
\* address in any spelling that is still plainly an address: such a login is
\* not told that its credentials are invalid, whatever other signups do.
SignedUpCanLogIn ==
    \A r \in DOMAIN reqs :
        reqs[r].reply = "InvalidCredentials" =>
            \A s \in reqs[r].before :
                ~ /\ reqs[r].form.email.plain
                  /\ SameAddress(NormalizeEmail(reqs[r].form.email),
                                 NormalizeEmail(reqs[s].form.email))
                  /\ reqs[r].form.password = reqs[s].form.password

\* Whoever a request acts for has logged in, less than the TTL ago, with the
\* address and (up to what bcrypt looks at) the password of that account.
CallerLoggedIn ==
    \A h \in Headers :
        Accepts(h) =>
            \E r \in DOMAIN tokens :
                /\ reqs[r].reply = "OK"
                /\ tokens[r].sub = h.sub
                /\ now < tokens[r].issued + TTL
                /\ SameAddress(users[h.sub].email,
                               NormalizeEmail(reqs[r].form.email))
                /\ users[h.sub].digest = Digest(reqs[r].form.password)

\* A token is good for the TTL, up to the second the dates are truncated to.
\* (One with a TTL of less than a second may be refused from the start.)
TokenLastsItsTTL ==
    \A r \in DOMAIN tokens :
        now + TimePrecision <= tokens[r].issued + TTL =>
            Accepts([bearer |-> TRUE, signed |-> TRUE,
                     sub |-> tokens[r].sub, exp |-> tokens[r].exp])
=============================================================================
