# Verification of the order and payment service

TLA+ modules, TLC configurations and TLAPS proofs for the Go service in
`src/`: users place orders, pay them through a gateway that (in this
repository) is a mock, and the provider reports the outcome through signed
webhooks. This file says what the system consists of, what is modelled and how,
what is checked and proved, and what is not.

## 1. The system

One stateless HTTP process (`cmd/server/main.go`, `internal/server`) over one
PostgreSQL database. Every request runs in its own goroutine. **No handler opens
a transaction and no handler holds a lock across two database calls**: every SQL
statement commits by itself, and between two statements of a handler any other
handler may run. Nearly all hard behaviour of this program comes from that.

| Component | State it keeps | Operations | Talks to |
|---|---|---|---|
| order (`internal/order`) | table `orders` | POST, GET, LIST, PUT, DELETE `/orders`; `UpdateStatus`, `AdvanceStatus` for other components | database |
| payment (`internal/payment`) | table `payments`; `MockGateway.counter` in memory | POST, GET `/payments`; `ApplyProviderCallback` | order (calls), gateway (call), database |
| webhook (`internal/webhook`) | none | POST `/webhooks/payment` | payment (call) |
| upload (`internal/upload`) | table `uploads`, files under a base directory | POST, GET `/uploads` | order (call), file system, database |
| auth (`internal/auth`, `internal/middleware`) | table `users` | POST `/auth/signup`, `/auth/login`; the JWT check in front of every other route | database |
| server lifecycle (`internal/server/server.go`, `cmd/server/main.go`) | listener, signal, pools | start, serve, graceful shutdown | everything |
| health (`internal/server/health.go`, `internal/cache`) | none | `/healthz`, `/readyz` | database, Redis (ping) |
| database pool (`internal/database`) | open and idle connections, those who wait | take, release, close | |
| configuration (`internal/config`) | none after start | `Load` | environment |
| logging, response envelope | none | | |

Foreign keys tie the tables together: `payments.order_id` is UNIQUE and
cascades on delete, so does `uploads.order_id`.

What makes each component correct, and what is hard about it:

* **order**: only the owner reads, changes or deletes; a row always satisfies its
  constraints. Hard: the status is written by two other code paths with no guard on
  the old status, and PUT/DELETE are possible in every status.
* **payment**: at most one payment per order, made by the order's owner, for the
  amount charged; order and payment tell the same story, or somebody has been told
  that something failed. Hard: `Create` is a read, a gateway call and two writes; the
  provider may call back between them; each may fail, or succeed without the handler
  learning of it; the process may stop anywhere.
* **webhook**: only signed verdicts have an effect, repeated ones have none, an
  outcome is final. Hard: check and update are separate statements, callbacks run in
  parallel, and the reference they carry is unique only within one life of the process.
* **upload**: a row points to a complete file; hard: file and row are not written
  together.
* **auth**: an address has one account, who was told 201 can log in, and whoever a
  request acts for has logged in. Hard: hashing takes a quarter of a second between
  the checks and the statement, so signups overlap; the dates of a token are
  truncated.
* **server lifecycle**: handlers finish or are cut off by the deadline, pools are
  closed last, the exit code says which. Hard: the signal, the listener's error, the
  start-up timeout and the shutdown deadline race each other and the handlers.
* **health, database pool**: never more connections than configured, nobody waits
  for ever, a probe tells the truth and in time. Hard: probes and handlers compete
  for the same connections while statements hang, break and expire and the pool closes.
* **configuration**: what passes is fit to run with; a number that does not parse is 0.

## 2. The modules

| Module | Models |
|---|---|
| `Tables` | a table as a function from the keys that exist to rows; INSERT, DELETE |
| `Numeric` | the `numeric(24, 8)` columns: rounding, range, CHECKs |
| `Orders` | `internal/order`: the table, validators, constraints, statements |
| `Payments` | `payment.Service.Create`, one action per call, the gateway, the table |
| `Webhook` | the provider, `webhook.Service.Process`, `ApplyProviderCallback`, one action per statement |
| `OrderPayment` | the composition, restarts, `Next`, fairness and all properties |
| `PaymentLedger` | the abstract promise: an order and its payment move together, one payment, one outcome |
| `OrderPaymentLedger` | two refinement mappings from `OrderPayment` to `PaymentLedger` |
| `PaymentView` | `payment.Service.Get`, two statements, beside everything in `OrderPayment` |
| `OrderPaymentProofs` | theorems about `OrderPayment` in every environment |
| `AgreementProofs` | theorems about it with a provider that does not contradict itself; the refinement by the payments alone, in every environment |
| `QuietProofs` | theorems about orders and their payments agreeing: when statements fail, and when nothing does; the refinement by orders and payments |
| `PaymentViewProofs` | theorems about what `GET /payments/:id` shows |
| `Uploads` | `internal/upload`: `Service.Create` and `LocalStorage.Save`, one action per call; the table and the files |
| `OrderUpload` | the composition with orders that come and go, crashes, `Next` and all properties |
| `UploadShelf` | the abstract promise: a document is stored whole and acknowledged in one step, or not at all |
| `OrderUploadShelf` | the refinement mapping from `OrderUpload` to `UploadShelf` |
| `OrderUploadProofs` | the theorems about `OrderUpload`, the refinement included |
| `Accounts` | `internal/auth` and the middleware: signup and login, the table `users`, tokens and the clock |
| `AccountsProofs` | the theorems about `Accounts` and their proofs |
| `Configuration` | what `config.Load` lets through |
| `ConnectionPool` | the handlers as users of the pool of `database/sql`, `/readyz` |
| `Lifecycle` | `main.run` and `Server.Run` around them: start, serving, shutdown, exit; fairness and all properties |
| `LifecycleProofs` | the theorems about `Lifecycle` and their proofs |
| `MCOrderPayment`, `MCPaymentView`, `MCOrderUpload`, `MCAccounts`, `MCLifecycle` | small instances for TLC |

By EXTENDS: `Orders <- Payments <- Webhook <- OrderPayment <- OrderPaymentLedger <-
MCOrderPayment`, `OrderPayment <- PaymentView <- MCPaymentView`, `Orders <- Uploads <-
OrderUpload <- OrderUploadShelf <- MCOrderUpload`, `Accounts <- MCAccounts`, and `Configuration <-
ConnectionPool <- Lifecycle <- MCLifecycle`; the proof modules extend the compositions
(`OrderPaymentProofs <- AgreementProofs <- QuietProofs` and `AgreementProofs, PaymentView
<- PaymentViewProofs`).

Uploads and payments meet only in the table `orders`, and an upload looks at nothing
of an order but its existence and its owner, so they are two compositions and not one.
Accounts meet the rest in the caller's identity only, which is a parameter (`u`) of
every request elsewhere; that it is somebody who logged in is `CallerLoggedIn`. The
process meets the data only by ending: `Lifecycle` says when it ends and what becomes
of the requests in flight, `Restart` and `Crash` elsewhere what that does to the data.

### State

| Variable | In the program |
|---|---|
| `orders`, `payments` | the rows that exist, by key. The key of a payment is the request that inserted it, so that UNIQUE (`order_id`) is a constraint of its own and not built into the representation |
| `drawn` | history: the order ids ever used (UUIDs do not repeat) |
| `counter` | `MockGateway.counter`; 0 again after a restart |
| `att` | each `POST /payments` request: program counter, the local variables that survive a call (`amount`, the gateway's `ref`), its reply. Finished requests stay as history |
| `dlv` | each callback in flight (and the last one of each slot): the payment found, the order id read with it, the status it carries, its reply |
| `sent` | what the provider has decided on each charge |
| `epoch`, `crashes` | how often the process restarted |
| `uploads` | the rows, by the request that inserted them |
| `disk` | the files, by the request that drew their name (a UUID); a file is the set of positions of the part that were written |
| `jobs` | each `POST /uploads` request: program counter, the part, the read position in it, its reply |
| `views` | edit, delete, early, one restart; 1 order, 2 requests, 2 users, who also look at a payment again and again | `PaymentHasOwnersOrder`, `NeverReopened`; `NotFoundMeansGone`, `ReadsNeverGoBack`, `TakenOutcomeIsShown`, `ShownToOwner` of what GET shows |
| `stored` | uploads: calls fail, one crash; 2 orders, 2 uploads, five parts of the lengths 0, 1, largest, one more, and of a refused type | `TypeOK`, `ShownToSender`, `TruthfulUploadReplies`; `ImplementsShelf`: the code implements `UploadShelf` |
| `accepted` | uploads: nothing fails, orders are deleted; weak fairness of handlers | `AcceptedUploadIsStored` |
| `accounts` | 3 signups or logins, nine forms: two mailboxes in several spellings, passwords of every boundary length; calls fail, answers are lost, restarts, a clock | `TypeOK`, `OneAccountPerAddress`, `TruthfulSignupReplies`, `SignedUpCanLogIn`, `CallerLoggedIn`, `TokenLastsItsTTL` |
| `process` | five configurations, two of them fit to run with; 2 clients with up to 2 statements and a prober; statements may hang, break and fail | `TypeOK`, `PoolBounded`, `CleanExit`, `NothingLeftOpen`, `ReadyWhileOpen`; `StartupEnds`, `StopEnds`, `ProbeAnswered`, `RequestsEnd` |
| `early`, `conflict`, `restart`, `duplicate` | the one liberty named (`duplicate`: none) | a disagreement between documentation and code each, see section 5 |

No passing run lets the provider contradict itself: what holds in spite of that is
proved for every environment (`OrderPaymentProofs`, section 4), and what does not is
`conflict`.

Deadlock is checked in every run. A server with nothing to do waits (`Wait`, enabled
only when no request is in flight), so a deadlock would be a request that can neither
go on nor end. A process that has exited stays so (`Stopped`).

**Bounds.** Two requests to pay the same order are what a race for it needs; a third
one only repeats the role of the second. Two callback slots are reused without limit,
so the number of callbacks is unbounded and two overlap. Two orders are needed where
references or rows of different orders could be confused (`consistent`, `retry`,
`restart`), one elsewhere. One restart suffices to repeat a reference. Users,
requests, orders and slots are interchangeable, hence symmetry where nothing is said
of liveness and the states are many. Two uploads suffice for the same reason as two
payments; they share nothing but the order, and a part of three positions is copied in
every way that matters: at once, in pieces, not to the end. Three auth requests are
two signups that race and a login that meets their outcome; a clock of eight ticks is
more than the TTL of five and the two seconds it touches. Two clients and a prober for
one or two connections make somebody wait, be handed a connection, get a new one, and
be refused; slots are reused, so the number of requests is unbounded.

**Fairness.** `Fairness` is weak fairness of each request's and each callback's next
step: a goroutine is scheduled and a statement ends, successfully in the runs without
`"fault"`. Nothing is assumed of new requests. `ProviderRetries` is an assumption on the
provider, used by `retry` only (`RetrySpec`): strong fairness of `ReportVerdict(a)`, that a
callback with a verdict on charge `a` is received and finds a row. The provider knows a
charge by its reference and nothing else; when two payments have it, which of them is
found is the database's choice, and nothing is assumed of that. It may be the settled
one every time, and the other stays pending for ever, so `VerdictLands` promises only
that one of them takes the verdict.

In `Lifecycle`, `ProcessFairness` is what the runtime gives `run`: its goroutine goes
on, timers fire, and a ping returns when its context is done. It assumes nothing of
clients, statements or handlers, and `StartupEnds` and `StopEnds` need no more.
`HandlerFairness` is that handlers are scheduled and the deadline of a probe ends
its wait; `ProbeAnswered` holds even when no statement ever returns. `RequestsEnd` is
stated under `StatementsEnd`: statements end, and because the pool picks one of those
who wait at random, somebody who is passed over again and again is picked at last
(strong fairness).

**Refinement.** In `PaymentLedger` an order and its payment are one state:
unplaced, unpaid, initiated, paid or failed, removed. It moves from one to the next and
never back, but for `Overturn`, which is possible only while outcomes are not `final`.
The code implements it in two ways (`OrderPaymentLedger`):

* `KeepsBooks`: read off the payments alone (`BookedState`), in every environment.
  Outcomes are `final` as long as the provider is consistent and references have not
  repeated (`OutcomesStand`); `conflict` and `restart` show that neither condition can
  be left out.
* `ImplementsLedger`: read off orders and payments together, counting the update of
  the order that a handler is about to make as made (`StatusDue`); rows that disagree
  even so (`Torn`) map to a state the ledger does not have. This needs an environment
  without faults, early callbacks, contradictions and restarts; `quiet` shows that then
  the missing transactions do no harm.

Under faults rows do come apart: a callback's second UPDATE fails, and its repetition
returns before it gets there. `NoSilentSplit` says what is left in that case: the step
after which the order will not show its payment (`Torn`, whatever is still in flight)
is one that answers 500, or the end of the process. The exception is what `early` shows: a
callback that overtakes `Create` (`Overtaken`) leads to the same with two successful
answers.

In `UploadShelf` a document is offered and later appears on the shelf, whole, with its
acknowledgement or without, in one step; a shelf is emptied by deleting its order and
by nothing else. `OrderUploadShelf` maps each row of `uploads` to what it says and what
its file holds *at that moment*, so a partial copy, a file removed after its row was
written, or a second file under one name would be a step the shelf does not have.
`stored` checks it with failures and a crash at every point.

## 4. What is proved

Safety, for every value of the constants; liveness stays with TLC (the prover handles
neither fairness nor ENABLED).

`OrderPaymentProofs`, for every set of users, orders, requests, slots and bodies,
every `Env`, every `Scale` and every number of restarts, from the assumptions
`NumericAssumption`, `BodyAssumption` and `EnvAssumption` only:

* `TypeCorrect`: `Spec => []TypeOK`. Inductive with one addition: a request about to
  insert has a reference (`RefIssued`).
* `PaymentsUnique`, `PaymentsOwned`, `StatusesBacked` and `AttemptsToldTheTruth` (of
  `OnePaymentPerOrder`, `PaymentHasOwnersOrder`, `OrderStatusBacked`,
  `TruthfulAttemptReplies`). None is
  inductive: whether the row a request is about to write agrees with the rows there
  are depends on what the request read earlier. `InFlight` says what of that is still
  true: its order is still its user's or gone for good (`RequestOwnsOrder`), its
  payment exists exactly from the insert on, unless removed (`RequestInserts`), a
  callback past its first UPDATE has a settled payment behind it or no order any more,
  and any callback, ended ones included, names the order of its payment
  (`CallbackKnowsPayment`), and replies are about orders that were placed
  (`ReplyKnowsOrder`). One lemma per action shows `SafetyInv` preserved.
* `NothingReopens`: `Spec => NeverReopened`, step by step from `SafetyInv`.
* `VerdictsAreRespected`: `Spec => []VerdictRespected`, from the uniqueness of
  references within an epoch (`ReferencesUnique`) and callbacks in flight carrying a
  verdict on the payment they found (`CallbackIsGenuine`).
* `PaymentsReconcile`: `Spec => []ChargesReconcile`. Read from the payment's side: all
  that was charged under its reference is its order and its amount. That rests on
  `ReferencesUnique` (the gateway's mutex) and on the row being that of the request
  charged, although the order may have been edited or removed in between and other
  requests were charged at the same time.
* `RoundingError`: a column is within half a unit of the decimal stored.
* `PaymentsRecordWhatIsOwed`: while owners do not edit (`"edit" \notin Env`), a payment
  records quantity times price of its order, to half a unit. With edits it need not,
  while `ChargesReconcile`, which compares with the charge, still holds. An
  amount is computed once (`AmountsAreComputedOnce`) and nothing but PUT changes what
  an order costs (`OrdersKeepTheirPrice`).

`AgreementProofs`: `SettledOrdersAgree` and `CallbacksToldTheTruth`. Both properties
are about a provider that does not contradict itself and the first life of the
process; the invariant (`ConsistentInv`) is therefore an implication from that: a
charge has one verdict (`OneVerdict`), callbacks carry it and know their payment
(`CallbacksGenuine`, `CallbacksFoundPayment`), one answered 200 has settled it
(`TakenIsSettled`), and what orders show agrees (`OutcomesAgree`).

The module also proves, under exactly the conditions that a run shows to be necessary,
two of the claims of section 5:

* `OutcomesAreFinal` (of `OutcomeIsFinal`), if `"conflict" \notin Env` and
  `MaxRestarts = 0`: the only step that writes an outcome is the first UPDATE of a
  callback (`OutcomeWritten`), and the callback carries the outcome that is there
  (`WritesTheOutcome`). `OutcomeStays` is the same step by step, for the first life of
  a process that may restart.
* `ReferencesFindTheirPayment` (of `ReferenceFindsItsPayment`), if `MaxRestarts = 0`: the
  lookup by a payment's reference can find that payment only, and its outcome is one of
  the provider's verdicts on its own charge.

* `BooksAreKept`: `Spec => KeepsBooks`, the refinement that holds in every environment.
  `BookFacts` reads the ledger's state of an order off the tables; then there is one
  lemma per kind of step: placing, removing, inserting and settling move one entry of
  the ledger (`PlacingIsBooked` and so on, through `BooksMove`), everything else moves
  none (`BooksStay`). That a settled payment is overturned only while outcomes are not
  final is `OutcomeStays`.

`QuietProofs` is about orders and payments telling the same story. A payment is `Shown` if
its order shows it, or will when the callback that settled it or the request that made
it has returned. One lemma per action shows that it keeps every payment shown, but for
one whose request was overtaken (`KeepsShown`), or answers 500 (`KeepsShownOrTells`);
`CalmStep` puts them together.

* `SplitsAreReported`: `Spec => NoSilentSplit`, in every environment. `TornIfNotShown`:
  order and payment are torn apart exactly when the payment is not shown, so a step that
  tears them apart is one that did not keep it shown.
* `QuiescentStatesAgree`: `Spec => []QuiescentAgreement`. This and the two that follow
  have the further assumption `QuietEnv` (owners edit and delete, nothing else, and no
  restarts), under which every payment stays shown (`AllShown`): the provider speaks
  after the reply (`SpeaksAfterReply`), so no request is overtaken (`NobodyIsLate`).
* `CallbacksCascadeAtRest`: `Spec => [](Idle => CallbackCascades)`: what run `early`
  refutes holds whenever nothing is in flight. Without `Idle` it fails even here: of two
  callbacks with the same verdict the second is answered 200 while the first is still
  between its two UPDATEs.
* `LedgerImplemented`: `Spec => ImplementsLedger`. Nothing is ever torn (`NobodyIsTorn`,
  in both states of a step), so both mappings are the same and `BooksStep` applies.

`PaymentViewProofs`, for any set of clients looking beside all of the above, in every
environment and with restarts: `ViewTypeCorrect`, `NotFoundIsFinal`,
`ReadsAreMonotonic`, `OutcomesAreShown` and `OnlyOwnersSee` (of `TypeOKWithViews`,
`NotFoundMeansGone`, `ReadsNeverGoBack`, `TakenOutcomeIsShown`, `ShownToOwner`). A
reader does not care which step the others take, only what it may do to him:
`ReadersRely` says that (a request that is over stays over and its payment does not come
back, orders keep their users), `StepLetsReadersRely` that every step of
`OrderPayment` complies. With `NeverReopened` and, for outcomes,
`AgreementInv` it follows that what is so of a GET (`Right`) stays so while others run
(`WorldLeavesRight`); the four steps of a GET are one lemma each.

`OrderUploadProofs`, for all users, orders, uploads, parts and size limits, with
failures or without and any number of crashes, from `UploadAssumption` and
`CrashAssumption` besides the above:

* `UploadsTyped`, `UploadsToldTheTruth` (of `TypeOK`, `TruthfulUploadReplies`) and
  `RowsHaveFiles` (of `RowHasCompleteFile`, the part of the invariant the refinement rests on). That a
  row's file is complete is true because the request inserting it had copied to the
  end, so the invariant (`UploadInv`) says how far each request in flight has come
  (`JobProgress`), whose order it is for (`JobOwnsOrder`) and that no file is for an
  order yet to be placed (`FileOfPlacedOrder`, without which an order whose upload was
  acknowledged and went with it might be placed once more without it). `LocalStepKeeps` covers every step that
  touches one request and its file only.
* `UploadsShownToSender`: `Spec => []ShownToSender`, from `JobOwnsOrder`.
* `ShelfImplemented`: `Spec => ImplementsShelf`, from `UploadInv` in both states of a
  step. `EntriesWereOffered` says that what a row and its file hold is what was let in;
  with it the INSERT is the shelf's `Store` (`InsertingStores`), the other steps that
  touch rows or orders are `Open`, `Offer` and `Close`, and every step of
  `LocalStorage.Save`, every failure and every crash is none (`ShelfStays`).

`AccountsProofs`, for any requests, forms, TTL, precision and length of time, from
`FormAssumption` and `TimeAssumption`: `AccountsTyped`, `AddressesUnique`,
`SignupsToldTheTruth`, `PasswordsKept`, `CallersKnown`, `TokensLast`, one for each
property of the run. The invariant (`AccountInv`) adds what a request in flight knows
(`RequestsKnow`: a form about to be inserted has passed the checks, a row read still
exists and has the digest that was read), that rows are what signups sent
(`RowsAreSignups`) and tokens what logins were given (`TokensAreLogins`).
`ExpiryBounds` is the arithmetic of truncated dates.

`LifecycleProofs`, for any finite number of clients and probers, any number of
statements and any configurations, from `SettingsAssumption` and `PoolAssumption`:
`LifecycleTyped`, `PoolIsBounded`, `CleanExitIsClean`, `EverythingCloses`,
`ReadyIsTrue`, and `NobodyWaitsInVain`: while somebody waits nothing lies idle
(`NothingIdle`), and either a connection may be opened or somebody is using one; this is
the part of `RequestsEnd` that is a matter of safety. The invariant (`LifecycleInv`)
says which of pool, Redis client and exit code go with which phase of `run`
(`PhaseInv`), that there are no handlers before serving and none left after an orderly
shutdown (`NoHandlers`, `SlotsInv`), and that who holds a connection is using it
(`HoldersUse`), by which a connection handed over is counted once.

The inductive invariants were also checked by TLC on the instances of the runs.

Only model-checked: liveness (`OutcomeReachesOrder`, `VerdictLands`,
`AcceptedUploadIsStored`, `StartupEnds`, `StopEnds`, `ProbeAnswered`, `RequestsEnd`).

## 5. Where code and documentation disagree

1. `early`: `Create` writes `pending_payment` after the insert whatever the order's
   status has become. A callback handled in between is answered 200 and then
   overwritten; repeating it is a no-op. (README of the service, webhook flow, step 4.)
   Its section on trade-offs names a failure between the two statements; no failure
   is needed. Between the two UPDATEs of a callback the claim is also wrong for a
   moment, for a duplicate that is answered then; `CallbacksCascadeAtRest` says when it
   is true.
2. `conflict`: two overlapping callbacks with different statuses both pass the check
   on `pending`; the second overturns the first. (Webhook flow, step 5.)
   `OutcomesAreFinal`: without such callbacks and without restarts an outcome is final.
3. `restart`: references start over with the process and are not unique in the table.
   In the trace the payments of two orders have `PAY-000001`, and the verdict on one
   charge is looked up, finds the other order's payment and settles it. (Webhook flow, step 4.)
   `ReferencesFindTheirPayment`: without a restart a reference names one payment.
4. `duplicate`: an attempt that starts after the first one returned is told
   `ORDER_NOT_PAYABLE`, not `DUPLICATE_PAYMENT`. (Payment flow.)

## 6. Mutants

The modules contain variants of some definitions, marked `Mutant:`, each with one
plausible mistake (a missing constraint, an ignored error, a skipped check). They are
used by no specification. For every property of every passing run, replacing the
definition by its mutant makes TLC find the property violated.

## 7. Not modelled

* **Logging, response envelope**: formatting without state.
* **GET and LIST of orders, GET of uploads, `/`, `/healthz`**: one SELECT or none, so
  nothing can come between; `ShownToSender` states what the one of uploads finds.
* **Reading the configuration** (variables, `.env`, defaults, the DSN): only what
  comes of it, the refusal of an unreadable `.env` included.
* **Loss of power**: `LocalStorage.Save` closes a file and does not sync it, while the
  row is committed durably. What an unsynced file holds after the machine fails is up
  to the file system, not to this repository.
* **Several processes on one database**: the repository deploys one. References would
  repeat among them as they do after a restart.
* **go-redis** has time-outs and connections of its own; the model lets a ping fail at
  any moment and requires only that it returns when its context is done.
* **A listener that fails as the signal arrives** is not reported when `select` takes
  the signal: the process then exits with 0. The model has this behaviour and
  `CleanExit` is stated so as to allow it; no document says otherwise.
* **A shutdown timeout of 0** is not refused by `validate` and has passed when it is
  set; in the model the deadline may pass at any moment anyway.
