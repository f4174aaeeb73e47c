------------------------- MODULE OrderPaymentLedger -------------------------
(***************************************************************************)
(* How OrderPayment implements PaymentLedger, in two ways: the payments    *)
(* alone keep the ledger in every environment, and in a quiet one the      *)
(* orders show it too.                                                     *)
(***************************************************************************)
EXTENDS OrderPayment

\* The ledger's state of an order, read off the payments.
BookedState(o) ==
    IF o \notin drawn THEN "unplaced"
    ELSE IF ~Exists(o) THEN "removed"
    ELSE IF PaymentsOf(o) = {} THEN "unpaid"
    ELSE LET p == CHOOSE p \in PaymentsOf(o) : TRUE
         IN  IF Settled(p) THEN payments[p].status ELSE "initiated"

\* Outcomes can be relied on until references repeat, if the provider does
\* not contradict itself.
OutcomesStand == "conflict" \notin Env /\ epoch = 0

Books == INSTANCE PaymentLedger
            WITH ledger <- [o \in OrderId |-> BookedState(o)],
                 final  <- OutcomesStand

\* Whatever fails, restarts or interleaves, the statements of Create and of
\* ApplyProviderCallback keep the books: an order is paid at most once, from
\* unpaid over initiated to an outcome and never back, and the outcome stands
\* as long as callbacks can be relied on.
KeepsBooks == Books!LedgerSpec

-----------------------------------------------------------------------------
\* The status the order will have when the handlers in flight have returned.
StatusDue(o) ==
    LET advancing == {d \in DOMAIN dlv : dlv[d].pc = "advance" /\ dlv[d].order = o}
        marking   == {a \in DOMAIN att : att[a].pc = "mark" /\ att[a].order = o}
    IN  IF advancing # {}
        THEN OrderStatusFor(dlv[CHOOSE d \in advancing : TRUE].status)
        ELSE IF marking # {} THEN "pending_payment" ELSE orders[o].status

\* Order and payment disagree for good: whatever is in flight, the order will
\* not show what is in the books.
Torn(o) ==
    /\ Exists(o)
    /\ LET booked == BookedState(o)
       IN  StatusDue(o) # CASE booked = "unpaid"    -> "pending"
                            [] booked = "initiated" -> "pending_payment"
                            [] OTHER -> OrderStatusFor(booked)

\* Whom a step tells with 500 that his request concerning o was not done.
FailureReported(o) ==
    \/ \E a \in DOMAIN att : /\ att[a].order = o /\ att[a].pc # "done"
                             /\ att'[a].reply = "InternalError"
    \/ \E d \in DOMAIN dlv : /\ dlv[d].order = o /\ dlv[d].pc # "done"
                             /\ dlv'[d].reply = "InternalError"

\* A callback has settled the payment of o before Create gets to its last
\* statement, which will overwrite what o shows (service.go:66, run `early`).
Overtaken(o) == \E a \in PaymentsOf(o) : att[a].pc = "mark" /\ Settled(a)

\* Statements may fail, and then order and payment may come apart for good:
\* a repeated callback returns before it gets to the order.  But unless a
\* callback overtakes Create it is never behind everybody's back: the step
\* that tears them apart answers 500 to the client or the provider whose
\* request it was, or is the end of the process.
NoSilentSplit ==
    [][\A o \in OrderId :
          OutcomesStand /\ Torn(o)' /\ ~Torn(o) =>
              epoch' # epoch \/ FailureReported(o) \/ Overtaken(o)]_vars

\* "torn" is no state of the ledger.
Ledger == INSTANCE PaymentLedger
             WITH ledger <- [o \in OrderId |-> IF Torn(o) THEN "torn"
                                                          ELSE BookedState(o)],
                  final  <- TRUE

\* In an environment without faults and with a consistent provider that waits
\* for the reply of Create, the separate autocommitted statements of Create
\* and of ApplyProviderCallback have the effect of transactions, however many
\* requests, callbacks, edits and deletions run in between.
ImplementsLedger == Ledger!LedgerSpec
=============================================================================
