---------------------------- MODULE OrderPayment ----------------------------
(***************************************************************************)
(* One server process over one PostgreSQL database: orders, payments and   *)
(* callbacks running in parallel, with the process restarting between any  *)
(* two steps.                                                              *)
(***************************************************************************)
EXTENDS Webhook

CONSTANTS
    MaxRestarts   \* bound: how often the process restarts in a behaviour

VARIABLES
    epoch         \* how often it did

vars == <<orders, drawn, payments, counter, att, sent, dlv, epoch>>

\* "edit", "delete"  owners PUT and DELETE their orders
\* "early"           the provider may call back before Create has returned
\* "conflict"        the provider may contradict itself on a charge
\* "fault"           a statement or a gateway call may fail
ASSUME EnvAssumption ==
    /\ Env \subseteq {"edit", "delete", "early", "conflict", "fault"}
    /\ MaxRestarts \in Nat

TypeOK == OrdersTypeOK /\ PaymentsTypeOK /\ WebhookTypeOK /\ epoch \in Nat

Init == OrdersInit /\ PaymentsInit /\ WebhookInit /\ epoch = 0

-----------------------------------------------------------------------------
(* Requests on orders. *)

PostOrder(u, o, b) == /\ CreateOrder(u, o, b)
                      /\ UNCHANGED <<paymentVars, webhookVars, epoch>>

PutOrder(u, o, b) == /\ "edit" \in Env
                     /\ UpdateOrder(u, o, b)
                     /\ UNCHANGED <<paymentVars, webhookVars, epoch>>

RemoveOrder(u, o) == /\ "delete" \in Env
                     /\ DeleteOrder(u, o)
                     /\ CascadeDelete(o)
                     /\ UNCHANGED <<counter, att, webhookVars, epoch>>

(* A step of a request to pay, and of a callback. *)

AttemptStep(a) ==
    /\ \/ Charge(a)
       \/ \E answered \in Answers : InsertPayment(a, answered)
       \/ \E answered \in Answers : MarkOrder(a, answered)
    /\ UNCHANGED <<webhookVars, epoch>>

CallbackStep(d) ==
    /\ \E answered \in Answers : \/ UpdatePayment(d, answered)
                                 \/ AdvanceOrder(d, answered)
    /\ UNCHANGED epoch

(* The process ends, in an orderly way or not, and another one starts. *)

Restart == /\ epoch < MaxRestarts
           /\ epoch' = epoch + 1
           /\ PaymentsRestart
           /\ WebhookRestart
           /\ UNCHANGED orderVars

BeginAttempt(a, u, o) == /\ GetOrder(a, u, o)
                         /\ UNCHANGED <<webhookVars, epoch>>

Decide(a, v) == ProviderDecides(a, v) /\ UNCHANGED epoch

Receive(d, m, p) == ReceiveCallback(d, m, p) /\ UNCHANGED epoch

Fail == /\ \/ \E a \in Attempt : AttemptFails(a) /\ UNCHANGED webhookVars
           \/ \E d \in Slot : CallbackFails(d)
        /\ UNCHANGED epoch

\* No request is in flight.  The server then waits, for ever if the bounded
\* behaviour has no request left: any other state without a next step would
\* be a request that is stuck.
Idle == /\ \A a \in DOMAIN att : att[a].pc = "done"
        /\ \A d \in DOMAIN dlv : dlv[d].pc = "done"

Wait == Idle /\ UNCHANGED vars

Next ==
    \/ \E u \in User, o \in OrderId :
          \/ \E b \in Body : PostOrder(u, o, b) \/ PutOrder(u, o, b)
          \/ RemoveOrder(u, o)
          \/ \E a \in Attempt : BeginAttempt(a, u, o)
    \/ \E a \in Attempt : AttemptStep(a)
    \/ \E a \in Attempt, v \in Verdict : Decide(a, v)
    \/ \E d \in Slot, m \in Callbacks, p \in Attempt : Receive(d, m, p)
    \/ \E d \in Slot : CallbackStep(d)
    \/ Fail
    \/ Restart
    \/ Wait

Spec == Init /\ [][Next]_vars

\* Every goroutine is scheduled and every statement it waits for ends.
Fairness == /\ \A a \in Attempt : WF_vars(AttemptStep(a))
            /\ \A d \in Slot : WF_vars(CallbackStep(d))

\* The provider reports the verdict on a charge.  It knows the charge by its
\* reference only: which of the payments with that reference is found, if
\* there are several, is not the provider's choice.
ReportVerdict(a) ==
    \E d \in Slot, m \in Callbacks, p \in Attempt :
        /\ a \in DOMAIN att
        /\ m.signed /\ m.ref = att[a].ref /\ m.status \in sent[a]
        /\ Receive(d, m, p)

\* A provider that repeats its verdict on a charge until it is taken.
ProviderRetries == \A a \in Attempt : SF_vars(ReportVerdict(a))

FairSpec == Spec /\ Fairness

RetrySpec == FairSpec /\ ProviderRetries

-----------------------------------------------------------------------------
(* Words for the properties. *)

Exists(o) == o \in DOMAIN orders

PaymentsOf(o) == {p \in DOMAIN payments : payments[p].order = o}

Settled(p) == payments[p].status # "pending"

\* What the gateway was asked to charge under a reference.
ChargesUnder(ref) ==
    {[order |-> att[a].order, amount |-> ToColumn(att[a].amount)] :
        a \in {a \in DOMAIN att : att[a].ref = ref}}

\* What the order of a payment should say.
StatusShown(p) == IF Settled(p) THEN OrderStatusFor(payments[p].status)
                                ELSE "pending_payment"

-----------------------------------------------------------------------------
(* Safety, whatever the environment does. *)

\* An order has at most one payment, even when several requests passed the
\* payable check before the first of them inserted.
OnePaymentPerOrder ==
    \A p, q \in DOMAIN payments : payments[p].order = payments[q].order => p = q

\* A payment belongs to an order that exists and to a request of the user
\* who owns that order, however the request and a DELETE interleave.
PaymentHasOwnersOrder ==
    \A p \in DOMAIN payments : /\ payments[p].order = att[p].order
                               /\ Owns(att[p].user, payments[p].order)

\* An order that left `pending` has a payment, and one that shows an outcome
\* has a payment with an outcome: no order is paid on the strength of a
\* request or callback that did not get as far as the payment itself.
OrderStatusBacked ==
    \A o \in DOMAIN orders :
        orders[o].status # "pending" =>
            \E p \in PaymentsOf(o) :
                orders[o].status \in {"paid", "payment_failed"} => Settled(p)

\* In one life of the process, the payments can be reconciled with what the
\* gateway was asked for: under the reference of a payment there was one
\* charge, for its order and, to the precision of the column, for its amount,
\* although others were charged at the same time and the order was edited;
\* and what a client was told is created is found under the reference of his
\* charge.
ChargesReconcile ==
    epoch = 0 =>
        /\ \A p \in DOMAIN payments :
              ChargesUnder(payments[p].ref) =
                  {[order |-> payments[p].order, amount |-> payments[p].amount]}
        /\ \A a \in DOMAIN att :
              att[a].reply = "Created" /\ Exists(att[a].order) =>
                  \E p \in DOMAIN payments : payments[p].ref = att[a].ref

\* 201 is said only of a payment that exists; 409 DUPLICATE_PAYMENT and 409
\* ORDER_NOT_PAYABLE only of an order that has a payment, made by another
\* request; and no request refused with 4xx leaves a payment.
TruthfulAttemptReplies ==
    \A a \in DOMAIN att :
        /\ att[a].reply = "Created" =>
              a \in DOMAIN payments \/ ~Exists(att[a].order)
        /\ att[a].reply \in {"DuplicatePayment", "OrderNotPayable"} =>
              PaymentsOf(att[a].order) # {} \/ ~Exists(att[a].order)
        /\ att[a].reply \in {"DuplicatePayment", "OrderNotPayable",
                             "InvalidAmount", "OrderNotFound"} =>
              a \notin DOMAIN payments

\* 200 to a callback is said only when the payment it found has the outcome
\* it brings, or has gone with its order.
TruthfulCallbackReplies ==
    "conflict" \notin Env /\ epoch = 0 =>
        \A d \in DOMAIN dlv :
            dlv[d].reply = "OK" /\ dlv[d].pay \in DOMAIN payments =>
                payments[dlv[d].pay].status = dlv[d].status

\* In one life of the process, a payment has an outcome only if the provider
\* gave it, signed, for this very charge: not for another order's charge, not
\* with a status the program does not know.
VerdictRespected ==
    epoch = 0 =>
        \A p \in DOMAIN payments : Settled(p) => payments[p].status \in sent[p]

\* While the provider is consistent and the process lives, an order that
\* shows an outcome shows its payment's, whatever fails or is retried.
SettledOrderAgrees ==
    "conflict" \notin Env /\ epoch = 0 =>
        \A o \in DOMAIN orders, p \in DOMAIN payments :
            /\ payments[p].order = o
            /\ orders[o].status \in {"paid", "payment_failed"}
            => orders[o].status = StatusShown(p)

\* A step never reopens what was settled and never rewrites what a payment
\* is for; an order that left `pending` does not become payable again; and a
\* row that was deleted does not come back.
NoStepReopens ==
    /\ \A p \in DOMAIN payments \cap DOMAIN payments' :
          /\ Settled(p) => payments'[p].status # "pending"
          /\ payments'[p].order = payments[p].order
          /\ payments'[p].ref = payments[p].ref
          /\ payments'[p].amount = payments[p].amount
    /\ \A o \in DOMAIN orders \cap DOMAIN orders' :
          orders[o].status # "pending" => orders'[o].status # "pending"
    /\ DOMAIN orders' \cap drawn \subseteq DOMAIN orders

NeverReopened == [][NoStepReopens]_vars

-----------------------------------------------------------------------------
(* Safety and liveness of the undisturbed system. *)

\* When nothing fails and no callback overtakes its request, every order
\* shows exactly its payment's state whenever no request is in flight.
QuiescentAgreement ==
    Idle => \A o \in DOMAIN orders :
               IF PaymentsOf(o) = {} THEN orders[o].status = "pending"
               ELSE \A p \in PaymentsOf(o) : orders[o].status = StatusShown(p)

\* The outcome of a payment reaches its order.
OutcomeReachesOrder ==
    \A p \in Attempt :
        (p \in DOMAIN payments /\ Settled(p)) ~>
            (p \in DOMAIN payments => orders[payments[p].order].status = StatusShown(p))

\* A payment with the reference of p carries a verdict given under it.
VerdictTaken(p) ==
    \E q \in DOMAIN payments, a \in DOMAIN att :
        /\ payments[q].ref = payments[p].ref
        /\ att[a].ref = payments[p].ref
        /\ payments[q].status \in sent[a]

\* A verdict the provider repeats settles its payment, though the first
\* callbacks may have come before the payment was recorded, or died with the
\* process.  When a restart has made its reference that of another payment
\* as well, one of the two is settled; the other may stay pending for ever.
VerdictLands ==
    \A p \in Attempt :
        (sent[p] # {} /\ p \in DOMAIN payments) ~>
            (p \in DOMAIN payments => VerdictTaken(p))

-----------------------------------------------------------------------------
(* What the documentation says, and the code does not do. *)

\* README: a callback "updates the payment, cascades the order status".
CallbackCascades ==
    \A d \in DOMAIN dlv :
        dlv[d].reply = "OK" /\ dlv[d].pay \in DOMAIN payments =>
            orders[dlv[d].order].status = OrderStatusFor(dlv[d].status)

\* README: paid to failed and back is refused with 409.
OutcomeIsFinal ==
    [][\A p \in DOMAIN payments \cap DOMAIN payments' :
          Settled(p) => payments'[p].status = payments[p].status]_vars

\* README: a callback looks its payment up by reference.  So, when the table
\* holds two payments with one reference, neither has the other's verdict.
ReferenceFindsItsPayment ==
    \A p, q \in DOMAIN payments :
        p # q /\ payments[p].ref = payments[q].ref /\ Settled(p) =>
            payments[p].status \in sent[p]

\* README: duplicate attempts are answered with DUPLICATE_PAYMENT.
DuplicateAttemptSaysDuplicate ==
    \A a \in DOMAIN att :
        PaymentsOf(att[a].order) # {} => att[a].reply # "OrderNotPayable"
=============================================================================
