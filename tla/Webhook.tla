------------------------------- MODULE Webhook ------------------------------
(***************************************************************************)
(* The provider's callbacks: POST /webhooks/payment and                    *)
(* payment.Service.ApplyProviderCallback.                                  *)
(*                                                                         *)
(* The provider is outside the program.  All that is assumed of it is that *)
(* it speaks of charges it was asked for, and what it says once it may say *)
(* any number of times, late and out of order, in parallel requests.       *)
(***************************************************************************)
EXTENDS Payments

CONSTANTS
    Slot   \* how many callbacks are handled at the same time

VARIABLES
    sent,  \* the verdicts the provider gave on the charge of each attempt
    dlv    \* the callbacks whose lookup found a payment, by slot

webhookVars == <<sent, dlv>>

Verdict == {"paid", "failed"}

CallbackReply == {"none", "OK", "PaymentNotFound",
                  "InvalidStatusTransition", "InternalError", "NoReply"}

CallbackRecord == [pc     : {"update", "advance", "done"},
                   pay    : Attempt,
                   order  : OrderId,
                   status : Verdict,
                   reply  : CallbackReply]

WebhookTypeOK == /\ sent \in [Attempt -> SUBSET Verdict]
                 /\ DOMAIN dlv \subseteq Slot
                 /\ \A d \in DOMAIN dlv : dlv[d] \in CallbackRecord

WebhookInit == /\ sent = [a \in Attempt |-> {}]
               /\ dlv = EmptyTable

-----------------------------------------------------------------------------
(* The provider. *)

\* One verdict on each charge; a second, contradicting one only with
\* "conflict".  The callback may come before Create has returned with "early".
ProviderDecides(a, v) ==
    /\ a \in DOMAIN att /\ att[a].ref # 0
    /\ v \notin sent[a]
    /\ "conflict" \in Env \/ sent[a] = {}
    /\ "early" \in Env \/ att[a].pc = "done"
    /\ sent' = [sent EXCEPT ![a] = @ \cup {v}]
    /\ UNCHANGED <<orderVars, paymentVars, dlv>>

\* The bodies that may reach the endpoint: any at all, with or without a
\* reference (0), with a known status or not, correctly signed or not; but
\* only the provider signs, and what it signs about a charge it has decided.
Callbacks ==
    {m \in [signed : BOOLEAN,
            ref    : {0} \cup {att[a].ref : a \in DOMAIN att},
            status : Verdict \cup {"refunded"}] :
        m.signed /\ m.ref # 0 /\ m.status \in Verdict =>
            \E a \in DOMAIN att : att[a].ref = m.ref /\ m.status \in sent[a]}

-----------------------------------------------------------------------------
(* Service.Process and ApplyProviderCallback. *)

\* Mutant: the signature is not checked.
AcceptableUnsigned(m) == m.ref # 0 /\ m.status \in Verdict

\* Mutant: one of the two statuses is not recognised.
AcceptablePaidOnly(m) == m.signed /\ m.ref # 0 /\ m.status = "paid"

\* Signature, then reference, then status.
Acceptable(m) == m.signed /\ m.ref # 0 /\ m.status \in Verdict

\* The rows GetByProviderReference may return: there is no index on the
\* column, let alone a unique one, and the query takes the first row it meets.
RowsByReference(ref) == {p \in DOMAIN payments : payments[p].ref = ref}

\* A callback arrives, passes the checks and finds the row p.  Callbacks that
\* are refused before or find no row change nothing.
ReceiveCallback(d, m, p) ==
    LET begun(pc, r) ==
            dlv' = InsertRow(dlv, d, [pc |-> pc, pay |-> p,
                                      order  |-> payments[p].order,
                                      status |-> m.status, reply |-> r])
    IN  /\ d \in DOMAIN dlv => dlv[d].pc = "done"
        /\ Acceptable(m)
        /\ p \in RowsByReference(m.ref)
        /\ \/ /\ payments[p].status = m.status
              /\ begun("done", "OK")
           \/ /\ payments[p].status \notin {m.status, "pending"}
              /\ begun("done", "InvalidStatusTransition")
           \/ /\ payments[p].status = "pending"
              /\ begun("update", "none")
        /\ UNCHANGED <<orderVars, paymentVars, sent>>

Respond(d, r) == dlv' = [dlv EXCEPT ![d].pc = "done", ![d].reply = r]

\* repo.UpdateStatus: the WHERE clause asks for the id, not for the status
\* that was read in the step before.
UpdatePayment(d, answered) ==
    LET p == dlv[d].pay
    IN  /\ d \in DOMAIN dlv /\ dlv[d].pc = "update"
        /\ \/ /\ p \notin DOMAIN payments
              /\ answered
              /\ Respond(d, "PaymentNotFound")
              /\ UNCHANGED payments
           \/ /\ p \in DOMAIN payments
              /\ payments' = [payments EXCEPT ![p].status = dlv[d].status]
              /\ IF answered THEN dlv' = [dlv EXCEPT ![d].pc = "advance"]
                             ELSE Respond(d, "InternalError")
        /\ UNCHANGED <<orderVars, counter, att, sent>>

OrderStatusFor(v) == IF v = "failed" THEN "payment_failed" ELSE "paid"

\* Mutant: the WHERE clause asks for an owner, and a callback has no user.
AdvanceNobodysOrder(d, answered) ==
    /\ d \in DOMAIN dlv /\ dlv[d].pc = "advance"
    /\ Respond(d, "InternalError")
    /\ UNCHANGED <<orderVars, paymentVars, sent>>

\* orders.AdvanceStatus: by id alone.
AdvanceOrder(d, answered) ==
    LET hit == {dlv[d].order} \cap DOMAIN orders
    IN  /\ d \in DOMAIN dlv /\ dlv[d].pc = "advance"
        /\ SetOrderStatus(hit, OrderStatusFor(dlv[d].status))
        /\ Respond(d, IF hit # {} /\ answered THEN "OK" ELSE "InternalError")
        /\ UNCHANGED <<drawn, paymentVars, sent>>

\* Mutant: an error of the first update is ignored.
CallbackFailsOnward(d) ==
    /\ "fault" \in Env
    /\ d \in DOMAIN dlv /\ dlv[d].pc = "update"
    /\ dlv' = [dlv EXCEPT ![d].pc = "advance"]
    /\ UNCHANGED <<orderVars, paymentVars, sent>>

\* Mutant: an error is answered with 200.
CallbackFailsSilently(d) ==
    /\ "fault" \in Env
    /\ d \in DOMAIN dlv /\ dlv[d].pc # "done"
    /\ Respond(d, "OK")
    /\ UNCHANGED <<orderVars, paymentVars, sent>>

\* The pending statement returns an error and was not applied.
CallbackFails(d) ==
    /\ "fault" \in Env
    /\ d \in DOMAIN dlv /\ dlv[d].pc # "done"
    /\ Respond(d, "InternalError")
    /\ UNCHANGED <<orderVars, paymentVars, sent>>

WebhookRestart ==
    /\ dlv' = [d \in DOMAIN dlv |->
                  IF dlv[d].pc = "done" THEN dlv[d]
                  ELSE [dlv[d] EXCEPT !.pc = "done", !.reply = "NoReply"]]
    /\ UNCHANGED sent
=============================================================================
