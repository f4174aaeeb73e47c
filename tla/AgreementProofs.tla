--------------------------- MODULE AgreementProofs --------------------------
(***************************************************************************)
(* Theorems about orders and payments agreeing with each other and with    *)
(* the provider: within one life of the process and with a provider that   *)
(* does not contradict itself, whatever else fails; and, when nothing      *)
(* fails, completely, which makes OrderPayment implement PaymentLedger.    *)
(***************************************************************************)
EXTENDS OrderPaymentProofs, OrderPaymentLedger

-----------------------------------------------------------------------------
(* A consistent provider. *)

\* One outcome at most for each charge.
OneVerdict == \A a \in Attempt : \A v, w \in sent[a] : v = w

\* A callback carries a verdict on the payment it found, also when it is over.
CallbacksGenuine == \A d \in DOMAIN dlv : dlv[d].status \in sent[dlv[d].pay]

\* What a callback found will not be inserted again.
CallbacksFoundPayment ==
    \A d \in DOMAIN dlv : /\ dlv[d].pay \in DOMAIN att
                          /\ att[dlv[d].pay].pc \in {"mark", "done"}

\* Whoever was told that his callback is taken finds the payment settled.
TakenIsSettled ==
    \A d \in DOMAIN dlv :
        dlv[d].reply = "OK" /\ dlv[d].pay \in DOMAIN payments =>
            Settled(dlv[d].pay)

\* An order that shows an outcome shows its payment's.
OutcomesAgree ==
    \A o \in DOMAIN orders, p \in DOMAIN payments :
        payments[p].order = o /\ orders[o].status \in {"paid", "payment_failed"} =>
            Settled(p) /\ orders[o].status = OrderStatusFor(payments[p].status)

ConsistentInv == /\ OneVerdict /\ CallbacksGenuine /\ CallbacksFoundPayment
                 /\ TakenIsSettled /\ OutcomesAgree

AgreementInv == /\ VerdictInv
                /\ "conflict" \notin Env /\ epoch = 0 => ConsistentInv

LEMMA AgreementInit == Init => AgreementInv
  BY VerdictInit
  DEF Init, OrdersInit, PaymentsInit, WebhookInit, EmptyTable, AgreementInv,
      ConsistentInv, OneVerdict, CallbacksGenuine,
      CallbacksFoundPayment, TakenIsSettled, OutcomesAgree

\* What is settled shows the one verdict there is.
LEMMA SettledByTheVerdict ==
    ASSUME VerdictInv, epoch = 0, OneVerdict, NEW p \in DOMAIN payments,
           Settled(p), NEW v \in sent[p]
    PROVE  payments[p].status = v
  BY DEF VerdictInv, VerdictRespected, OneVerdict, SafetyInv, TypeInv, TypeOK,
         PaymentsTypeOK

\* Steps that add no payment, write no outcome and touch no callback: requests
\* on orders, and most steps of requests to pay.
LEMMA NoOutcomeAgrees ==
    ASSUME ConsistentInv, UNCHANGED <<dlv, sent>>,
           DOMAIN payments' \subseteq DOMAIN payments,
           \A p \in DOMAIN payments' : payments'[p] = payments[p],
           \A o \in DOMAIN orders' :
              \/ orders'[o].status \in {"pending", "pending_payment"}
              \/ o \in DOMAIN orders /\ orders'[o].status = orders[o].status,
           DOMAIN att \subseteq DOMAIN att',
           \A a \in DOMAIN att :
              att[a].pc \in {"mark", "done"} => att'[a].pc \in {"mark", "done"}
    PROVE  ConsistentInv'
  <1> USE DEF ConsistentInv
  <1>1. OneVerdict' /\ CallbacksGenuine' /\ CallbacksFoundPayment'
    BY DEF OneVerdict, CallbacksGenuine, CallbacksFoundPayment
  <1>2. TakenIsSettled' /\ OutcomesAgree'
    BY DEF TakenIsSettled, OutcomesAgree, Settled
  <1> QED
    BY <1>1, <1>2

LEMMA OrderRequestAgrees ==
    ASSUME VerdictInv, ConsistentInv, NEW u \in User, NEW o \in OrderId,
           \/ \E b \in Body : PostOrder(u, o, b) \/ PutOrder(u, o, b)
           \/ RemoveOrder(u, o)
    PROVE  ConsistentInv'
  <1>1. UNCHANGED <<att, dlv, sent>>
    BY DEF PostOrder, PutOrder, RemoveOrder, paymentVars, webhookVars
  <1>2. /\ DOMAIN payments' \subseteq DOMAIN payments
        /\ \A p \in DOMAIN payments' : payments'[p] = payments[p]
    BY DEF PostOrder, PutOrder, RemoveOrder, paymentVars, CascadeDelete, DeleteRows,
           Restrict
  <1>3. \A x \in DOMAIN orders' :
           \/ orders'[x].status \in {"pending", "pending_payment"}
           \/ x \in DOMAIN orders /\ orders'[x].status = orders[x].status
    <2>1. \A x \in DOMAIN orders : orders[x] \in OrderRow
      BY DEF VerdictInv, SafetyInv, TypeInv, TypeOK, OrdersTypeOK
    <2>2. ASSUME NEW b \in Body, PostOrder(u, o, b), NEW x \in DOMAIN orders'
          PROVE  \/ orders'[x].status = "pending"
                 \/ x \in DOMAIN orders /\ orders'[x].status = orders[x].status
      BY <2>2 DEF PostOrder, CreateOrder, InsertRow
    <2>3. ASSUME NEW b \in Body, PutOrder(u, o, b), NEW x \in DOMAIN orders'
          PROVE  x \in DOMAIN orders /\ orders'[x].status = orders[x].status
      BY <2>1, <2>3 DEF PutOrder, UpdateOrder, OrderRow
    <2>4. ASSUME RemoveOrder(u, o), NEW x \in DOMAIN orders'
          PROVE  x \in DOMAIN orders /\ orders'[x].status = orders[x].status
      BY <2>4 DEF RemoveOrder, DeleteOrder, DeleteRows, Restrict
    <2> QED
      BY <2>2, <2>3, <2>4
  <1> QED
    BY <1>1, <1>2, <1>3, NoOutcomeAgrees

LEMMA AttemptAgrees ==
    ASSUME VerdictInv, ConsistentInv, NEW a \in Attempt, UNCHANGED webhookVars,
           \/ \E u \in User, o \in OrderId : BeginAttempt(a, u, o)
           \/ Charge(a)
           \/ \E answered \in Answers : MarkOrder(a, answered)
           \/ AttemptFails(a)
    PROVE  ConsistentInv'
  <1>1. UNCHANGED <<payments, dlv, sent>>
    BY DEF BeginAttempt, GetOrder, Charge, MarkOrder, AttemptFails, webhookVars
  <1>2. OrdersTypeOK /\ PaymentsTypeOK
    BY DEF VerdictInv, SafetyInv, TypeInv, TypeOK
  <1>3. \A o \in DOMAIN orders' :
           \/ orders'[o].status \in {"pending", "pending_payment"}
           \/ o \in DOMAIN orders /\ orders'[o].status = orders[o].status
    <2>1. CASE UNCHANGED orders
      BY <2>1
    <2>2. ASSUME NEW answered \in Answers, MarkOrder(a, answered), NEW o \in DOMAIN orders'
          PROVE  /\ o \in DOMAIN orders
                 /\ orders'[o].status \in {"pending_payment", orders[o].status}
      BY <1>2, <2>2, SetOrderStatusFacts DEF MarkOrder
    <2> QED
      BY <2>1, <2>2 DEF BeginAttempt, GetOrder, Charge, AttemptFails, orderVars
  <1>4. /\ DOMAIN att \subseteq DOMAIN att'
        /\ \A x \in DOMAIN att :
              att[x].pc \in {"mark", "done"} => att'[x].pc \in {"mark", "done"}
    <2>1. ASSUME NEW u \in User, NEW o \in OrderId, BeginAttempt(a, u, o)
          PROVE  /\ DOMAIN att' = DOMAIN att \cup {a} /\ a \notin DOMAIN att
                 /\ \A x \in DOMAIN att : att'[x] = att[x]
      BY <2>1 DEF BeginAttempt, GetOrder, InsertRow
    <2>2. CASE Charge(a)
      BY <1>2, <2>2 DEF Charge, PaymentsTypeOK, AttemptRecord
    <2>3. ASSUME \/ \E answered \in Answers : MarkOrder(a, answered)
                 \/ AttemptFails(a)
          PROVE  /\ DOMAIN att' = DOMAIN att /\ a \in DOMAIN att
                 /\ \A x \in DOMAIN att : x # a => att'[x] = att[x]
                 /\ att'[a].pc = "done"
      BY <1>2, <2>3, ReplyFacts DEF MarkOrder, AttemptFails
    <2> QED
      BY <2>1, <2>2, <2>3
  <1> QED
    BY <1>1, <1>3, <1>4, NoOutcomeAgrees

\* No payment is inserted for an order that shows an outcome.
LEMMA InsertAgrees ==
    ASSUME VerdictInv, ConsistentInv, NEW a \in Attempt, NEW answered \in Answers,
           InsertPayment(a, answered), UNCHANGED webhookVars
    PROVE  ConsistentInv'
  <1> USE DEF VerdictInv, ConsistentInv
  <1>1. UNCHANGED <<orders, dlv, sent>> /\ a \in DOMAIN att /\ att[a].pc = "insert"
    BY DEF InsertPayment, orderVars, webhookVars
  <1>2. /\ DOMAIN att' = DOMAIN att
        /\ \A x \in DOMAIN att : x # a => att'[x] = att[x]
        /\ att'[a].pc \in {"mark", "done"}
    BY <1>1, ReplyFacts, ToMarkFacts DEF InsertPayment, SafetyInv, TypeInv, TypeOK
  <1>3. CASE UNCHANGED payments
    BY <1>1, <1>2, <1>3, NoOutcomeAgrees
  <1>4. CASE /\ InsertOutcome(a) = "inserted"
             /\ payments' = InsertRow(payments, a, NewPayment(a))
    <2>1. /\ DOMAIN payments' = DOMAIN payments \cup {a}
          /\ payments'[a].order = att[a].order
          /\ \A p \in DOMAIN payments : p # a => payments'[p] = payments[p]
      BY <1>4 DEF InsertRow, NewPayment
    <2>2. a \notin DOMAIN payments
      BY <1>1 DEF SafetyInv, InFlight, RequestInserts
    <2>3. /\ PaymentsOf(att[a].order) = {}
          /\ att[a].order \in DOMAIN orders
      BY <1>4 DEF InsertOutcome, PaymentsOf
    <2>4. orders[att[a].order].status = "pending"
      BY <2>3 DEF SafetyInv, Promises, OrderStatusBacked
    <2>5. OutcomesAgree'
      BY <1>1, <2>1, <2>2, <2>4 DEF OutcomesAgree, Settled
    <2>6. \A d \in DOMAIN dlv : dlv[d].pay # a
      BY <1>1 DEF CallbacksFoundPayment
    <2>7. TakenIsSettled'
      BY <1>1, <2>1, <2>6 DEF TakenIsSettled, Settled
    <2> QED
      BY <1>1, <1>2, <2>5, <2>7 DEF OneVerdict, CallbacksGenuine, CallbacksFoundPayment
  <1> QED
    BY <1>3, <1>4 DEF InsertPayment

LEMMA DecideAgrees ==
    ASSUME VerdictInv, ConsistentInv, "conflict" \notin Env,
           NEW a \in Attempt, NEW v \in Verdict, Decide(a, v)
    PROVE  ConsistentInv'
  <1>1. /\ UNCHANGED <<orders, payments, att, dlv>>
        /\ sent[a] = {} /\ sent' = [sent EXCEPT ![a] = @ \cup {v}]
        /\ sent \in [Attempt -> SUBSET Verdict]
    BY DEF Decide, ProviderDecides, orderVars, paymentVars, VerdictInv, SafetyInv,
           TypeInv, TypeOK, WebhookTypeOK
  <1>2. sent'[a] = {v} /\ \A x \in Attempt : x # a => sent'[x] = sent[x]
    BY <1>1
  <1>3. OneVerdict' /\ \A x \in Attempt : sent[x] \subseteq sent'[x]
    BY <1>1, <1>2 DEF ConsistentInv, OneVerdict
  <1>4. CallbacksGenuine'
    BY <1>1, <1>3 DEF ConsistentInv, CallbacksGenuine, VerdictInv, SafetyInv, TypeInv,
                      TypeOK, WebhookTypeOK, CallbackRecord
  <1> QED
    BY <1>1, <1>3, <1>4
       DEF ConsistentInv, CallbacksFoundPayment, TakenIsSettled, OutcomesAgree, Settled

LEMMA ReceiveAgrees ==
    ASSUME VerdictInv, epoch = 0, ConsistentInv,
           NEW d \in Slot, NEW m \in Callbacks, NEW p \in Attempt, Receive(d, m, p)
    PROVE  ConsistentInv'
  <1> USE DEF ConsistentInv
  <1>1. /\ UNCHANGED <<orders, payments, att, sent>>
        /\ DOMAIN dlv' = DOMAIN dlv \cup {d}
        /\ dlv'[d].pay = p /\ dlv'[d].status = m.status
        /\ dlv'[d].reply = "OK" => payments[p].status = m.status
        /\ \A x \in DOMAIN dlv : x # d => dlv'[x] = dlv[x]
    BY DEF Receive, ReceiveCallback, InsertRow, orderVars, paymentVars
  <1>2. /\ m.status \in Verdict /\ m.status \in sent[p]
        /\ p \in DOMAIN payments /\ p \in DOMAIN att
    BY ReceivedVerdict DEF VerdictInv, SafetyInv, TypeInv, TypeOK, Promises
  <1>3. att[p].pc \in {"mark", "done"}
    BY <1>2 DEF VerdictInv, SafetyInv, TypeInv, TypeOK, PaymentsTypeOK, AttemptRecord,
                InFlight, RequestInserts
  <1>4. TakenIsSettled'
    BY <1>1, <1>2 DEF TakenIsSettled, Settled, Verdict
  <1>5. CallbacksGenuine' /\ CallbacksFoundPayment'
    BY <1>1, <1>2, <1>3 DEF CallbacksGenuine, CallbacksFoundPayment
  <1> QED
    BY <1>1, <1>4, <1>5 DEF OneVerdict, OutcomesAgree, Settled

\* The status a callback writes is the one the payment has, if it has one.
LEMMA UpdateAgrees ==
    ASSUME VerdictInv, epoch = 0, ConsistentInv,
           NEW d \in Slot, NEW answered \in Answers, UpdatePayment(d, answered)
    PROVE  ConsistentInv'
  <1> USE DEF ConsistentInv
  <1> DEFINE p == dlv[d].pay
  <1>1. /\ d \in DOMAIN dlv /\ UNCHANGED <<orders, att, sent>>
        /\ dlv[d] \in CallbackRecord /\ WebhookTypeOK /\ PaymentsTypeOK
    BY DEF UpdatePayment, orderVars, VerdictInv, SafetyInv, TypeInv, TypeOK, WebhookTypeOK
  <1>2. /\ DOMAIN dlv' = DOMAIN dlv
        /\ \A x \in DOMAIN dlv : /\ x # d => dlv'[x] = dlv[x]
                                 /\ dlv'[x].pay = dlv[x].pay
                                 /\ dlv'[x].status = dlv[x].status
        /\ dlv'[d].reply = "OK" => dlv[d].reply = "OK"
    BY <1>1, RespondFacts DEF UpdatePayment, CallbackRecord
  <1>3. /\ DOMAIN payments' = DOMAIN payments
        /\ \A q \in DOMAIN payments : /\ q # p => payments'[q] = payments[q]
                                      /\ payments'[q].order = payments[q].order
        /\ p \in DOMAIN payments => payments'[p].status = dlv[d].status
    BY <1>1 DEF UpdatePayment, PaymentsTypeOK, PaymentRow
  <1>4. dlv[d].status \in sent[p] /\ dlv[d].status \in Verdict
    BY <1>1 DEF CallbacksGenuine, CallbackRecord
  <1>5. p \in DOMAIN payments /\ Settled(p) => payments[p].status = dlv[d].status
    BY <1>4, SettledByTheVerdict
  <1>6. TakenIsSettled'
    BY <1>2, <1>3, <1>4 DEF TakenIsSettled, Settled, Verdict
  <1>7. OutcomesAgree'
    BY <1>1, <1>3, <1>4, <1>5 DEF OutcomesAgree, Settled, Verdict
  <1>8. OneVerdict' /\ CallbacksGenuine' /\ CallbacksFoundPayment'
    BY <1>1, <1>2 DEF OneVerdict, CallbacksGenuine, CallbacksFoundPayment
  <1> QED
    BY <1>6, <1>7, <1>8

\* The order takes the outcome of its payment, which no other payment shares.
LEMMA AdvanceAgrees ==
    ASSUME VerdictInv, epoch = 0, ConsistentInv,
           NEW d \in Slot, NEW answered \in Answers, AdvanceOrder(d, answered)
    PROVE  ConsistentInv'
  <1> USE DEF ConsistentInv
  <1> DEFINE p == dlv[d].pay
             o == dlv[d].order
  <1>1. /\ d \in DOMAIN dlv /\ dlv[d].pc = "advance"
        /\ UNCHANGED <<payments, att, sent>>
        /\ WebhookTypeOK /\ OrdersTypeOK
        /\ SetOrderStatus({o} \cap DOMAIN orders, OrderStatusFor(dlv[d].status))
    BY DEF AdvanceOrder, paymentVars, VerdictInv, SafetyInv, TypeInv, TypeOK
  <1>2. /\ DOMAIN dlv' = DOMAIN dlv
        /\ \A x \in DOMAIN dlv : /\ x # d => dlv'[x] = dlv[x]
                                 /\ dlv'[x].pay = dlv[x].pay
                                 /\ dlv'[x].status = dlv[x].status
        /\ dlv'[d].reply = "OK" => o \in DOMAIN orders
    BY <1>1, RespondFacts DEF AdvanceOrder, CallbackReply
  <1>3. o \in DOMAIN orders => /\ p \in DOMAIN payments /\ Settled(p)
                               /\ payments[p].order = o
                               /\ payments[p].status = dlv[d].status
    <2>1. o \in DOMAIN orders => /\ p \in DOMAIN payments /\ Settled(p)
                                 /\ payments[p].order = o
      BY <1>1 DEF VerdictInv, SafetyInv, InFlight, CallbackKnowsPayment, Exists,
                  Promises, PaymentHasOwnersOrder
    <2> QED
      BY <1>1, <2>1, SettledByTheVerdict DEF CallbacksGenuine
  <1>4. /\ DOMAIN orders' = DOMAIN orders
        /\ \A x \in DOMAIN orders :
              orders'[x].status = IF x = o THEN OrderStatusFor(dlv[d].status)
                                           ELSE orders[x].status
    BY <1>1, SetOrderStatusFacts
  <1>5. \A q \in DOMAIN payments : payments[q].order = o /\ o \in DOMAIN orders => q = p
    BY <1>3 DEF VerdictInv, SafetyInv, Promises, OnePaymentPerOrder
  <1>6. OutcomesAgree'
    BY <1>1, <1>3, <1>4, <1>5 DEF OutcomesAgree, Settled
  <1>7. TakenIsSettled'
    <2>1. p \in DOMAIN payments /\ dlv'[d].reply = "OK" => Settled(p)
      BY <1>2, <1>3
    <2> QED
      BY <1>1, <1>2, <2>1 DEF TakenIsSettled, Settled
  <1>8. OneVerdict' /\ CallbacksGenuine' /\ CallbacksFoundPayment'
    BY <1>1, <1>2 DEF OneVerdict, CallbacksGenuine, CallbacksFoundPayment
  <1> QED
    BY <1>6, <1>7, <1>8

LEMMA CallbackFailsAgrees ==
    ASSUME VerdictInv, ConsistentInv, NEW d \in Slot, CallbackFails(d)
    PROVE  ConsistentInv'
  <1> USE DEF ConsistentInv
  <1>1. /\ d \in DOMAIN dlv /\ UNCHANGED <<orders, payments, att, sent>>
        /\ WebhookTypeOK /\ Respond(d, "InternalError")
    BY DEF CallbackFails, orderVars, paymentVars, VerdictInv, SafetyInv, TypeInv, TypeOK
  <1>2. /\ DOMAIN dlv' = DOMAIN dlv
        /\ \A x \in DOMAIN dlv : /\ x # d => dlv'[x] = dlv[x]
                                 /\ dlv'[x].pay = dlv[x].pay
                                 /\ dlv'[x].status = dlv[x].status
        /\ dlv'[d].reply # "OK"
    BY <1>1, RespondFacts
  <1> QED
    BY <1>1, <1>2 DEF OneVerdict, CallbacksGenuine, CallbacksFoundPayment,
                      TakenIsSettled, OutcomesAgree, Settled

LEMMA AgreementStep == AgreementInv /\ [Next]_vars => AgreementInv'
  <1> SUFFICES ASSUME AgreementInv, [Next]_vars, "conflict" \notin Env, epoch' = 0
               PROVE  ConsistentInv'
    BY VerdictStep DEF AgreementInv
  <1>1. ~Restart /\ epoch = 0
    BY DEF AgreementInv, VerdictInv, Restart, SafetyInv, TypeInv, TypeOK, Next, vars,
           PostOrder, PutOrder, RemoveOrder, BeginAttempt, AttemptStep, Decide, Receive,
           CallbackStep, Fail, Wait
  <1>2. VerdictInv /\ ConsistentInv
    BY <1>1 DEF AgreementInv
  <1>3. CASE UNCHANGED vars
    BY <1>2, <1>3, NoOutcomeAgrees DEF vars
  <1>4. ASSUME NEW u \in User, NEW o \in OrderId,
               \/ \E b \in Body : PostOrder(u, o, b) \/ PutOrder(u, o, b)
               \/ RemoveOrder(u, o)
        PROVE  ConsistentInv'
    BY <1>2, <1>4, OrderRequestAgrees
  <1>5. ASSUME NEW u \in User, NEW o \in OrderId, NEW a \in Attempt, BeginAttempt(a, u, o)
        PROVE  ConsistentInv'
    <2>1. UNCHANGED webhookVars
      BY <1>5 DEF BeginAttempt
    <2> QED
      BY <1>2, <1>5, <2>1, AttemptAgrees
  <1>6. ASSUME NEW a \in Attempt, AttemptStep(a)
        PROVE  ConsistentInv'
    <2>1. UNCHANGED webhookVars
      BY <1>6 DEF AttemptStep
    <2> QED
      BY <1>2, <1>6, <2>1, AttemptAgrees, InsertAgrees DEF AttemptStep
  <1>7. ASSUME NEW a \in Attempt, NEW v \in Verdict, Decide(a, v)
        PROVE  ConsistentInv'
    BY <1>2, <1>7, DecideAgrees
  <1>8. ASSUME NEW d \in Slot, NEW m \in Callbacks, NEW p \in Attempt, Receive(d, m, p)
        PROVE  ConsistentInv'
    BY <1>1, <1>2, <1>8, ReceiveAgrees
  <1>9. ASSUME NEW d \in Slot, CallbackStep(d)
        PROVE  ConsistentInv'
    BY <1>1, <1>2, <1>9, UpdateAgrees, AdvanceAgrees DEF CallbackStep
  <1>10. CASE Fail
    BY <1>2, <1>10, AttemptAgrees, CallbackFailsAgrees DEF Fail
  <1> QED
    BY <1>1, <1>3, <1>4, <1>5, <1>6, <1>7, <1>8, <1>9, <1>10 DEF Next, Wait

LEMMA AgreementInvariant == Spec => []AgreementInv
  BY AgreementInit, AgreementStep, PTL DEF Spec

\* While the provider is consistent and the process lives, an order that shows
\* an outcome shows its payment's, whatever fails or is retried: the two UPDATEs
\* of ApplyProviderCallback need no transaction for that.
THEOREM SettledOrdersAgree == Spec => []SettledOrderAgrees
  <1>1. AgreementInv => SettledOrderAgrees
    BY DEF AgreementInv, ConsistentInv, OutcomesAgree, SettledOrderAgrees, StatusShown
  <1> QED
    BY <1>1, AgreementInvariant, PTL

LEMMA RepliesAgree ==
    ASSUME AgreementInv
    PROVE  TruthfulCallbackReplies
  <1> SUFFICES ASSUME "conflict" \notin Env, epoch = 0,
                      NEW d \in DOMAIN dlv, dlv[d].reply = "OK",
                      dlv[d].pay \in DOMAIN payments
               PROVE  payments[dlv[d].pay].status = dlv[d].status
    BY DEF TruthfulCallbackReplies
  <1>1. VerdictInv /\ ConsistentInv
    BY DEF AgreementInv
  <1>2. Settled(dlv[d].pay) /\ dlv[d].status \in sent[dlv[d].pay]
    BY <1>1 DEF ConsistentInv, TakenIsSettled, CallbacksGenuine
  <1> QED
    BY <1>1, <1>2, SettledByTheVerdict DEF ConsistentInv

\* 200 to a callback means that the payment has the outcome it brought.
THEOREM CallbacksToldTheTruth == Spec => []TruthfulCallbackReplies
  BY RepliesAgree, AgreementInvariant, PTL

-----------------------------------------------------------------------------
(* Outcomes that stand. *)

\* Only the first UPDATE of a callback changes the status of a payment.
LEMMA OutcomeWritten ==
    ASSUME SafetyInv, [Next]_vars, NEW p \in DOMAIN payments \cap DOMAIN payments'
    PROVE  \/ payments'[p].status = payments[p].status
           \/ \E d \in DOMAIN dlv : /\ dlv[d].pay = p
                                    /\ dlv[d].status = payments'[p].status
  <1> DEFINE Goal == \/ payments'[p].status = payments[p].status
                     \/ \E d \in DOMAIN dlv : /\ dlv[d].pay = p
                                              /\ dlv[d].status = payments'[p].status
  <1>1. PaymentsTypeOK /\ RequestInserts
    BY DEF SafetyInv, TypeInv, TypeOK, InFlight
  <1>2. CASE UNCHANGED payments
    BY <1>2
  <1>3. ASSUME NEW u \in User, NEW o \in OrderId, RemoveOrder(u, o)
        PROVE  Goal
    BY <1>3 DEF RemoveOrder, CascadeDelete, DeleteRows, Restrict
  <1>4. ASSUME NEW a \in Attempt, AttemptStep(a)
        PROVE  Goal
    <2>1. ASSUME NEW answered \in Answers, InsertPayment(a, answered)
          PROVE  Goal
      BY <1>1, <2>1 DEF InsertPayment, InsertRow, RequestInserts
    <2> QED
      BY <1>2, <1>4, <2>1 DEF AttemptStep, Charge, MarkOrder
  <1>5. ASSUME NEW d \in Slot, CallbackStep(d)
        PROVE  Goal
    <2>1. ASSUME NEW answered \in Answers, UpdatePayment(d, answered)
          PROVE  Goal
      BY <1>1, <2>1 DEF UpdatePayment, PaymentsTypeOK, PaymentRow
    <2> QED
      BY <1>2, <1>5, <2>1 DEF CallbackStep, AdvanceOrder, paymentVars
  <1>6. ASSUME NEW u \in User, NEW o \in OrderId,
               \/ \E b \in Body : PostOrder(u, o, b) \/ PutOrder(u, o, b)
               \/ \E a \in Attempt : BeginAttempt(a, u, o)
        PROVE  UNCHANGED payments
    BY <1>6 DEF PostOrder, PutOrder, BeginAttempt, GetOrder, paymentVars
  <1>7. ASSUME \/ \E a \in Attempt, v \in Verdict : Decide(a, v)
               \/ \E d \in Slot, m \in Callbacks, q \in Attempt : Receive(d, m, q)
        PROVE  UNCHANGED payments
    BY <1>7 DEF Decide, ProviderDecides, Receive, ReceiveCallback, paymentVars
  <1>8. Fail \/ Restart \/ Wait \/ UNCHANGED vars => UNCHANGED payments
    BY DEF Fail, AttemptFails, CallbackFails, Restart, PaymentsRestart, Wait, vars,
           paymentVars
  <1> QED
    BY <1>2, <1>3, <1>4, <1>5, <1>6, <1>7, <1>8 DEF Next

\* While outcomes stand, the status a callback writes over an outcome is that
\* outcome.
LEMMA WritesTheOutcome ==
    ASSUME AgreementInv, OutcomesStand, NEW d \in DOMAIN dlv,
           dlv[d].pay \in DOMAIN payments, Settled(dlv[d].pay)
    PROVE  payments[dlv[d].pay].status = dlv[d].status
  BY SettledByTheVerdict
  DEF AgreementInv, OutcomesStand, ConsistentInv, CallbacksGenuine

\* So an outcome that stands stays what it is.
LEMMA OutcomeStays ==
    ASSUME AgreementInv, OutcomesStand, [Next]_vars,
           NEW p \in DOMAIN payments \cap DOMAIN payments', Settled(p)
    PROVE  payments'[p].status = payments[p].status
  <1>1. SafetyInv
    BY DEF AgreementInv, VerdictInv
  <1> QED
    BY <1>1, OutcomeWritten, WritesTheOutcome

\* Restarts are what ends a life of the process.
LEMMA OneLife == ASSUME MaxRestarts = 0 PROVE Spec => [](epoch = 0)
  <1>1. Init => epoch = 0
    BY DEF Init
  <1>2. epoch = 0 /\ [Next]_vars => (epoch = 0)'
    BY DEF Next, vars, PostOrder, PutOrder, RemoveOrder, BeginAttempt, AttemptStep, Decide,
           Receive, CallbackStep, Fail, Restart, Wait
  <1> QED
    BY <1>1, <1>2, PTL DEF Spec

\* README: paid to failed and back is refused with 409.  So it is, with any
\* failures and overlapping callbacks, exactly where `conflict` does not tread:
\* with a provider that does not contradict itself, in one life of the process.
THEOREM OutcomesAreFinal ==
    ASSUME "conflict" \notin Env, MaxRestarts = 0
    PROVE  Spec => OutcomeIsFinal
  <1>1. AgreementInv /\ epoch = 0 /\ [Next]_vars =>
           [\A p \in DOMAIN payments \cap DOMAIN payments' :
               Settled(p) => payments'[p].status = payments[p].status]_vars
    BY OutcomeStays DEF OutcomesStand
  <1> QED
    BY <1>1, AgreementInvariant, OneLife, PTL DEF Spec, OutcomeIsFinal

\* README: a callback looks its payment up by reference.  As long as the
\* process has not restarted (`restart` shows what happens then), the lookup by
\* the reference of a payment finds that payment and no other, and it has a
\* verdict on its own charge, whatever fails or contradicts itself.
THEOREM ReferencesFindTheirPayment ==
    ASSUME MaxRestarts = 0
    PROVE  Spec => [](\A p \in DOMAIN payments :
                         /\ RowsByReference(payments[p].ref) = {p}
                         /\ Settled(p) => payments[p].status \in sent[p])
  <1> DEFINE Found ==
        \A p \in DOMAIN payments : /\ RowsByReference(payments[p].ref) = {p}
                                   /\ Settled(p) => payments[p].status \in sent[p]
  <1>1. VerdictInv /\ epoch = 0 => Found
    <2> SUFFICES ASSUME VerdictInv, epoch = 0, NEW p \in DOMAIN payments
                 PROVE  /\ RowsByReference(payments[p].ref) = {p}
                        /\ Settled(p) => payments[p].status \in sent[p]
      OBVIOUS
    <2>1. {a \in DOMAIN att : att[a].ref = payments[p].ref} = {p}
      BY ChargeOfPayment DEF VerdictInv
    <2>2. \A q \in DOMAIN payments : q \in DOMAIN att /\ payments[q].ref = att[q].ref
      BY DEF VerdictInv, SafetyInv, TypeInv, TypeOK, PaymentsTypeOK, Promises,
             RecordedAmountIsCharged
    <2> QED
      BY <2>1, <2>2 DEF RowsByReference, VerdictInv, VerdictRespected
  <1> QED
    BY <1>1, VerdictInvariant, OneLife, PTL

-----------------------------------------------------------------------------
(* The books, in every environment. *)

\* What the invariant says of the rows there are.
LEMMA RowFacts ==
    ASSUME SafetyInv
    PROVE  /\ OrdersTypeOK /\ PaymentsTypeOK /\ WebhookTypeOK /\ OnePaymentPerOrder
           /\ DOMAIN orders \subseteq drawn
           /\ \A p \in DOMAIN payments : /\ p \in Attempt
                                        /\ payments[p].order \in DOMAIN orders
                                        /\ payments[p].order \in OrderId
                                        /\ payments[p].status \in PaymentStatus
  BY DEF SafetyInv, TypeInv, TypeOK, Promises, OrdersTypeOK, PaymentsTypeOK, PaymentRow,
         PaymentHasOwnersOrder, Owns

\* The state of an order, read off the two tables without a choice.
BookFacts ==
    \A o \in OrderId :
        /\ o \notin drawn => BookedState(o) = "unplaced"
        /\ o \in drawn /\ o \notin DOMAIN orders => BookedState(o) = "removed"
        /\ o \in DOMAIN orders /\ PaymentsOf(o) = {} => BookedState(o) = "unpaid"
        /\ o \in DOMAIN orders => \A p \in PaymentsOf(o) :
              BookedState(o) = IF Settled(p) THEN payments[p].status ELSE "initiated"

LEMMA BookFactsHold == SafetyInv => BookFacts
  <1> SUFFICES ASSUME SafetyInv, NEW o \in OrderId
               PROVE  BookFacts!(o)
    BY DEF BookFacts
  <1>1. DOMAIN orders \subseteq drawn
    BY RowFacts
  <1>2. ASSUME NEW p \in PaymentsOf(o)
        PROVE  (CHOOSE q \in PaymentsOf(o) : TRUE) = p
    <2>1. \A q \in PaymentsOf(o) : q = p
      BY <1>2, RowFacts DEF OnePaymentPerOrder, PaymentsOf
    <2> QED
      BY <1>2, <2>1
  <1>3. ASSUME o \in DOMAIN orders, NEW p \in PaymentsOf(o)
        PROVE  BookedState(o) = IF Settled(p) THEN payments[p].status ELSE "initiated"
    <2>1. (CHOOSE q \in PaymentsOf(o) : TRUE) = p
      BY <1>2, <1>3
    <2> QED
      BY <1>1, <1>3, <2>1 DEF BookedState, Exists
  <1> QED
    BY <1>1, <1>3 DEF BookedState, Exists

LEMMA BookFactsNext == SafetyInv' => BookFacts'
  BY BookFactsHold, PTL

\* An order moves, and the others stay.
LEMMA BooksMove ==
    ASSUME NEW o \in OrderId, NEW from, NEW to, UNCHANGED epoch,
           BookedState(o) \in from, BookedState(o)' = to,
           \A x \in OrderId : x # o => BookedState(x)' = BookedState(x)
    PROVE  Books!Move(o, from, to)
  BY DEF Books!Move, OutcomesStand

\* Two states with the same tables, but for what the books do not see.
LEMMA SameBooks ==
    ASSUME BookFacts, BookFacts', NEW x \in OrderId,
           x \in drawn <=> x \in drawn',
           x \in DOMAIN orders <=> x \in DOMAIN orders',
           PaymentsOf(x)' = PaymentsOf(x),
           \A p \in PaymentsOf(x) : payments'[p].status = payments[p].status
    PROVE  BookedState(x)' = BookedState(x)
  <1>1. CASE x \notin drawn \/ x \notin DOMAIN orders \/ PaymentsOf(x) = {}
    BY <1>1 DEF BookFacts
  <1>2. ASSUME x \in DOMAIN orders, NEW p \in PaymentsOf(x)
        PROVE  BookedState(x)' = BookedState(x)
    BY <1>2 DEF BookFacts, Settled
  <1> QED
    BY <1>1, <1>2

\* No order, payment or outcome changes: requests and callbacks that only read,
\* write what is there already, or write what the books do not see.
LEMMA BooksStay ==
    ASSUME BookFacts, BookFacts', UNCHANGED drawn, DOMAIN orders' = DOMAIN orders,
           DOMAIN payments' = DOMAIN payments,
           \A p \in DOMAIN payments : /\ payments'[p].order = payments[p].order
                                     /\ payments'[p].status = payments[p].status
    PROVE  \A x \in OrderId : BookedState(x)' = BookedState(x)
  <1>1. ASSUME NEW x \in OrderId
        PROVE  /\ PaymentsOf(x)' = PaymentsOf(x)
               /\ \A p \in PaymentsOf(x) : payments'[p].status = payments[p].status
    BY DEF PaymentsOf
  <1> QED
    BY <1>1, SameBooks

LEMMA PlacingIsBooked ==
    ASSUME SafetyInv, BookFacts, BookFacts',
           NEW u \in User, NEW o \in OrderId, NEW b \in Body, PostOrder(u, o, b)
    PROVE  Books!Place(o)
  <1>1. /\ o \notin drawn /\ drawn' = drawn \cup {o}
        /\ DOMAIN orders' = DOMAIN orders \cup {o} /\ DOMAIN orders \subseteq drawn
        /\ UNCHANGED <<payments, epoch>>
    BY RowFacts DEF PostOrder, CreateOrder, InsertRow, paymentVars
  <1>2. PaymentsOf(o)' = {}
    BY <1>1, RowFacts DEF PaymentsOf
  <1>3. BookedState(o) = "unplaced" /\ BookedState(o)' = "unpaid"
    BY <1>1, <1>2 DEF BookFacts
  <1>4. ASSUME NEW x \in OrderId, x # o PROVE BookedState(x)' = BookedState(x)
    BY <1>1, <1>4, SameBooks DEF PaymentsOf
  <1> QED
    BY <1>1, <1>3, <1>4, BooksMove DEF Books!Place

LEMMA RemovingIsBooked ==
    ASSUME SafetyInv, BookFacts, BookFacts',
           NEW u \in User, NEW o \in OrderId, RemoveOrder(u, o)
    PROVE  Books!Remove(o)
  <1>1. /\ o \in DOMAIN orders /\ DOMAIN orders' = DOMAIN orders \ {o}
        /\ UNCHANGED <<drawn, epoch>> /\ DOMAIN orders \subseteq drawn
        /\ DOMAIN payments' = {p \in DOMAIN payments : payments[p].order # o}
        /\ \A p \in DOMAIN payments' : payments'[p] = payments[p]
    BY RowFacts DEF RemoveOrder, DeleteOrder, CascadeDelete, DeleteRows, Restrict, Owns
  <1>2. BookedState(o)' = "removed"
    BY <1>1 DEF BookFacts
  <1>3. BookedState(o) \in {"unpaid", "initiated", "paid", "failed"}
    <2>1. CASE PaymentsOf(o) = {}
      BY <1>1, <2>1 DEF BookFacts
    <2>2. ASSUME NEW p \in PaymentsOf(o)
          PROVE  BookedState(o) \in {"initiated", "paid", "failed"}
      BY <1>1, RowFacts DEF BookFacts, PaymentsOf, Settled, PaymentStatus
    <2> QED
      BY <2>1, <2>2
  <1>4. ASSUME NEW x \in OrderId, x # o PROVE BookedState(x)' = BookedState(x)
    <2>1. /\ PaymentsOf(x)' = PaymentsOf(x)
          /\ \A p \in PaymentsOf(x) : payments'[p].status = payments[p].status
      BY <1>1, <1>4 DEF PaymentsOf
    <2> QED
      BY <1>1, <1>4, <2>1, SameBooks
  <1> QED
    BY <1>1, <1>2, <1>3, <1>4, BooksMove DEF Books!Remove

\* The INSERT is where a payment is initiated; a refused one changes nothing,
\* and one whose answer is lost is booked all the same.
LEMMA InsertingIsBooked ==
    ASSUME SafetyInv, BookFacts, BookFacts', UNCHANGED epoch,
           NEW a \in Attempt, NEW answered \in Answers, InsertPayment(a, answered)
    PROVE  \/ \A x \in OrderId : BookedState(x)' = BookedState(x)
           \/ \E o \in OrderId : Books!Initiate(o)
  <1>1. UNCHANGED <<orders, drawn>> /\ a \in DOMAIN att
    BY DEF InsertPayment, orderVars
  <1>o. PICK o \in OrderId : o = att[a].order
    BY <1>1, RowFacts DEF PaymentsTypeOK, AttemptRecord
  <1>2. CASE UNCHANGED payments
    BY <1>1, <1>2, BooksStay
  <1>3. CASE /\ InsertOutcome(a) = "inserted"
             /\ payments' = InsertRow(payments, a, NewPayment(a))
    <2>1. /\ DOMAIN payments' = DOMAIN payments \cup {a}
          /\ payments'[a].order = o /\ payments'[a].status = "pending"
          /\ \A p \in DOMAIN payments : p # a => payments'[p] = payments[p]
      BY <1>o, <1>3 DEF InsertRow, NewPayment
    <2>2. o \in DOMAIN orders /\ PaymentsOf(o) = {}
      BY <1>o, <1>3 DEF InsertOutcome, PaymentsOf
    <2>3. a \notin DOMAIN payments
      BY DEF InsertPayment, SafetyInv, InFlight, RequestInserts
    <2>4. a \in PaymentsOf(o)' /\ ~Settled(a)'
      BY <2>1 DEF PaymentsOf, Settled
    <2>5. BookedState(o) = "unpaid" /\ BookedState(o)' = "initiated"
      BY <1>1, <2>2, <2>4 DEF BookFacts
    <2>6. ASSUME NEW x \in OrderId, x # o PROVE BookedState(x)' = BookedState(x)
      <3>1. /\ PaymentsOf(x)' = PaymentsOf(x)
            /\ \A p \in PaymentsOf(x) : payments'[p].status = payments[p].status
        BY <2>1, <2>3, <2>6 DEF PaymentsOf
      <3> QED
        BY <1>1, <3>1, SameBooks
    <2> QED
      BY <2>5, <2>6, BooksMove DEF Books!Initiate
  <1> QED
    BY <1>2, <1>3 DEF InsertPayment

\* The first callback to write settles the payment; a later one overturns it,
\* or writes the same again.
LEMMA SettlingIsBooked ==
    ASSUME AgreementInv, BookFacts, BookFacts', UNCHANGED epoch,
           NEW d \in Slot, NEW answered \in Answers, UpdatePayment(d, answered)
    PROVE  \/ \A x \in OrderId : BookedState(x)' = BookedState(x)
           \/ \E o \in OrderId, v \in {"paid", "failed"} :
                 Books!Settle(o, v) \/ Books!Overturn(o, v)
  <1>s. SafetyInv
    BY DEF AgreementInv, VerdictInv
  <1>0. d \in DOMAIN dlv /\ dlv[d].pay \in Attempt /\ dlv[d].status \in {"paid", "failed"}
    BY <1>s, RowFacts DEF UpdatePayment, WebhookTypeOK, CallbackRecord, Verdict
  <1>p. PICK p \in Attempt : p = dlv[d].pay
    BY <1>0
  <1>v. PICK v \in {"paid", "failed"} : v = dlv[d].status
    BY <1>0
  <1>1. UNCHANGED <<orders, drawn>>
    BY <1>0 DEF UpdatePayment, orderVars
  <1>2. CASE p \notin DOMAIN payments
    BY <1>p, <1>1, <1>2, BooksStay DEF UpdatePayment
  <1>3. CASE p \in DOMAIN payments
    <2>o. PICK o \in OrderId : o = payments[p].order
      BY <1>s, <1>3, RowFacts
    <2>1. /\ DOMAIN payments' = DOMAIN payments /\ payments'[p].status = v
          /\ \A q \in DOMAIN payments : /\ q # p => payments'[q] = payments[q]
                                        /\ payments'[q].order = payments[q].order
      BY <1>s, <1>p, <1>v, <1>3, RowFacts DEF UpdatePayment, PaymentsTypeOK, PaymentRow
    <2>2. o \in DOMAIN orders /\ p \in PaymentsOf(o) /\ payments[p].status \in PaymentStatus
      BY <1>s, <1>3, <2>o, RowFacts DEF PaymentsOf
    <2>3. p \in PaymentsOf(o)' /\ Settled(p)'
      BY <1>3, <2>o, <2>1 DEF PaymentsOf, Settled
    <2>4. BookedState(o)' = v
      BY <1>1, <2>1, <2>2, <2>3 DEF BookFacts
    <2>5. ASSUME NEW x \in OrderId, x # o PROVE BookedState(x)' = BookedState(x)
      <3>1. /\ PaymentsOf(x)' = PaymentsOf(x)
            /\ \A q \in PaymentsOf(x) : payments'[q].status = payments[q].status
        BY <1>3, <2>o, <2>1, <2>5 DEF PaymentsOf
      <3> QED
        BY <1>1, <3>1, SameBooks
    <2>6. CASE ~Settled(p)
      <3>1. BookedState(o) = "initiated"
        BY <2>2, <2>6 DEF BookFacts
      <3>2. Books!Settle(o, v)
        BY <2>4, <2>5, <3>1, BooksMove DEF Books!Settle
      <3> QED
        BY <3>2
    <2>7. CASE Settled(p) /\ ~OutcomesStand
      <3>1. BookedState(o) \in {"paid", "failed"}
        BY <2>2, <2>7 DEF BookFacts, Settled, PaymentStatus
      <3>2. Books!Overturn(o, v)
        BY <2>4, <2>5, <2>7, <3>1, BooksMove DEF Books!Overturn
      <3> QED
        BY <3>2
    <2>8. CASE Settled(p) /\ OutcomesStand
      <3>1. payments[p].status = v
        BY <1>0, <1>p, <1>v, <1>3, <2>8, WritesTheOutcome
      <3> QED
        BY <1>1, <2>1, <3>1, BooksStay
    <2> QED
      BY <2>6, <2>7, <2>8
  <1> QED
    BY <1>2, <1>3

\* Every step is a step of the books, or leaves them alone.
LEMMA BooksStep ==
    ASSUME AgreementInv, BookFacts, BookFacts', [Next]_vars
    PROVE  \/ Books!LedgerNext
           \/ /\ \A x \in OrderId : BookedState(x)' = BookedState(x)
              /\ OutcomesStand' = OutcomesStand
  <1> DEFINE Stays == \A x \in OrderId : BookedState(x)' = BookedState(x)
  <1>s. SafetyInv
    BY DEF AgreementInv, VerdictInv
  <1>e. UNCHANGED epoch => OutcomesStand' = OutcomesStand
    BY DEF OutcomesStand
  <1>1. CASE UNCHANGED <<orders, drawn, payments, epoch>>
    BY <1>e, <1>1, BooksStay
  <1>2. CASE Restart
    <2>1. Stays /\ ~OutcomesStand'
      <3>1. UNCHANGED <<orders, drawn, payments>>
        BY <1>2 DEF Restart, PaymentsRestart, orderVars
      <3>2. epoch' # 0
        BY <1>s, <1>2 DEF Restart, SafetyInv, TypeInv, TypeOK
      <3> QED
        BY <3>1, <3>2, BooksStay DEF OutcomesStand
    <2>2. CASE OutcomesStand
      BY <2>1, <2>2 DEF OutcomesStand, Books!LedgerNext, Books!Doubt
    <2>3. CASE ~OutcomesStand
      BY <2>1, <2>3 DEF OutcomesStand
    <2> QED
      BY <2>2, <2>3
  <1>3. ASSUME NEW u \in User, NEW o \in OrderId, NEW b \in Body, PostOrder(u, o, b)
        PROVE  Books!LedgerNext
    BY <1>s, <1>3, PlacingIsBooked DEF Books!LedgerNext
  <1>4. ASSUME NEW u \in User, NEW o \in OrderId, NEW b \in Body, PutOrder(u, o, b)
        PROVE  Stays /\ UNCHANGED epoch
    BY <1>4, BooksStay DEF PutOrder, UpdateOrder, paymentVars
  <1>5. ASSUME NEW u \in User, NEW o \in OrderId, RemoveOrder(u, o)
        PROVE  Books!LedgerNext
    BY <1>s, <1>5, RemovingIsBooked DEF Books!LedgerNext
  <1>6. ASSUME NEW a \in Attempt, AttemptStep(a)
        PROVE  \/ Books!LedgerNext
               \/ Stays /\ UNCHANGED epoch
    <2>1. CASE Charge(a)
      BY <1>6, <2>1, BooksStay DEF AttemptStep, Charge, orderVars
    <2>2. ASSUME NEW answered \in Answers, MarkOrder(a, answered)
          PROVE  Stays
      BY <1>s, <2>2, SetOrderStatusFacts, RowFacts, BooksStay DEF MarkOrder
    <2> QED
      BY <1>s, <1>6, <2>1, <2>2, InsertingIsBooked DEF AttemptStep, Books!LedgerNext
  <1>7. ASSUME NEW d \in Slot, CallbackStep(d)
        PROVE  \/ Books!LedgerNext
               \/ Stays /\ UNCHANGED epoch
    <2>1. ASSUME NEW answered \in Answers, AdvanceOrder(d, answered)
          PROVE  Stays
      BY <1>s, <2>1, SetOrderStatusFacts, RowFacts, BooksStay DEF AdvanceOrder, paymentVars
    <2> QED
      BY <1>7, <2>1, SettlingIsBooked DEF CallbackStep, Books!LedgerNext
  <1>8. ASSUME NEW u \in User, NEW o \in OrderId, NEW a \in Attempt, BeginAttempt(a, u, o)
        PROVE  UNCHANGED <<orders, drawn, payments, epoch>>
    BY <1>8 DEF BeginAttempt, GetOrder, orderVars
  <1>9. ASSUME NEW a \in Attempt, NEW w \in Verdict, Decide(a, w)
        PROVE  UNCHANGED <<orders, drawn, payments, epoch>>
    BY <1>9 DEF Decide, ProviderDecides, orderVars, paymentVars
  <1>10. ASSUME NEW d \in Slot, NEW m \in Callbacks, NEW p \in Attempt, Receive(d, m, p)
         PROVE  UNCHANGED <<orders, drawn, payments, epoch>>
    BY <1>10 DEF Receive, ReceiveCallback, orderVars, paymentVars
  <1>11. UNCHANGED vars \/ Wait \/ Fail => UNCHANGED <<orders, drawn, payments, epoch>>
    BY DEF Wait, vars, Fail, AttemptFails, CallbackFails, orderVars, paymentVars
  <1> QED
    BY <1>e, <1>1, <1>2, <1>3, <1>4, <1>5, <1>6, <1>7, <1>8, <1>9, <1>10, <1>11 DEF Next

LEMMA BooksInit == Init => Books!LedgerInit
  <1>1. Init => BookFacts
    BY SafetyInit, BookFactsHold
  <1> QED
    BY <1>1 DEF Init, OrdersInit, BookFacts, OutcomesStand, Books!LedgerInit

\* Whatever fails, restarts, comes early or contradicts itself, the separate
\* statements of Create and of ApplyProviderCallback never do to an order and
\* its payment what transactions could not: the UNIQUE constraint, the foreign
\* keys and the check on the status suffice.
THEOREM BooksAreKept == Spec => KeepsBooks
  <1>1. AgreementInv /\ AgreementInv' /\ [Next]_vars => [Books!LedgerNext]_(Books!ledgerVars)
    <2> SUFFICES ASSUME AgreementInv, AgreementInv', [Next]_vars
                 PROVE  [Books!LedgerNext]_(Books!ledgerVars)
      OBVIOUS
    <2>1. SafetyInv /\ SafetyInv'
      BY DEF AgreementInv, VerdictInv
    <2>2. BookFacts /\ BookFacts'
      BY <2>1, BookFactsHold, BookFactsNext
    <2> QED
      BY <2>2, BooksStep DEF Books!ledgerVars
  <1> QED
    BY <1>1, BooksInit, AgreementInvariant, PTL DEF Spec, KeepsBooks, Books!LedgerSpec
=============================================================================
