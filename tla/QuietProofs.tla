----------------------------- MODULE QuietProofs ----------------------------
(***************************************************************************)
(* As long as callbacks overtake nothing, an order and its payment do not  *)
(* come apart unless a statement fails, and then not silently.  When none  *)
(* fails and the process lives they agree completely, and OrderPayment     *)
(* implements PaymentLedger: for every number of orders, requests and      *)
(* callbacks.                                                              *)
(***************************************************************************)
EXTENDS AgreementProofs

QuietEnv == Env \subseteq {"edit", "delete"} /\ MaxRestarts = 0

\* But with "early", the provider speaks of a charge after its request has
\* been answered.
SpeaksAfterReply ==
    "early" \notin Env =>
        \A a \in Attempt : sent[a] # {} => a \in DOMAIN att /\ att[a].pc = "done"

\* Anything may fail, but callbacks can be relied on.
CalmInv == OutcomesStand /\ AgreementInv /\ SpeaksAfterReply

\* The order of payment p shows it, or will when a handler in flight has
\* returned: the callback that settled p, or the request that made it if p
\* is not settled yet.
Shown(p) ==
    \/ \E d \in DOMAIN dlv : dlv[d].pc = "advance" /\ dlv[d].pay = p
    \/ att[p].pc = "mark" /\ ~Settled(p)
    \/ att[p].pc = "done" /\ orders[payments[p].order].status = StatusShown(p)

\* A callback has overtaken the request that made p.
Late(p) == att[p].pc = "mark" /\ Settled(p)

\* In quiet environments, all payments are shown.
AllShown == \A p \in DOMAIN payments : Shown(p)

\* A step that takes no payment from its order's sight.
KeepsShown ==
    \A p \in DOMAIN payments' :
        (p \in DOMAIN payments => Shown(p) /\ ~Late(p)) => Shown(p)'

\* Or one that says so with 500.
KeepsShownOrTells ==
    \A p \in DOMAIN payments' :
        (p \in DOMAIN payments => Shown(p) /\ ~Late(p)) =>
            Shown(p)' \/ FailureReported(payments'[p].order)

QuietInv == QuietEnv /\ CalmInv /\ AllShown

LEMMA QuietInit == Init /\ QuietEnv => QuietInv
  BY AgreementInit
  DEF Init, OrdersInit, PaymentsInit, WebhookInit, EmptyTable, QuietInv, QuietEnv,
      CalmInv, OutcomesStand, SpeaksAfterReply, AllShown

\* What the invariant says of payments and the requests that made them.
LEMMA CalmFacts ==
    ASSUME CalmInv
    PROVE  /\ OrdersTypeOK /\ PaymentsTypeOK /\ WebhookTypeOK
           /\ VerdictInv /\ ConsistentInv
           /\ OnePaymentPerOrder /\ OrderStatusBacked
           /\ \A p \in DOMAIN payments :
                 /\ p \in DOMAIN att /\ p \in Attempt
                 /\ payments[p].order = att[p].order
                 /\ payments[p].order \in DOMAIN orders
                 /\ payments[p].order \in OrderId
                 /\ att[p].pc \in {"mark", "done"}
  <1>1. /\ OrdersTypeOK /\ PaymentsTypeOK /\ WebhookTypeOK
        /\ VerdictInv /\ ConsistentInv
        /\ OnePaymentPerOrder /\ OrderStatusBacked /\ PaymentHasOwnersOrder
        /\ RequestInserts
    BY DEF CalmInv, OutcomesStand, AgreementInv, VerdictInv, SafetyInv, TypeInv, TypeOK,
           Promises, InFlight
  <1>2. ASSUME NEW p \in DOMAIN payments
        PROVE  /\ p \in DOMAIN att /\ p \in Attempt
               /\ payments[p].order = att[p].order
               /\ payments[p].order \in DOMAIN orders
               /\ payments[p].order \in OrderId
               /\ att[p].pc \in {"mark", "done"}
    BY <1>1, <1>2 DEF PaymentsTypeOK, PaymentRow, PaymentHasOwnersOrder, Owns,
                      RequestInserts, AttemptRecord
  <1> QED
    BY <1>1, <1>2

\* Callbacks overtake no request that is answered before the provider speaks.
LEMMA NobodyIsLate == QuietInv => \A p \in DOMAIN payments : ~Late(p)
  BY CalmFacts
  DEF QuietInv, QuietEnv, CalmInv, OutcomesStand, SpeaksAfterReply, VerdictInv,
      VerdictRespected, Late

\* A step that leaves a payment, its request, what its order shows and the
\* callbacks on their way to it as they were.
LEMMA CalmFrame ==
    ASSUME NEW p \in DOMAIN payments, Shown(p),
           payments'[p] = payments[p],
           att'[p].pc = att[p].pc,
           orders'[payments[p].order].status = orders[payments[p].order].status,
           \A d \in DOMAIN dlv : dlv[d].pc = "advance" /\ dlv[d].pay = p =>
              d \in DOMAIN dlv' /\ dlv'[d].pc = "advance" /\ dlv'[d].pay = p
    PROVE  Shown(p)'
  BY DEF Shown, StatusShown, Settled

LEMMA CalmOrders ==
    ASSUME CalmInv, NEW u \in User, NEW o \in OrderId,
           \/ \E b \in Body : PostOrder(u, o, b) \/ PutOrder(u, o, b)
           \/ RemoveOrder(u, o)
    PROVE  SpeaksAfterReply' /\ KeepsShown
  <1>1. UNCHANGED <<att, dlv, sent>> /\ SpeaksAfterReply'
    BY DEF PostOrder, PutOrder, RemoveOrder, paymentVars, webhookVars, CalmInv,
           SpeaksAfterReply
  <1>2. /\ DOMAIN payments' \subseteq DOMAIN payments
        /\ \A p \in DOMAIN payments' : payments'[p] = payments[p]
    BY DEF PostOrder, PutOrder, RemoveOrder, paymentVars, CascadeDelete, DeleteRows,
           Restrict
  <1>3. ASSUME NEW p \in DOMAIN payments'
        PROVE  orders'[payments[p].order].status = orders[payments[p].order].status
    <2> DEFINE x == payments[p].order
    <2>1. x \in DOMAIN orders /\ orders[x] \in OrderRow /\ x \in drawn
      BY <1>2, CalmFacts DEF OrdersTypeOK
    <2> HIDE DEF x
    <2>2. ASSUME NEW b \in Body, PostOrder(u, o, b)
          PROVE  orders'[x].status = orders[x].status
      BY <2>1, <2>2 DEF PostOrder, CreateOrder, InsertRow
    <2>3. ASSUME NEW b \in Body, PutOrder(u, o, b)
          PROVE  orders'[x].status = orders[x].status
      BY <2>1, <2>3 DEF PutOrder, UpdateOrder, OrderRow
    <2>4. ASSUME RemoveOrder(u, o)
          PROVE  orders'[x].status = orders[x].status
      <3>1. x # o
        BY <1>2, <2>4 DEF x, RemoveOrder, CascadeDelete, DeleteRows, Restrict
      <3> QED
        BY <2>1, <2>4, <3>1 DEF RemoveOrder, DeleteOrder, DeleteRows, Restrict
    <2> QED
      BY <2>2, <2>3, <2>4 DEF x
  <1>4. ASSUME NEW p \in DOMAIN payments', Shown(p)
        PROVE  Shown(p)'
    BY <1>1, <1>2, <1>3, <1>4, CalmFrame
  <1> QED
    BY <1>1, <1>2, <1>4 DEF KeepsShown

LEMMA CalmBegin ==
    ASSUME CalmInv, NEW u \in User, NEW o \in OrderId, NEW a \in Attempt,
           BeginAttempt(a, u, o)
    PROVE  SpeaksAfterReply' /\ KeepsShown
  <1>1. /\ UNCHANGED <<orders, payments, dlv, sent>>
        /\ DOMAIN att' = DOMAIN att \cup {a} /\ a \notin DOMAIN att
        /\ \A x \in DOMAIN att : att'[x] = att[x]
    BY DEF BeginAttempt, GetOrder, InsertRow, orderVars, webhookVars
  <1>2. SpeaksAfterReply'
    BY <1>1 DEF CalmInv, SpeaksAfterReply
  <1>3. ASSUME NEW p \in DOMAIN payments, Shown(p)
        PROVE  Shown(p)'
    BY <1>1, <1>3, CalmFacts, CalmFrame
  <1> QED
    BY <1>1, <1>2, <1>3 DEF KeepsShown

LEMMA CalmCharge ==
    ASSUME CalmInv, NEW a \in Attempt, Charge(a), UNCHANGED webhookVars
    PROVE  SpeaksAfterReply' /\ KeepsShown
  <1>1. /\ UNCHANGED <<orders, payments, dlv, sent>>
        /\ DOMAIN att' = DOMAIN att
        /\ att[a].pc = "charge" /\ \A x \in DOMAIN att : x # a => att'[x] = att[x]
    BY DEF Charge, orderVars, webhookVars
  <1>2. SpeaksAfterReply'
    BY <1>1 DEF CalmInv, SpeaksAfterReply
  <1>3. ASSUME NEW p \in DOMAIN payments, Shown(p)
        PROVE  Shown(p)'
    BY <1>1, <1>3, CalmFacts, CalmFrame
  <1> QED
    BY <1>1, <1>2, <1>3 DEF KeepsShown

\* A new payment is neither settled nor shown yet.  If the answer is lost it
\* will not be shown, and the client is told 500.
LEMMA CalmInsert ==
    ASSUME CalmInv, NEW a \in Attempt, NEW answered \in BOOLEAN,
           InsertPayment(a, answered), UNCHANGED webhookVars
    PROVE  SpeaksAfterReply' /\ (KeepsShown \/ (~answered /\ KeepsShownOrTells))
  <1>1. /\ UNCHANGED <<orders, dlv, sent>> /\ a \in DOMAIN att /\ att[a].pc = "insert"
        /\ a \notin DOMAIN payments
    BY CalmFacts DEF InsertPayment, orderVars, webhookVars
  <1>2. /\ DOMAIN att' = DOMAIN att
        /\ \A x \in DOMAIN att : x # a => att'[x] = att[x]
    BY <1>1, ReplyFacts, ToMarkFacts, CalmFacts DEF InsertPayment
  <1>3. SpeaksAfterReply'
    BY <1>1, <1>2 DEF CalmInv, SpeaksAfterReply
  <1>4. ASSUME NEW p \in DOMAIN payments, Shown(p), payments'[p] = payments[p]
        PROVE  Shown(p)'
    BY <1>1, <1>2, <1>4, CalmFacts, CalmFrame
  <1>5. CASE UNCHANGED payments
    BY <1>3, <1>4, <1>5 DEF KeepsShown
  <1>6. CASE payments' = InsertRow(payments, a, NewPayment(a))
    <2>1. /\ DOMAIN payments' = DOMAIN payments \cup {a}
          /\ \A p \in DOMAIN payments : payments'[p] = payments[p]
          /\ payments'[a].order = att[a].order
      BY <1>1, <1>6 DEF InsertRow, NewPayment
    <2>2. CASE att' = [att EXCEPT ![a].pc = "mark"]
      <3>1. att'[a].pc = "mark" /\ payments'[a].status = "pending"
        BY <1>1, <1>6, <2>2, ToMarkFacts, CalmFacts DEF InsertRow, NewPayment
      <3>2. Shown(a)'
        BY <3>1 DEF Shown, Settled
      <3> QED
        BY <1>3, <1>4, <2>1, <3>2 DEF KeepsShown
    <2>3. CASE ~answered /\ Reply(a, "InternalError")
      <3>1. att'[a].reply = "InternalError"
        BY <1>1, <2>3, ReplyFacts, CalmFacts DEF AttemptReply
      <3>2. FailureReported(payments'[a].order)
        BY <1>1, <2>1, <3>1 DEF FailureReported
      <3> QED
        BY <1>3, <1>4, <2>1, <2>3, <3>2 DEF KeepsShownOrTells
    <2> QED
      BY <1>1, <1>5, <1>6, <2>2, <2>3 DEF InsertPayment
  <1> QED
    BY <1>5, <1>6 DEF InsertPayment

\* The mark shows a payment that is pending.
LEMMA CalmMark ==
    ASSUME CalmInv, NEW a \in Attempt, NEW answered \in Answers,
           MarkOrder(a, answered), UNCHANGED webhookVars
    PROVE  SpeaksAfterReply' /\ KeepsShown
  <1> DEFINE hit == {o \in {att[a].order} : Owns(att[a].user, o)}
  <1>1. /\ UNCHANGED <<payments, dlv, sent>> /\ a \in DOMAIN att /\ att[a].pc = "mark"
        /\ SetOrderStatus(hit, "pending_payment")
        /\ \E r \in AttemptReply : Reply(a, r)
    BY DEF MarkOrder, webhookVars, AttemptReply
  <1>2. /\ DOMAIN att' = DOMAIN att /\ att'[a].pc = "done"
        /\ \A x \in DOMAIN att : x # a => att'[x] = att[x]
    BY <1>1, ReplyFacts, CalmFacts
  <1>3. SpeaksAfterReply'
    BY <1>1, <1>2 DEF CalmInv, SpeaksAfterReply
  <1>4. \A o \in DOMAIN orders :
           orders'[o].status = IF o \in hit THEN "pending_payment" ELSE orders[o].status
    BY <1>1, SetOrderStatusFacts, CalmFacts
  <1>5. hit # {} => a \in DOMAIN payments
    BY <1>1 DEF CalmInv, AgreementInv, VerdictInv, SafetyInv, InFlight, RequestInserts,
                Exists, Owns
  <1>6. a \in DOMAIN payments => hit = {payments[a].order}
    BY CalmFacts DEF CalmInv, AgreementInv, VerdictInv, SafetyInv, Promises,
                     PaymentHasOwnersOrder
  <1> HIDE DEF hit
  <1>7. ASSUME NEW p \in DOMAIN payments, Shown(p), ~Late(p)
        PROVE  Shown(p)'
    <2>1. CASE p = a
      BY <1>1, <1>2, <1>4, <1>6, <1>7, <2>1, CalmFacts
      DEF Shown, Late, StatusShown, Settled
    <2>2. CASE p # a
      <3>1. payments[p].order \notin hit
        BY <1>5, <1>6, <2>2, CalmFacts DEF OnePaymentPerOrder
      <3> QED
        BY <1>1, <1>2, <1>4, <1>7, <2>2, <3>1, CalmFacts, CalmFrame
    <2> QED
      BY <2>1, <2>2
  <1> QED
    BY <1>1, <1>3, <1>7 DEF KeepsShown

LEMMA CalmDecide ==
    ASSUME CalmInv, NEW a \in Attempt, NEW v \in Verdict, Decide(a, v)
    PROVE  SpeaksAfterReply' /\ KeepsShown
  <1>1. /\ UNCHANGED <<orders, payments, att, dlv>>
        /\ a \in DOMAIN att /\ ("early" \notin Env => att[a].pc = "done")
        /\ \A x \in Attempt : x # a => sent'[x] = sent[x]
    BY CalmFacts DEF Decide, ProviderDecides, orderVars, paymentVars, CalmInv,
                      WebhookTypeOK
  <1>2. SpeaksAfterReply'
    BY <1>1 DEF CalmInv, SpeaksAfterReply
  <1>3. ASSUME NEW q \in DOMAIN payments, Shown(q)
        PROVE  Shown(q)'
    BY <1>1, <1>3, CalmFacts, CalmFrame
  <1> QED
    BY <1>1, <1>2, <1>3 DEF KeepsShown

\* A slot is taken over only from a callback that is over.
LEMMA CalmReceive ==
    ASSUME CalmInv, NEW d \in Slot, NEW m \in Callbacks, NEW p \in Attempt,
           Receive(d, m, p)
    PROVE  SpeaksAfterReply' /\ KeepsShown
  <1>1. /\ UNCHANGED <<orders, payments, att, sent>>
        /\ DOMAIN dlv' = DOMAIN dlv \cup {d}
        /\ d \in DOMAIN dlv => dlv[d].pc = "done"
        /\ \A x \in DOMAIN dlv : x # d => dlv'[x] = dlv[x]
    BY DEF Receive, ReceiveCallback, InsertRow, orderVars, paymentVars
  <1>2. SpeaksAfterReply'
    BY <1>1 DEF CalmInv, SpeaksAfterReply
  <1>3. ASSUME NEW q \in DOMAIN payments, Shown(q)
        PROVE  Shown(q)'
    BY <1>1, <1>3, CalmFacts, CalmFrame
  <1> QED
    BY <1>1, <1>2, <1>3 DEF KeepsShown

\* What a callback on its way to an order that exists carries there.
LEMMA CalmAdvancing ==
    ASSUME CalmInv, NEW d \in DOMAIN dlv, dlv[d].pc = "advance",
           dlv[d].order \in DOMAIN orders
    PROVE  /\ dlv[d].pay \in DOMAIN payments /\ Settled(dlv[d].pay)
           /\ payments[dlv[d].pay].order = dlv[d].order
           /\ payments[dlv[d].pay].status = dlv[d].status
  <1>1. /\ dlv[d].pay \in DOMAIN payments /\ Settled(dlv[d].pay)
        /\ dlv[d].order = att[dlv[d].pay].order
    BY CalmFacts DEF VerdictInv, SafetyInv, InFlight, CallbackKnowsPayment, Exists
  <1>2. dlv[d].status \in sent[dlv[d].pay] /\ OneVerdict /\ epoch = 0
    BY CalmFacts DEF ConsistentInv, CallbacksGenuine, CalmInv, OutcomesStand
  <1> QED
    BY <1>1, <1>2, CalmFacts, SettledByTheVerdict

\* The payment is settled, and its order is going to hear of it, unless the
\* answer is lost and the provider is told 500.
LEMMA CalmUpdate ==
    ASSUME CalmInv, NEW d \in Slot, NEW answered \in BOOLEAN, UpdatePayment(d, answered)
    PROVE  SpeaksAfterReply' /\ (KeepsShown \/ (~answered /\ KeepsShownOrTells))
  <1> DEFINE p == dlv[d].pay
  <1>1. /\ d \in DOMAIN dlv /\ dlv[d].pc = "update"
        /\ dlv[d] \in CallbackRecord
        /\ UNCHANGED <<orders, att, sent>>
    BY CalmFacts DEF UpdatePayment, orderVars, WebhookTypeOK
  <1>2. SpeaksAfterReply'
    BY <1>1 DEF CalmInv, SpeaksAfterReply
  <1>3. /\ DOMAIN dlv' = DOMAIN dlv
        /\ \A x \in DOMAIN dlv : x # d => dlv'[x] = dlv[x]
    BY <1>1, RespondFacts, CalmFacts DEF UpdatePayment
  <1>4. /\ DOMAIN payments' = DOMAIN payments
        /\ \A q \in DOMAIN payments : /\ q # p => payments'[q] = payments[q]
                                      /\ payments'[q].order = payments[q].order
    BY CalmFacts DEF UpdatePayment, PaymentsTypeOK, PaymentRow
  <1>5. ASSUME NEW q \in DOMAIN payments, Shown(q), q # p
        PROVE  Shown(q)'
    BY <1>1, <1>3, <1>4, <1>5, CalmFrame
  <1>6. CASE p \notin DOMAIN payments
    BY <1>2, <1>4, <1>5, <1>6 DEF KeepsShown
  <1>7. CASE p \in DOMAIN payments
    <2>1. CASE dlv' = [dlv EXCEPT ![d].pc = "advance"]
      <3>1. dlv'[d].pc = "advance" /\ dlv'[d].pay = p
        BY <1>1, <2>1 DEF CallbackRecord
      <3>2. ASSUME NEW q \in DOMAIN payments, q = p
            PROVE  Shown(q)'
        BY <1>1, <1>3, <3>1, <3>2 DEF Shown
      <3> QED
        BY <1>2, <1>4, <1>5, <3>2 DEF KeepsShown
    <2>2. CASE ~answered /\ Respond(d, "InternalError")
      <3>1. dlv'[d].reply = "InternalError"
        BY <1>1, <2>2, RespondFacts, CalmFacts
      <3>2. payments'[p].order = dlv[d].order
        BY <1>1, <1>4, <1>7, CalmFacts
        DEF VerdictInv, SafetyInv, InFlight, CallbackKnowsPayment
      <3>3. FailureReported(payments'[p].order)
        BY <1>1, <3>1, <3>2 DEF FailureReported
      <3> QED
        BY <1>2, <1>4, <1>5, <2>2, <3>3 DEF KeepsShownOrTells
    <2> QED
      BY <1>7, <2>1, <2>2 DEF UpdatePayment
  <1> QED
    BY <1>6, <1>7

\* The order hears of it: what it shows from now on is its payment.
LEMMA CalmAdvance ==
    ASSUME CalmInv, NEW d \in Slot, NEW answered \in BOOLEAN, AdvanceOrder(d, answered)
    PROVE  SpeaksAfterReply' /\ KeepsShown
  <1> DEFINE p == dlv[d].pay
             o == dlv[d].order
  <1>1. /\ d \in DOMAIN dlv /\ dlv[d].pc = "advance"
        /\ UNCHANGED <<payments, att, sent>>
        /\ SetOrderStatus({o} \cap DOMAIN orders, OrderStatusFor(dlv[d].status))
        /\ \E r \in CallbackReply : Respond(d, r)
    BY DEF AdvanceOrder, paymentVars, CallbackReply
  <1>2. /\ DOMAIN dlv' = DOMAIN dlv
        /\ \A x \in DOMAIN dlv : x # d => dlv'[x] = dlv[x]
    BY <1>1, RespondFacts, CalmFacts
  <1>3. SpeaksAfterReply'
    BY <1>1 DEF CalmInv, SpeaksAfterReply
  <1>4. \A x \in DOMAIN orders :
           orders'[x].status = IF x = o THEN OrderStatusFor(dlv[d].status)
                                        ELSE orders[x].status
    BY <1>1, SetOrderStatusFacts, CalmFacts
  <1>5. o \in DOMAIN orders =>
           /\ p \in DOMAIN payments /\ Settled(p) /\ payments[p].order = o
           /\ payments[p].status = dlv[d].status
    BY <1>1, CalmAdvancing
  <1>6. ASSUME NEW q \in DOMAIN payments, Shown(q), ~Late(q)
        PROVE  Shown(q)'
    <2>1. CASE payments[q].order = o
      <3>1. q = p /\ o \in DOMAIN orders
        BY <1>5, <2>1, CalmFacts DEF OnePaymentPerOrder
      <3>2. orders'[payments[q].order].status = StatusShown(q)
        BY <1>4, <1>5, <2>1, <3>1 DEF StatusShown
      <3>3. att[q].pc = "done"
        BY <1>5, <1>6, <3>1, CalmFacts DEF Late
      <3> QED
        BY <1>1, <3>2, <3>3 DEF Shown, StatusShown, Settled
    <2>2. CASE payments[q].order # o
      <3>1. payments[q].order \in DOMAIN orders
        BY CalmFacts
      <3>2. q # p
        BY <1>1, <2>2, <3>1, CalmFacts
           DEF VerdictInv, SafetyInv, InFlight, CallbackKnowsPayment
      <3> QED
        BY <1>1, <1>2, <1>4, <1>6, <2>2, <3>1, <3>2, CalmFrame
    <2> QED
      BY <2>1, <2>2
  <1> QED
    BY <1>1, <1>3, <1>6 DEF KeepsShown

\* A statement that fails leaves at most the payment of its own request or
\* callback unshown, and tells whose it was.
LEMMA CalmFail ==
    ASSUME CalmInv, Fail
    PROVE  SpeaksAfterReply' /\ KeepsShownOrTells
  <1>1. ASSUME NEW a \in Attempt, AttemptFails(a), UNCHANGED webhookVars
        PROVE  SpeaksAfterReply' /\ KeepsShownOrTells
    <2>1. /\ UNCHANGED <<orders, payments, dlv, sent>>
          /\ a \in DOMAIN att /\ att[a].pc # "done" /\ Reply(a, "InternalError")
      BY <1>1 DEF AttemptFails, orderVars, webhookVars
    <2>2. /\ DOMAIN att' = DOMAIN att /\ att'[a].reply = "InternalError"
          /\ \A x \in DOMAIN att : x # a => att'[x] = att[x]
      BY <2>1, ReplyFacts, CalmFacts
    <2>3. SpeaksAfterReply'
      BY <2>1, <2>2 DEF CalmInv, SpeaksAfterReply
    <2>4. ASSUME NEW p \in DOMAIN payments, Shown(p), p # a
          PROVE  Shown(p)'
      BY <2>1, <2>2, <2>4, CalmFacts, CalmFrame
    <2>5. a \in DOMAIN payments => FailureReported(payments'[a].order)
      BY <2>1, <2>2, CalmFacts DEF FailureReported
    <2> QED
      BY <2>1, <2>3, <2>4, <2>5 DEF KeepsShownOrTells
  <1>2. ASSUME NEW d \in Slot, CallbackFails(d)
        PROVE  SpeaksAfterReply' /\ KeepsShownOrTells
    <2>1. /\ UNCHANGED <<orders, payments, att, sent>>
          /\ d \in DOMAIN dlv /\ dlv[d].pc # "done" /\ Respond(d, "InternalError")
      BY <1>2 DEF CallbackFails, orderVars, paymentVars
    <2>2. /\ DOMAIN dlv' = DOMAIN dlv /\ dlv'[d].reply = "InternalError"
          /\ \A x \in DOMAIN dlv : x # d => dlv'[x] = dlv[x]
      BY <2>1, RespondFacts, CalmFacts
    <2>3. SpeaksAfterReply'
      BY <2>1 DEF CalmInv, SpeaksAfterReply
    <2>4. ASSUME NEW p \in DOMAIN payments, Shown(p), p # dlv[d].pay
          PROVE  Shown(p)'
      BY <2>1, <2>2, <2>4, CalmFacts, CalmFrame
    <2>5. ASSUME NEW p \in DOMAIN payments, p = dlv[d].pay, dlv[d].pc = "advance"
          PROVE  FailureReported(payments'[p].order)
      <3>1. payments'[p].order = dlv[d].order
        BY <2>1, <2>5, CalmFacts DEF VerdictInv, SafetyInv, InFlight, CallbackKnowsPayment
      <3> QED
        BY <2>1, <2>2, <3>1 DEF FailureReported
    <2>6. ASSUME NEW p \in DOMAIN payments, Shown(p), dlv[d].pc # "advance"
          PROVE  Shown(p)'
      BY <2>1, <2>2, <2>6, CalmFacts, CalmFrame
    <2> QED
      BY <2>1, <2>3, <2>4, <2>5, <2>6 DEF KeepsShownOrTells
  <1> QED
    BY <1>1, <1>2 DEF Fail

\* Every step of one life of the process, and those without failures.
LEMMA CalmStep ==
    ASSUME CalmInv, [Next]_vars, ~Restart
    PROVE  /\ SpeaksAfterReply'
           /\ KeepsShown \/ KeepsShownOrTells
           /\ "fault" \notin Env => KeepsShown
  <1> DEFINE Goal == /\ SpeaksAfterReply'
                     /\ KeepsShown \/ KeepsShownOrTells
                     /\ "fault" \notin Env => KeepsShown
  <1>1. CASE UNCHANGED vars
    <2>1. SpeaksAfterReply'
      BY <1>1 DEF vars, CalmInv, SpeaksAfterReply
    <2>2. ASSUME NEW p \in DOMAIN payments, Shown(p)
          PROVE  Shown(p)'
      BY <1>1, <2>2, CalmFrame DEF vars
    <2> QED
      BY <1>1, <2>1, <2>2 DEF vars, KeepsShown
  <1>2. ASSUME NEW u \in User, NEW o \in OrderId,
               \/ \E b \in Body : PostOrder(u, o, b) \/ PutOrder(u, o, b)
               \/ RemoveOrder(u, o)
        PROVE  Goal
    BY <1>2, CalmOrders
  <1>3. ASSUME NEW u \in User, NEW o \in OrderId, NEW a \in Attempt, BeginAttempt(a, u, o)
        PROVE  Goal
    BY <1>3, CalmBegin
  <1>4. \A answered \in Answers : /\ answered \in BOOLEAN
                                  /\ "fault" \notin Env => answered = TRUE
    BY DEF Answers
  <1>5. ASSUME NEW a \in Attempt, AttemptStep(a)
        PROVE  Goal
    <2>1. UNCHANGED webhookVars
      BY <1>5 DEF AttemptStep
    <2> QED
      BY <1>4, <1>5, <2>1, CalmCharge, CalmInsert, CalmMark DEF AttemptStep
  <1>6. ASSUME NEW a \in Attempt, NEW v \in Verdict, Decide(a, v)
        PROVE  Goal
    BY <1>6, CalmDecide
  <1>7. ASSUME NEW d \in Slot, NEW m \in Callbacks, NEW p \in Attempt, Receive(d, m, p)
        PROVE  Goal
    BY <1>7, CalmReceive
  <1>8. ASSUME NEW d \in Slot, CallbackStep(d)
        PROVE  Goal
    <2>1. PICK answered \in Answers : UpdatePayment(d, answered) \/ AdvanceOrder(d, answered)
      BY <1>8 DEF CallbackStep
    <2>2. answered \in BOOLEAN /\ ("fault" \notin Env => answered = TRUE)
      BY <1>4
    <2>3. CASE UpdatePayment(d, answered)
      BY <2>2, <2>3, CalmUpdate
    <2>4. CASE AdvanceOrder(d, answered)
      BY <2>2, <2>4, CalmAdvance
    <2> QED
      BY <2>1, <2>3, <2>4
  <1>9. CASE Fail
    BY <1>9, CalmFail DEF Fail, AttemptFails, CallbackFails
  <1> QED
    BY <1>1, <1>2, <1>3, <1>5, <1>6, <1>7, <1>8, <1>9 DEF Next, Wait

LEMMA EpochMoves == ASSUME [Next]_vars, ~Restart PROVE epoch' = epoch
  BY DEF Next, vars, PostOrder, PutOrder, RemoveOrder, BeginAttempt, AttemptStep, Decide,
         Receive, CallbackStep, Fail, Wait

LEMMA QuietStep == QuietInv /\ [Next]_vars => QuietInv'
  <1> SUFFICES ASSUME QuietInv, [Next]_vars
               PROVE  QuietInv'
    OBVIOUS
  <1>1. ~Restart /\ "fault" \notin Env
    BY DEF Restart, QuietInv, QuietEnv, CalmInv, OutcomesStand
  <1>2. epoch' = epoch /\ AgreementInv'
    BY <1>1, EpochMoves, AgreementStep DEF QuietInv, CalmInv
  <1>3. SpeaksAfterReply' /\ KeepsShown
    BY <1>1, CalmStep DEF QuietInv
  <1> QED
    BY <1>2, <1>3, NobodyIsLate
    DEF QuietInv, QuietEnv, CalmInv, OutcomesStand, AllShown, KeepsShown

LEMMA QuietInvariant == ASSUME QuietEnv PROVE Spec => []QuietInv
  <1>1. Init => QuietInv
    BY QuietInit
  <1> QED
    BY <1>1, QuietStep, PTL DEF Spec

\* When no request is in flight, every order shows exactly its payment's state,
\* although the two are written by separate statements.
THEOREM QuiescentStatesAgree == ASSUME QuietEnv PROVE Spec => []QuiescentAgreement
  <1>1. QuietInv => QuiescentAgreement
    <2> SUFFICES ASSUME QuietInv, Idle, NEW o \in DOMAIN orders
                 PROVE  IF PaymentsOf(o) = {} THEN orders[o].status = "pending"
                        ELSE \A p \in PaymentsOf(o) : orders[o].status = StatusShown(p)
      BY DEF QuiescentAgreement
    <2>1. CASE PaymentsOf(o) = {}
      BY <2>1, CalmFacts DEF QuietInv, OrderStatusBacked
    <2>2. ASSUME NEW p \in PaymentsOf(o)
          PROVE  orders[o].status = StatusShown(p)
      BY <2>2, CalmFacts DEF PaymentsOf, Idle, QuietInv, AllShown, Shown
    <2> QED
      BY <2>1, <2>2
  <1> QED
    BY <1>1, QuietInvariant, PTL

\* README: a callback "updates the payment, cascades the order status".  Not
\* at once (`early`; and a repeated callback is answered while the first is
\* still between its two UPDATEs), but when nothing is in flight any more.
THEOREM CallbacksCascadeAtRest ==
    ASSUME QuietEnv
    PROVE  Spec => [](Idle => CallbackCascades)
  <1>1. ASSUME QuietInv, QuiescentAgreement, Idle
        PROVE  CallbackCascades
    <2> SUFFICES ASSUME NEW d \in DOMAIN dlv, dlv[d].reply = "OK",
                        dlv[d].pay \in DOMAIN payments
                 PROVE  orders[dlv[d].order].status = OrderStatusFor(dlv[d].status)
      BY DEF CallbackCascades
    <2> DEFINE p == dlv[d].pay
    <2>1. Settled(p) /\ payments[p].status = dlv[d].status
      BY <1>1, CalmFacts, RepliesAgree
      DEF QuietInv, CalmInv, OutcomesStand, TruthfulCallbackReplies, ConsistentInv,
          TakenIsSettled
    <2>2. payments[p].order \in DOMAIN orders /\ p \in PaymentsOf(payments[p].order)
      BY <1>1, CalmFacts DEF QuietInv, PaymentsOf
    <2>3. dlv[d].order = payments[p].order
      BY <1>1, CalmFacts
      DEF QuietInv, VerdictInv, SafetyInv, InFlight, CallbackKnowsPayment
    <2> QED
      BY <1>1, <2>1, <2>2, <2>3 DEF QuiescentAgreement, StatusShown
  <1> QED
    BY <1>1, QuietInvariant, QuiescentStatesAgree, PTL

-----------------------------------------------------------------------------
(* The refinement. *)

\* An order without a payment is due to stay pending, and one with a payment
\* is due to show it exactly if it shows it or is about to.
LEMMA DueIfShown ==
    ASSUME CalmInv, NEW o \in DOMAIN orders
    PROVE  /\ PaymentsOf(o) = {} => StatusDue(o) = "pending"
           /\ \A p \in PaymentsOf(o) : Shown(p) <=> StatusDue(o) = StatusShown(p)
  <1> DEFINE advancing == {d \in DOMAIN dlv : dlv[d].pc = "advance" /\ dlv[d].order = o}
             marking   == {a \in DOMAIN att : att[a].pc = "mark" /\ att[a].order = o}
  <1>1. ASSUME NEW d \in advancing
        PROVE  /\ dlv[d].pay \in PaymentsOf(o)
               /\ \A p \in PaymentsOf(o) : /\ Shown(p)
                                           /\ StatusShown(p) = OrderStatusFor(dlv[d].status)
    <2>1. dlv[d].pay \in PaymentsOf(o) /\ Settled(dlv[d].pay)
          /\ payments[dlv[d].pay].status = dlv[d].status
      BY CalmAdvancing DEF PaymentsOf
    <2> QED
      BY <2>1, CalmFacts DEF OnePaymentPerOrder, PaymentsOf, StatusShown, Shown
  <1>2. ASSUME NEW a \in marking
        PROVE  /\ a \in PaymentsOf(o)
               /\ \A p \in PaymentsOf(o) : p = a
    <2>1. a \in DOMAIN payments
      BY CalmFacts DEF VerdictInv, SafetyInv, InFlight, RequestInserts, Exists
    <2> QED
      BY <2>1, CalmFacts DEF OnePaymentPerOrder, PaymentsOf
  <1>3. ASSUME advancing = {}, NEW p \in PaymentsOf(o)
        PROVE  Shown(p) <=> (IF marking # {} THEN "pending_payment" ELSE orders[o].status)
                                = StatusShown(p)
    <2>1. p \in DOMAIN payments /\ payments[p].order = o /\ att[p].order = o
          /\ att[p].pc \in {"mark", "done"} /\ p \in DOMAIN att
      BY CalmFacts DEF PaymentsOf
    <2>2. \A d \in DOMAIN dlv : dlv[d].pc = "advance" => dlv[d].pay # p
      BY <1>3, <2>1, CalmFacts DEF VerdictInv, SafetyInv, InFlight, CallbackKnowsPayment
    <2>3. marking # {} <=> att[p].pc = "mark"
      BY <1>2, <2>1
    <2>4. StatusShown(p) = "pending_payment" <=> ~Settled(p)
      BY DEF StatusShown, OrderStatusFor
    <2> HIDE DEF advancing, marking
    <2> QED
      BY <2>1, <2>2, <2>3, <2>4 DEF Shown
  <1>4. PaymentsOf(o) = {} => orders[o].status = "pending"
    BY CalmFacts DEF OrderStatusBacked
  <1>5. StatusDue(o) = IF advancing # {}
                       THEN OrderStatusFor(dlv[CHOOSE d \in advancing : TRUE].status)
                       ELSE IF marking # {} THEN "pending_payment" ELSE orders[o].status
    BY DEF StatusDue
  <1>6. advancing # {} => (CHOOSE d \in advancing : TRUE) \in advancing
    OBVIOUS
  <1> HIDE DEF advancing, marking
  <1> QED
    BY <1>1, <1>2, <1>3, <1>4, <1>5, <1>6

\* Order and payment are torn apart when the payment is not shown any more.
LEMMA TornIfNotShown ==
    CalmInv => \A o \in OrderId :
                  Torn(o) <=> Exists(o) /\ \E p \in PaymentsOf(o) : ~Shown(p)
  <1> SUFFICES ASSUME CalmInv, NEW o \in OrderId, Exists(o)
               PROVE  Torn(o) <=> \E p \in PaymentsOf(o) : ~Shown(p)
    BY DEF Torn
  <1>1. BookFacts /\ o \in DOMAIN orders
    BY CalmFacts, BookFactsHold DEF VerdictInv, Exists
  <1>2. CASE PaymentsOf(o) = {}
    BY <1>1, <1>2, DueIfShown DEF BookFacts, Torn
  <1>3. ASSUME NEW p \in PaymentsOf(o)
        PROVE  Torn(o) <=> ~Shown(p)
    <2>1. Shown(p) <=> StatusDue(o) = StatusShown(p)
      BY <1>1, <1>3, DueIfShown
    <2>2. /\ BookedState(o) = IF Settled(p) THEN payments[p].status ELSE "initiated"
          /\ payments[p].status \in PaymentStatus
      BY <1>1, <1>3, CalmFacts DEF BookFacts, PaymentsOf, PaymentsTypeOK, PaymentRow
    <2> QED
      BY <2>1, <2>2 DEF Torn, StatusShown, Settled, PaymentStatus
  <1>4. \A p, q \in PaymentsOf(o) : p = q
    BY CalmFacts DEF OnePaymentPerOrder, PaymentsOf
  <1> QED
    BY <1>2, <1>3, <1>4

LEMMA TornIfNotShownNext ==
    CalmInv' => (\A o \in OrderId :
                    Torn(o) <=> Exists(o) /\ \E p \in PaymentsOf(o) : ~Shown(p))'
  BY TornIfNotShown, PTL

LEMMA NobodyIsTorn == QuietInv => \A o \in OrderId : ~Torn(o)
  BY TornIfNotShown DEF QuietInv, AllShown, PaymentsOf

LEMMA NobodyIsTornNext == QuietInv' => (\A o \in OrderId : ~Torn(o))'
  BY NobodyIsTorn, PTL

\* Whatever fails, no step of one life of the process tears an order and its
\* payment apart without a 500 to the client or the provider whose request it
\* was, unless a callback has overtaken the request that made the payment
\* (service.go of both components, error paths; a consistent provider).
THEOREM SplitsAreReported == Spec => NoSilentSplit
  <1> DEFINE SplitInv == AgreementInv /\ (OutcomesStand => SpeaksAfterReply)
             Loud(o) == OutcomesStand /\ Torn(o)' /\ ~Torn(o) =>
                            epoch' # epoch \/ FailureReported(o) \/ Overtaken(o)
  <1>1. Init => SplitInv
    BY AgreementInit DEF Init, WebhookInit, SpeaksAfterReply
  <1>2. ASSUME SplitInv, [Next]_vars
        PROVE  SplitInv' /\ \A o \in OrderId : Loud(o)
    <2>1. AgreementInv'
      BY <1>2, AgreementStep
    <2>2. SafetyInv
      BY <1>2 DEF AgreementInv, VerdictInv
    <2>3. CASE Restart
      <3>1. epoch' = epoch + 1 /\ epoch \in Nat
        BY <2>2, <2>3 DEF Restart, SafetyInv, TypeInv, TypeOK
      <3>2. epoch' # epoch /\ ~OutcomesStand'
        BY <3>1 DEF OutcomesStand
      <3> QED
        BY <2>1, <3>2
    <2>4. CASE ~Restart
      <3>1. epoch' = epoch /\ (OutcomesStand' <=> OutcomesStand)
        BY <1>2, <2>4, EpochMoves DEF OutcomesStand
      <3>2. CASE ~OutcomesStand
        BY <2>1, <3>1, <3>2
      <3>3. CASE OutcomesStand
        <4>1. CalmInv
          BY <1>2, <3>3 DEF CalmInv
        <4>2. SpeaksAfterReply' /\ (KeepsShown \/ KeepsShownOrTells)
          BY <1>2, <2>4, <4>1, CalmStep
        <4>3. CalmInv'
          BY <2>1, <3>1, <3>3, <4>2 DEF CalmInv
        <4>4. ASSUME NEW o \in OrderId, ~Torn(o), Torn(o)', ~Overtaken(o)
              PROVE  FailureReported(o)
          <5>1. Exists(o)' /\ \E p \in PaymentsOf(o)' : ~Shown(p)'
            BY <4>3, <4>4, TornIfNotShownNext
          <5>2. PICK p \in DOMAIN payments' : payments'[p].order = o /\ ~Shown(p)'
            BY <5>1 DEF PaymentsOf
          <5>3. ASSUME p \in DOMAIN payments
                PROVE  Shown(p) /\ ~Late(p)
            <6>1. payments[p].order = o
              BY <1>2, <2>2, <5>2, <5>3, StepReopensNothing DEF NoStepReopens
            <6>2. p \in PaymentsOf(o) /\ Exists(o)
              BY <4>1, <5>3, <6>1, CalmFacts DEF PaymentsOf, Exists
            <6> QED
              BY <4>1, <4>4, <6>2, TornIfNotShown DEF Late, Overtaken
          <5> QED
            BY <4>2, <5>2, <5>3 DEF KeepsShown, KeepsShownOrTells
        <4> HIDE DEF OutcomesStand
        <4> QED
          BY <2>1, <3>1, <4>2, <4>4
      <3> QED
        BY <3>2, <3>3
    <2> QED
      BY <2>3, <2>4
  <1> QED
    BY <1>1, <1>2, PTL DEF Spec, NoSilentSplit

\* In a quiet environment the separate statements of Create and of
\* ApplyProviderCallback have the effect of transactions: each step of the
\* code is a step of the ledger or none (service.go of both components).
THEOREM LedgerImplemented == ASSUME QuietEnv PROVE Spec => ImplementsLedger
  <1>1. Init => QuietInv
    BY QuietInit
  <1>2. QuietInv => OutcomesStand
    BY DEF QuietInv, CalmInv
  <1>3. Init => Ledger!LedgerInit
    BY <1>1, BooksInit, NobodyIsTorn DEF Books!LedgerInit, Ledger!LedgerInit
  <1>4. QuietInv /\ [Next]_vars => [Ledger!LedgerNext]_(Ledger!ledgerVars)
    <2> SUFFICES ASSUME QuietInv, [Next]_vars
                 PROVE  [Ledger!LedgerNext]_(Ledger!ledgerVars)
      OBVIOUS
    <2>1. QuietInv' /\ AgreementInv /\ SafetyInv /\ SafetyInv'
      BY QuietStep DEF QuietInv, CalmInv, AgreementInv, VerdictInv
    <2>2. \A o \in OrderId : ~Torn(o) /\ ~Torn(o)'
      BY <2>1, NobodyIsTorn, NobodyIsTornNext
    <2>3. OutcomesStand /\ OutcomesStand'
      BY <2>1, <1>2 DEF QuietInv, CalmInv
    <2>4. [Books!LedgerNext]_(Books!ledgerVars)
      BY <2>1, BookFactsHold, BookFactsNext, BooksStep DEF Books!ledgerVars
    <2> QED
      BY <2>2, <2>3, <2>4
      DEF Books!LedgerNext, Books!Place, Books!Initiate, Books!Settle, Books!Overturn,
          Books!Remove, Books!Move, Books!Doubt, Books!ledgerVars,
          Ledger!LedgerNext, Ledger!Place, Ledger!Initiate, Ledger!Settle,
          Ledger!Overturn, Ledger!Remove, Ledger!Move, Ledger!Doubt, Ledger!ledgerVars
  <1> QED
    BY <1>1, <1>3, <1>4, QuietStep, PTL DEF Spec, ImplementsLedger, Ledger!LedgerSpec
=============================================================================
