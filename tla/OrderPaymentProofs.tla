------------------------- MODULE OrderPaymentProofs -------------------------
(***************************************************************************)
(* Theorems about OrderPayment, for every set of users, orders, requests   *)
(* and callbacks, every environment and any number of restarts.            *)
(***************************************************************************)
EXTENDS OrderPayment, TLAPS

-----------------------------------------------------------------------------
(* Lemmas about the operators. *)

\* A column value is within half a column unit of the decimal it was given:
\* the money a rounding gains or loses is bounded, for every scale.
THEOREM RoundingError ==
    ASSUME NEW n \in Nat
    PROVE  /\ ToColumn(n) \in Nat
           /\ 2 * (ToColumn(n) * Scale - n) <= Scale
           /\ 2 * (n - ToColumn(n) * Scale) <= Scale
  <1> DEFINE h == Scale \div 2
  <1>1. h \in Nat /\ 2 * h <= Scale /\ Scale <= 2 * h + 1
    BY NumericAssumption
  <1>2. /\ ToColumn(n) \in Nat
        /\ ToColumn(n) * Scale <= n + h
        /\ n + h < ToColumn(n) * Scale + Scale
    BY <1>1, NumericAssumption DEF ToColumn
  <1> QED
    BY <1>1, <1>2, NumericAssumption

-----------------------------------------------------------------------------
(* Type correctness. *)

\* A row needs a reference, so a request about to insert has one.
RefIssued == \A a \in DOMAIN att : att[a].pc = "insert" => att[a].ref # 0

TypeInv == TypeOK /\ RefIssued

\* One status is written to some orders; everything else of them stays.
LEMMA SetOrderStatusFacts ==
    ASSUME NEW os, NEW s, SetOrderStatus(os, s), OrdersTypeOK
    PROVE  /\ DOMAIN orders' = DOMAIN orders
           /\ \A o \in DOMAIN orders :
                 /\ orders'[o].user = orders[o].user
                 /\ orders'[o].quantity = orders[o].quantity
                 /\ orders'[o].price = orders[o].price
                 /\ orders'[o].status = IF o \in os THEN s ELSE orders[o].status
                 /\ s \in OrderStatus => orders'[o] \in OrderRow
  BY DEF SetOrderStatus, OrdersTypeOK, OrderRow

\* A request that ends keeps everything but its program counter and reply.
LEMMA ReplyFacts ==
    ASSUME NEW a \in DOMAIN att, NEW r, Reply(a, r), PaymentsTypeOK
    PROVE  /\ DOMAIN att' = DOMAIN att
           /\ \A x \in DOMAIN att : x # a => att'[x] = att[x]
           /\ att'[a].pc = "done" /\ att'[a].reply = r
           /\ att'[a].user = att[a].user /\ att'[a].order = att[a].order
           /\ att'[a].amount = att[a].amount /\ att'[a].ref = att[a].ref
           /\ r \in AttemptReply => att'[a] \in AttemptRecord
  BY DEF Reply, PaymentsTypeOK, AttemptRecord

\* So does a request that goes on to its last step.
LEMMA ToMarkFacts ==
    ASSUME NEW a \in DOMAIN att, att' = [att EXCEPT ![a].pc = "mark"],
           PaymentsTypeOK
    PROVE  /\ DOMAIN att' = DOMAIN att
           /\ \A x \in DOMAIN att : x # a => att'[x] = att[x]
           /\ att'[a].pc = "mark" /\ att'[a].reply = att[a].reply
           /\ att'[a].user = att[a].user /\ att'[a].order = att[a].order
           /\ att'[a].amount = att[a].amount /\ att'[a].ref = att[a].ref
           /\ att'[a] \in AttemptRecord
  BY DEF PaymentsTypeOK, AttemptRecord

\* A callback that ends keeps everything but its program counter and reply.
LEMMA RespondFacts ==
    ASSUME NEW d \in DOMAIN dlv, NEW r, Respond(d, r), WebhookTypeOK
    PROVE  /\ DOMAIN dlv' = DOMAIN dlv
           /\ \A x \in DOMAIN dlv : x # d => dlv'[x] = dlv[x]
           /\ dlv'[d].pc = "done" /\ dlv'[d].reply = r
           /\ dlv'[d].pay = dlv[d].pay /\ dlv'[d].order = dlv[d].order
           /\ dlv'[d].status = dlv[d].status
           /\ r \in CallbackReply => dlv'[d] \in CallbackRecord
  BY DEF Respond, WebhookTypeOK, CallbackRecord

\* So does every request and every callback that a restart ends.
LEMMA RestartFacts ==
    ASSUME Restart, PaymentsTypeOK, WebhookTypeOK
    PROVE  /\ DOMAIN att' = DOMAIN att
           /\ \A x \in DOMAIN att :
                 /\ att'[x].pc = "done"
                 /\ att'[x].reply =
                       IF att[x].pc = "done" THEN att[x].reply ELSE "NoReply"
                 /\ att'[x].user = att[x].user /\ att'[x].order = att[x].order
                 /\ att'[x].amount = att[x].amount /\ att'[x].ref = att[x].ref
                 /\ att'[x] \in AttemptRecord
           /\ DOMAIN dlv' = DOMAIN dlv
           /\ \A d \in DOMAIN dlv :
                 /\ dlv'[d].pc = "done"
                 /\ dlv'[d].pay = dlv[d].pay /\ dlv'[d].order = dlv[d].order
                 /\ dlv'[d] \in CallbackRecord
  <1>1. DOMAIN att' = DOMAIN att /\ DOMAIN dlv' = DOMAIN dlv
    BY DEF Restart, PaymentsRestart, WebhookRestart
  <1>2. ASSUME NEW x \in DOMAIN att
        PROVE  /\ att'[x].pc = "done"
               /\ att'[x].reply =
                     IF att[x].pc = "done" THEN att[x].reply ELSE "NoReply"
               /\ att'[x].user = att[x].user /\ att'[x].order = att[x].order
               /\ att'[x].amount = att[x].amount /\ att'[x].ref = att[x].ref
               /\ att'[x] \in AttemptRecord
    BY DEF Restart, PaymentsRestart, PaymentsTypeOK, AttemptRecord, AttemptReply
  <1>3. ASSUME NEW d \in DOMAIN dlv
        PROVE  /\ dlv'[d].pc = "done"
               /\ dlv'[d].pay = dlv[d].pay /\ dlv'[d].order = dlv[d].order
               /\ dlv'[d] \in CallbackRecord
    BY DEF Restart, WebhookRestart, WebhookTypeOK, CallbackRecord, CallbackReply
  <1> QED
    BY <1>1, <1>2, <1>3

LEMMA TypeInit == Init => TypeInv
  BY DEF Init, OrdersInit, PaymentsInit, WebhookInit, EmptyTable, TypeInv,
         TypeOK, OrdersTypeOK, PaymentsTypeOK, WebhookTypeOK, RefIssued

LEMMA TypeStep ==
    ASSUME TypeInv, [Next]_vars
    PROVE  TypeInv'
  <1> USE DEF TypeInv, TypeOK, RefIssued
  <1>1. ASSUME NEW u \in User, NEW o \in OrderId, NEW b \in Body,
               PostOrder(u, o, b)
        PROVE  TypeInv'
    <2>1. OrdersTypeOK'
      BY <1>1
      DEF InsertRow, PostOrder, CreateOrder, OrdersTypeOK, OrderRow, Storable, OrderStatus
    <2> QED
      BY <1>1, <2>1 DEF PostOrder, paymentVars, webhookVars, PaymentsTypeOK,
                        WebhookTypeOK
  <1>2. ASSUME NEW u \in User, NEW o \in OrderId, NEW b \in Body,
               PutOrder(u, o, b)
        PROVE  TypeInv'
    <2>1. OrdersTypeOK'
      BY <1>2 DEF PutOrder, UpdateOrder, Owns, OrdersTypeOK, OrderRow, Storable
    <2> QED
      BY <1>2, <2>1 DEF PutOrder, paymentVars, webhookVars, PaymentsTypeOK,
                        WebhookTypeOK
  <1>3. ASSUME NEW u \in User, NEW o \in OrderId, RemoveOrder(u, o)
        PROVE  TypeInv'
    <2>1. OrdersTypeOK'
      BY <1>3 DEF DeleteRows, Restrict, RemoveOrder, DeleteOrder, OrdersTypeOK
    <2>2. PaymentsTypeOK'
      BY <1>3 DEF DeleteRows, Restrict, RemoveOrder, CascadeDelete, PaymentsTypeOK
    <2> QED
      BY <1>3, <2>1, <2>2 DEF RemoveOrder, webhookVars, WebhookTypeOK
  <1>4. ASSUME NEW u \in User, NEW o \in OrderId, NEW a \in Attempt,
               BeginAttempt(a, u, o)
        PROVE  TypeInv'
    <2>1. ASSUME NEW r \in AttemptRecord, att' = InsertRow(att, a, r),
                 r.pc = "insert" => r.ref # 0
          PROVE  TypeInv'
      BY <1>4, <2>1
      DEF InsertRow, BeginAttempt, GetOrder, orderVars, webhookVars, PaymentsTypeOK,
          WebhookTypeOK, OrdersTypeOK
    <2> DEFINE amount == orders[o].quantity * orders[o].price
               rec(pc, n, r) == [pc |-> pc, user |-> u, order |-> o,
                                 amount |-> n, ref |-> 0, reply |-> r]
    <2>2. CASE \E r \in {"OrderNotFound", "OrderNotPayable", "InvalidAmount"} :
                  att' = InsertRow(att, a, rec("done", 0, r))
      BY <2>2, <2>1 DEF AttemptRecord, AttemptReply
    <2>3. CASE /\ Owns(u, o) /\ amount > 0
               /\ att' = InsertRow(att, a, rec("charge", amount, "none"))
      <3>1. amount \in Nat
        BY <2>3, NumericAssumption
        DEF Owns, OrdersTypeOK, OrderRow, PositiveColumn, NonNegativeColumn
      <3> QED
        BY <2>3, <2>1, <3>1 DEF AttemptRecord, AttemptReply
    <2> QED
      BY <1>4, <2>2, <2>3 DEF BeginAttempt, GetOrder
  <1>5. ASSUME NEW a \in Attempt, AttemptStep(a)
        PROVE  TypeInv'
    <2>1. WebhookTypeOK' /\ epoch' \in Nat
      BY <1>5 DEF AttemptStep, webhookVars, WebhookTypeOK
    <2>2. CASE Charge(a)
      BY <2>1, <2>2 DEF Charge, orderVars, PaymentsTypeOK, OrdersTypeOK,
                        AttemptRecord
    <2>3. ASSUME NEW answered \in Answers, InsertPayment(a, answered)
          PROVE  TypeInv'
      <3> USE DEF InsertPayment
      <3>1. OrdersTypeOK'
        BY <2>3 DEF orderVars, OrdersTypeOK
      <3>2. \/ att' = [att EXCEPT ![a].pc = "mark"]
            \/ \E r \in AttemptReply : Reply(a, r)
        BY <2>3 DEF InsertOutcome, AttemptReply
      <3>3. /\ DOMAIN att' = DOMAIN att
            /\ \A x \in DOMAIN att' : att'[x] \in AttemptRecord
            /\ RefIssued'
        BY <2>3, <3>2, ToMarkFacts, ReplyFacts DEF PaymentsTypeOK
      <3>4. CASE InsertOutcome(a) # "inserted"
        BY <2>1, <2>3, <3>1, <3>3, <3>4 DEF PaymentsTypeOK
      <3>5. CASE InsertOutcome(a) = "inserted"
        <4>1. NewPayment(a) \in PaymentRow
          BY <2>3, <3>5 DEF InsertOutcome, NewPayment, PaymentRow, PaymentStatus,
                            PaymentsTypeOK, AttemptRecord
        <4>2. payments' = InsertRow(payments, a, NewPayment(a))
          BY <2>3, <3>5
        <4> QED
          BY <2>1, <2>3, <3>1, <3>3, <4>1, <4>2 DEF InsertRow, PaymentsTypeOK
      <3> QED
        BY <3>4, <3>5
    <2>4. ASSUME NEW answered \in Answers, MarkOrder(a, answered)
          PROVE  TypeInv'
      <3>1. OrdersTypeOK'
        BY <2>4, SetOrderStatusFacts DEF MarkOrder, OrdersTypeOK, OrderStatus
      <3> QED
        BY <2>1, <2>4, <3>1, ReplyFacts DEF MarkOrder, PaymentsTypeOK, AttemptReply
    <2> QED
      BY <1>5, <2>2, <2>3, <2>4 DEF AttemptStep
  <1>6. ASSUME NEW a \in Attempt, NEW v \in Verdict, Decide(a, v)
        PROVE  TypeInv'
    BY <1>6 DEF Decide, ProviderDecides, orderVars, paymentVars, OrdersTypeOK,
                PaymentsTypeOK, WebhookTypeOK
  <1>7. ASSUME NEW d \in Slot, NEW m \in Callbacks, NEW p \in Attempt,
               Receive(d, m, p)
        PROVE  TypeInv'
    <2> DEFINE rec(pc, r) == [pc |-> pc, pay |-> p, order |-> payments[p].order,
                              status |-> m.status, reply |-> r]
    <2>1. \E pc \in {"done", "update"},
             r \in {"OK", "InvalidStatusTransition", "none"} :
                dlv' = InsertRow(dlv, d, rec(pc, r))
      BY <1>7 DEF Receive, ReceiveCallback
    <2>2. payments[p].order \in OrderId /\ m.status \in Verdict
      BY <1>7 DEF Receive, ReceiveCallback, RowsByReference, Acceptable,
                  PaymentsTypeOK, PaymentRow
    <2>3. WebhookTypeOK'
      <3>1. PICK pc \in {"done", "update"},
                 r \in {"OK", "InvalidStatusTransition", "none"} :
                    dlv' = InsertRow(dlv, d, rec(pc, r))
        BY <2>1
      <3>2. rec(pc, r) \in CallbackRecord
        BY <2>2 DEF CallbackRecord, CallbackReply
      <3> QED
        BY <1>7, <3>1, <3>2
        DEF InsertRow, Receive, ReceiveCallback, WebhookTypeOK
    <2> QED
      BY <1>7, <2>3 DEF Receive, ReceiveCallback, orderVars, paymentVars,
                        OrdersTypeOK, PaymentsTypeOK
  <1>8. ASSUME NEW d \in Slot, CallbackStep(d)
        PROVE  TypeInv'
    <2>1. ASSUME NEW answered \in Answers, UpdatePayment(d, answered)
          PROVE  TypeInv'
      BY <1>8, <2>1
      DEF CallbackStep, UpdatePayment, Respond, orderVars, OrdersTypeOK,
          PaymentsTypeOK, PaymentRow, PaymentStatus, Verdict, WebhookTypeOK,
          CallbackRecord, CallbackReply
    <2>2. ASSUME NEW answered \in Answers, AdvanceOrder(d, answered)
          PROVE  TypeInv'
      <3>1. OrdersTypeOK'
        BY <2>2, SetOrderStatusFacts
        DEF AdvanceOrder, OrderStatusFor, OrdersTypeOK, OrderStatus
      <3> QED
        BY <1>8, <2>2, <3>1, RespondFacts
        DEF CallbackStep, AdvanceOrder, paymentVars, PaymentsTypeOK,
            WebhookTypeOK, CallbackReply
    <2> QED
      BY <1>8, <2>1, <2>2 DEF CallbackStep
  <1>9. CASE Fail
    <2>1. ASSUME NEW a \in Attempt, AttemptFails(a), UNCHANGED webhookVars
          PROVE  TypeInv'
      BY <1>9, <2>1, ReplyFacts
      DEF Fail, AttemptFails, orderVars, webhookVars, OrdersTypeOK, PaymentsTypeOK,
          AttemptReply, WebhookTypeOK
    <2>2. ASSUME NEW d \in Slot, CallbackFails(d)
          PROVE  TypeInv'
      BY <1>9, <2>2, RespondFacts
      DEF Fail, CallbackFails, orderVars, paymentVars, OrdersTypeOK, PaymentsTypeOK,
          CallbackReply, WebhookTypeOK
    <2> QED
      BY <1>9, <2>1, <2>2 DEF Fail
  <1>10. CASE Restart
    <2>1. UNCHANGED <<orders, drawn, payments, sent>> /\ counter' = 0
          /\ epoch' = epoch + 1
      BY <1>10 DEF Restart, PaymentsRestart, WebhookRestart, orderVars
    <2>2. OrdersTypeOK' /\ epoch' \in Nat
      BY <2>1 DEF OrdersTypeOK
    <2>3. PaymentsTypeOK' /\ WebhookTypeOK' /\ RefIssued'
      BY <1>10, <2>1, RestartFacts DEF PaymentsTypeOK, WebhookTypeOK
    <2> QED
      BY <2>2, <2>3
  <1>11. CASE UNCHANGED vars
    BY <1>11 DEF vars, OrdersTypeOK, PaymentsTypeOK, WebhookTypeOK
  <1> QED
    BY <1>1, <1>2, <1>3, <1>4, <1>5, <1>6, <1>7, <1>8, <1>9, <1>10, <1>11
    DEF Next, Wait

\* Every variable keeps its type: in particular every amount and price stays
\* within its column, and every reference is one the gateway issued.
THEOREM TypeCorrect == Spec => []TypeOK
  <1>1. TypeInv /\ [Next]_vars => TypeInv'
    BY TypeStep
  <1>2. TypeInv => TypeOK
    BY DEF TypeInv
  <1> QED
    BY TypeInit, <1>1, <1>2, PTL DEF Spec

-----------------------------------------------------------------------------
(* The safety of orders and payments in every environment.  The properties *)
(* are not inductive: they rest on what a request in flight knows.         *)

\* A request in flight has said nothing, and its order either is still its
\* user's or has been removed for good.
RequestOwnsOrder ==
    \A a \in DOMAIN att :
        att[a].pc # "done" =>
            /\ att[a].reply = "none"
            /\ att[a].order \in drawn
            /\ Exists(att[a].order) => Owns(att[a].user, att[a].order)

\* Its payment is there exactly from the insert on, unless it was removed.
RequestInserts ==
    \A a \in DOMAIN att :
        /\ att[a].pc \in {"charge", "insert"} => a \notin DOMAIN payments
        /\ att[a].pc = "mark" => a \in DOMAIN payments \/ ~Exists(att[a].order)

\* A reply about an order's payments is about an order that was placed.
ReplyKnowsOrder ==
    \A a \in DOMAIN att :
        att[a].reply \in {"Created", "DuplicatePayment", "OrderNotPayable"} =>
            att[a].order \in drawn

\* A callback works on the order of the payment it found, and gets to the
\* order only after the payment has its outcome.
CallbackKnowsPayment ==
    \A d \in DOMAIN dlv :
        /\ dlv[d].order \in drawn
        /\ dlv[d].pay \in DOMAIN att
        /\ dlv[d].order = att[dlv[d].pay].order
        /\ dlv[d].pc = "advance" =>
              \/ ~Exists(dlv[d].order)
              \/ dlv[d].pay \in DOMAIN payments /\ Settled(dlv[d].pay)

InFlight == /\ RequestOwnsOrder
            /\ RequestInserts
            /\ ReplyKnowsOrder
            /\ CallbackKnowsPayment

\* A payment has the reference and the amount of its request's charge.
RecordedAmountIsCharged ==
    \A p \in DOMAIN payments : /\ payments[p].ref = att[p].ref
                               /\ payments[p].amount = ToColumn(att[p].amount)

Promises == /\ OnePaymentPerOrder
            /\ PaymentHasOwnersOrder
            /\ OrderStatusBacked
            /\ RecordedAmountIsCharged
            /\ TruthfulAttemptReplies

SafetyInv == TypeInv /\ InFlight /\ Promises

LEMMA SafetyInit == Init => SafetyInv
  BY TypeInit
  DEF Init, OrdersInit, PaymentsInit, WebhookInit, EmptyTable, SafetyInv,
      InFlight, RequestOwnsOrder, RequestInserts, ReplyKnowsOrder,
      CallbackKnowsPayment, Promises, OnePaymentPerOrder, PaymentHasOwnersOrder,
      OrderStatusBacked, RecordedAmountIsCharged, TruthfulAttemptReplies

\* A new order has an id no request, payment or callback knows.
LEMMA PostOrderSafe ==
    ASSUME SafetyInv, NEW u \in User, NEW o \in OrderId, NEW b \in Body,
           PostOrder(u, o, b)
    PROVE  (InFlight /\ Promises)'
  <1> USE DEF SafetyInv, Exists, Owns, PaymentsOf, Settled
  <1>1. /\ o \notin drawn /\ drawn' = drawn \cup {o}
        /\ DOMAIN orders' = DOMAIN orders \cup {o}
        /\ orders'[o].status = "pending"
        /\ \A x \in DOMAIN orders : orders'[x] = orders[x]
        /\ UNCHANGED <<payments, att, dlv>>
        /\ DOMAIN orders \subseteq drawn
    BY DEF PostOrder, CreateOrder, InsertRow, paymentVars, webhookVars, TypeInv,
           TypeOK, OrdersTypeOK
  <1>2. RequestOwnsOrder' /\ RequestInserts' /\ ReplyKnowsOrder'
    BY <1>1 DEF InFlight, RequestOwnsOrder, RequestInserts, ReplyKnowsOrder
  <1>3. CallbackKnowsPayment'
    BY <1>1 DEF InFlight, CallbackKnowsPayment
  <1>4. OnePaymentPerOrder' /\ PaymentHasOwnersOrder' /\ RecordedAmountIsCharged'
    BY <1>1 DEF Promises, OnePaymentPerOrder, PaymentHasOwnersOrder,
                RecordedAmountIsCharged
  <1>5. OrderStatusBacked'
    BY <1>1 DEF Promises, OrderStatusBacked
  <1>6. TruthfulAttemptReplies'
    BY <1>1 DEF InFlight, ReplyKnowsOrder, Promises, TruthfulAttemptReplies
  <1> QED
    BY <1>2, <1>3, <1>4, <1>5, <1>6 DEF InFlight, Promises

\* PUT touches no status and no owner.
LEMMA PutOrderSafe ==
    ASSUME SafetyInv, NEW u \in User, NEW o \in OrderId, NEW b \in Body,
           PutOrder(u, o, b)
    PROVE  (InFlight /\ Promises)'
  <1> USE DEF SafetyInv, Exists, Owns, PaymentsOf, Settled
  <1>1. /\ DOMAIN orders' = DOMAIN orders
        /\ \A x \in DOMAIN orders : /\ orders'[x].user = orders[x].user
                                    /\ orders'[x].status = orders[x].status
        /\ UNCHANGED <<drawn, payments, att, dlv>>
    BY DEF PutOrder, UpdateOrder, paymentVars, webhookVars, TypeInv, TypeOK,
           OrdersTypeOK, OrderRow
  <1>2. InFlight'
    BY <1>1 DEF InFlight, RequestOwnsOrder, RequestInserts, ReplyKnowsOrder,
                CallbackKnowsPayment
  <1>3. Promises'
    BY <1>1 DEF Promises, OnePaymentPerOrder, PaymentHasOwnersOrder,
                OrderStatusBacked, RecordedAmountIsCharged, TruthfulAttemptReplies
  <1> QED
    BY <1>2, <1>3

\* DELETE takes the payment along, and the id is never drawn again.
LEMMA RemoveOrderSafe ==
    ASSUME SafetyInv, NEW u \in User, NEW o \in OrderId, RemoveOrder(u, o)
    PROVE  (InFlight /\ Promises)'
  <1> USE DEF SafetyInv, Exists, Owns, PaymentsOf, Settled
  <1>1. /\ DOMAIN orders' = DOMAIN orders \ {o}
        /\ \A x \in DOMAIN orders \ {o} : orders'[x] = orders[x]
        /\ DOMAIN payments' = DOMAIN payments \ PaymentsOf(o)
        /\ \A p \in DOMAIN payments' : payments'[p] = payments[p]
        /\ UNCHANGED <<drawn, att, dlv>>
    BY DEF RemoveOrder, DeleteOrder, CascadeDelete, DeleteRows, Restrict,
           webhookVars
  <1>2. PaymentHasOwnersOrder /\ RequestInserts
    BY DEF Promises, InFlight
  <1>3. RequestOwnsOrder' /\ ReplyKnowsOrder'
    BY <1>1 DEF InFlight, RequestOwnsOrder, ReplyKnowsOrder
  <1>4. RequestInserts'
    BY <1>1, <1>2 DEF RequestInserts, PaymentHasOwnersOrder
  <1>5. CallbackKnowsPayment'
    BY <1>1, <1>2 DEF InFlight, CallbackKnowsPayment, PaymentHasOwnersOrder
  <1>6. OnePaymentPerOrder' /\ PaymentHasOwnersOrder' /\ RecordedAmountIsCharged'
    BY <1>1 DEF Promises, OnePaymentPerOrder, PaymentHasOwnersOrder,
                RecordedAmountIsCharged
  <1>7. OrderStatusBacked'
    BY <1>1 DEF Promises, OrderStatusBacked
  <1>8. TruthfulAttemptReplies'
    BY <1>1, <1>2 DEF Promises, TruthfulAttemptReplies, PaymentHasOwnersOrder
  <1> QED
    BY <1>3, <1>4, <1>5, <1>6, <1>7, <1>8 DEF InFlight, Promises

\* A request reads an order: what it is told about the order's payments is
\* true, and what it remembers of the order is.
LEMMA BeginAttemptSafe ==
    ASSUME SafetyInv, NEW u \in User, NEW o \in OrderId, NEW a \in Attempt,
           BeginAttempt(a, u, o)
    PROVE  (InFlight /\ Promises)'
  <1> USE DEF SafetyInv, Exists, Owns, PaymentsOf, Settled
  <1>1. /\ a \notin DOMAIN att /\ DOMAIN att' = DOMAIN att \cup {a}
        /\ \A x \in DOMAIN att : att'[x] = att[x]
        /\ att'[a].user = u /\ att'[a].order = o
        /\ UNCHANGED <<orders, drawn, payments, dlv>>
    BY DEF BeginAttempt, GetOrder, InsertRow, orderVars, webhookVars
  <1>2. \/ att'[a].pc = "done" /\ att'[a].reply \in {"OrderNotFound", "InvalidAmount"}
        \/ /\ att'[a].pc = "done" /\ att'[a].reply = "OrderNotPayable"
           /\ Owns(u, o) /\ orders[o].status # "pending"
        \/ /\ att'[a].pc = "charge" /\ att'[a].reply = "none"
           /\ Owns(u, o)
    BY DEF BeginAttempt, GetOrder, InsertRow
  <1>3. /\ a \notin DOMAIN payments /\ DOMAIN payments \subseteq DOMAIN att
        /\ DOMAIN orders \subseteq drawn
    BY <1>1 DEF TypeInv, TypeOK, OrdersTypeOK, PaymentsTypeOK
  <1>4. RequestOwnsOrder' /\ RequestInserts' /\ ReplyKnowsOrder'
    BY <1>1, <1>2, <1>3 DEF InFlight, RequestOwnsOrder, RequestInserts,
                            ReplyKnowsOrder
  <1>5. CallbackKnowsPayment'
    BY <1>1 DEF InFlight, CallbackKnowsPayment
  <1>6. OnePaymentPerOrder' /\ OrderStatusBacked'
    BY <1>1 DEF Promises, OnePaymentPerOrder, OrderStatusBacked
  <1>7. PaymentHasOwnersOrder' /\ RecordedAmountIsCharged'
    BY <1>1, <1>3 DEF Promises, PaymentHasOwnersOrder, RecordedAmountIsCharged
  <1>8. TruthfulAttemptReplies'
    BY <1>1, <1>2, <1>3 DEF Promises, OrderStatusBacked, TruthfulAttemptReplies
  <1> QED
    BY <1>4, <1>5, <1>6, <1>7, <1>8 DEF InFlight, Promises

\* The charge writes a reference into a request that has no payment yet.
LEMMA ChargeSafe ==
    ASSUME SafetyInv, NEW a \in Attempt, Charge(a), AttemptStep(a)
    PROVE  (InFlight /\ Promises)'
  <1> USE DEF SafetyInv, Exists, Owns, PaymentsOf, Settled
  <1>1. /\ a \in DOMAIN att /\ att[a].pc = "charge"
        /\ DOMAIN att' = DOMAIN att
        /\ \A x \in DOMAIN att : x # a => att'[x] = att[x]
        /\ att'[a].pc = "insert" /\ att'[a].reply = att[a].reply
        /\ att'[a].user = att[a].user /\ att'[a].order = att[a].order
        /\ UNCHANGED <<orders, drawn, payments, dlv>>
    BY DEF Charge, AttemptStep, orderVars, webhookVars, TypeInv, TypeOK,
           PaymentsTypeOK, AttemptRecord
  <1>2. a \notin DOMAIN payments
    BY <1>1 DEF InFlight, RequestInserts
  <1>3. InFlight'
    BY <1>1 DEF InFlight, RequestOwnsOrder, RequestInserts, ReplyKnowsOrder,
                CallbackKnowsPayment
  <1>4. OnePaymentPerOrder' /\ OrderStatusBacked'
    BY <1>1 DEF Promises, OnePaymentPerOrder, OrderStatusBacked
  <1>5. PaymentHasOwnersOrder' /\ RecordedAmountIsCharged'
    BY <1>1, <1>2 DEF Promises, PaymentHasOwnersOrder, RecordedAmountIsCharged,
                      TypeInv, TypeOK, PaymentsTypeOK
  <1>6. TruthfulAttemptReplies'
    BY <1>1 DEF Promises, TruthfulAttemptReplies
  <1> QED
    BY <1>3, <1>4, <1>5, <1>6 DEF Promises

\* A request that ends with an error leaves everything as it is; if it says
\* that the order has a payment, it has one.
LEMMA RefusalSafe ==
    ASSUME SafetyInv, NEW a \in DOMAIN att, NEW r, att[a].pc # "done",
           Reply(a, r), r # "Created",
           UNCHANGED <<orders, drawn, payments, dlv>>,
           r \in {"DuplicatePayment", "OrderNotPayable", "InvalidAmount",
                  "OrderNotFound"} => a \notin DOMAIN payments,
           r \in {"DuplicatePayment", "OrderNotPayable"} =>
              PaymentsOf(att[a].order) # {}
    PROVE  (InFlight /\ Promises)'
  <1> USE DEF SafetyInv, Exists, Owns, PaymentsOf, Settled
  <1>1. /\ DOMAIN att' = DOMAIN att
        /\ \A x \in DOMAIN att : x # a => att'[x] = att[x]
        /\ att'[a].pc = "done" /\ att'[a].reply = r
        /\ att'[a].user = att[a].user /\ att'[a].order = att[a].order
        /\ att'[a].amount = att[a].amount /\ att'[a].ref = att[a].ref
    BY ReplyFacts DEF TypeInv, TypeOK
  <1>2. att[a].order \in drawn
    BY DEF InFlight, RequestOwnsOrder
  <1>3. InFlight'
    BY <1>1, <1>2 DEF InFlight, RequestOwnsOrder, RequestInserts, ReplyKnowsOrder,
                      CallbackKnowsPayment
  <1>4. OnePaymentPerOrder' /\ OrderStatusBacked'
    BY <1>1 DEF Promises, OnePaymentPerOrder, OrderStatusBacked
  <1>5. PaymentHasOwnersOrder' /\ RecordedAmountIsCharged'
    BY <1>1 DEF Promises, PaymentHasOwnersOrder, RecordedAmountIsCharged,
                TypeInv, TypeOK, PaymentsTypeOK
  <1>6. TruthfulAttemptReplies'
    BY <1>1 DEF Promises, TruthfulAttemptReplies
  <1> QED
    BY <1>3, <1>4, <1>5, <1>6 DEF Promises

\* The insert: UNIQUE keeps the payment the only one of its order, the
\* foreign key finds the order, which then is still the request's user's.
LEMMA InsertPaymentSafe ==
    ASSUME SafetyInv, NEW a \in Attempt, NEW answered \in Answers,
           InsertPayment(a, answered), UNCHANGED <<webhookVars, epoch>>
    PROVE  (InFlight /\ Promises)'
  <1> USE DEF SafetyInv, Exists, Owns, PaymentsOf, Settled
  <1>1. /\ a \in DOMAIN att /\ att[a].pc = "insert"
        /\ UNCHANGED <<orders, drawn, dlv>>
    BY DEF InsertPayment, orderVars, webhookVars
  <1>2. a \notin DOMAIN payments
    BY <1>1 DEF InFlight, RequestInserts
  <1>3. CASE InsertOutcome(a) # "inserted"
    <2>1. /\ UNCHANGED payments
          /\ Reply(a, InsertOutcome(a))
          /\ InsertOutcome(a) \in {"InternalError", "DuplicatePayment"}
          /\ InsertOutcome(a) = "DuplicatePayment" => PaymentsOf(att[a].order) # {}
      BY <1>3 DEF InsertPayment, InsertOutcome
    <2> QED
      BY <1>1, <1>2, <2>1, RefusalSafe
  <1>4. CASE InsertOutcome(a) = "inserted"
    <2>1. /\ Exists(att[a].order)
          /\ DOMAIN payments \subseteq DOMAIN att
          /\ \A p \in DOMAIN payments : payments[p].order # att[a].order
      BY <1>4 DEF InsertOutcome, TypeInv, TypeOK, PaymentsTypeOK
    <2>2. /\ DOMAIN payments' = DOMAIN payments \cup {a}
          /\ \A p \in DOMAIN payments : payments'[p] = payments[p]
          /\ payments'[a].order = att[a].order
          /\ payments'[a].ref = att[a].ref
          /\ payments'[a].amount = ToColumn(att[a].amount)
      BY <1>2, <1>4 DEF InsertPayment, InsertRow, NewPayment
    <2>3. /\ DOMAIN att' = DOMAIN att
          /\ \A x \in DOMAIN att : x # a => att'[x] = att[x]
          /\ \/ att'[a].pc = "mark" /\ att'[a].reply = att[a].reply
             \/ att'[a].pc = "done" /\ att'[a].reply = "InternalError"
          /\ att'[a].user = att[a].user /\ att'[a].order = att[a].order
          /\ att'[a].amount = att[a].amount /\ att'[a].ref = att[a].ref
      BY <1>1, <1>4, ReplyFacts, ToMarkFacts DEF InsertPayment, TypeInv, TypeOK
    <2>4. InFlight'
      BY <1>1, <2>2, <2>3 DEF InFlight, RequestOwnsOrder, RequestInserts,
                              ReplyKnowsOrder, CallbackKnowsPayment
    <2>5. OnePaymentPerOrder'
      BY <2>1, <2>2 DEF Promises, OnePaymentPerOrder
    <2>6. PaymentHasOwnersOrder'
      BY <1>1, <2>1, <2>2, <2>3
      DEF Promises, PaymentHasOwnersOrder, InFlight, RequestOwnsOrder
    <2>7. OrderStatusBacked'
      BY <1>1, <2>2 DEF Promises, OrderStatusBacked
    <2>8. RecordedAmountIsCharged'
      BY <1>1, <2>1, <2>2, <2>3 DEF Promises, RecordedAmountIsCharged
    <2>9. TruthfulAttemptReplies'
      <3>1. att[a].reply = "none"
        BY <1>1 DEF InFlight, RequestOwnsOrder
      <3> QED
        BY <1>1, <2>2, <2>3, <3>1 DEF Promises, TruthfulAttemptReplies
    <2> QED
      BY <2>4, <2>5, <2>6, <2>7, <2>8, <2>9 DEF Promises
  <1> QED
    BY <1>3, <1>4

\* A status is written to one order that has a payment, with an outcome if
\* the status is one: orders stay backed.
LEMMA StatusBacked ==
    ASSUME OrdersTypeOK, OrderStatusBacked, NEW os, NEW s,
           SetOrderStatus(os, s), UNCHANGED payments,
           \A o \in os \cap DOMAIN orders : \E p \in PaymentsOf(o) :
              s \in {"paid", "payment_failed"} => Settled(p)
    PROVE  OrderStatusBacked'
  BY SetOrderStatusFacts DEF OrderStatusBacked, PaymentsOf, Settled

\* The order is marked: the request's payment stands behind the mark, and
\* behind the 201.
LEMMA MarkOrderSafe ==
    ASSUME SafetyInv, NEW a \in Attempt, NEW answered \in Answers,
           MarkOrder(a, answered), UNCHANGED <<webhookVars, epoch>>
    PROVE  (InFlight /\ Promises)'
  <1> USE DEF SafetyInv, Exists, Owns, PaymentsOf, Settled
  <1> DEFINE hit == {o \in {att[a].order} : Owns(att[a].user, o)}
             r   == IF hit # {} /\ answered THEN "Created" ELSE "InternalError"
  <1>1. /\ a \in DOMAIN att /\ att[a].pc = "mark"
        /\ SetOrderStatus(hit, "pending_payment")
        /\ Reply(a, r)
        /\ UNCHANGED <<drawn, payments, dlv>>
    BY DEF MarkOrder, webhookVars
  <1>2. TypeOK /\ OrdersTypeOK /\ PaymentsTypeOK
    BY DEF TypeInv, TypeOK
  <1>3. /\ DOMAIN orders' = DOMAIN orders
        /\ \A o \in DOMAIN orders : orders'[o].user = orders[o].user
    BY <1>1, <1>2, SetOrderStatusFacts
  <1>4. /\ DOMAIN att' = DOMAIN att
        /\ \A x \in DOMAIN att : x # a => att'[x] = att[x]
        /\ att'[a].pc = "done" /\ att'[a].reply = r
        /\ att'[a].user = att[a].user /\ att'[a].order = att[a].order
        /\ att'[a].amount = att[a].amount /\ att'[a].ref = att[a].ref
    BY <1>1, <1>2, ReplyFacts
  <1>5. /\ att[a].order \in drawn
        /\ a \in DOMAIN payments \/ ~Exists(att[a].order)
        /\ a \in DOMAIN payments => payments[a].order = att[a].order
    BY <1>1 DEF InFlight, RequestOwnsOrder, RequestInserts, Promises,
                PaymentHasOwnersOrder
  <1>6. hit # {} => a \in DOMAIN payments
    BY <1>5
  <1>7. RequestOwnsOrder' /\ RequestInserts' /\ ReplyKnowsOrder'
    BY <1>1, <1>3, <1>4, <1>5 DEF InFlight, RequestOwnsOrder, RequestInserts,
                                  ReplyKnowsOrder
  <1>8. CallbackKnowsPayment'
    BY <1>1, <1>3, <1>4 DEF InFlight, CallbackKnowsPayment
  <1>9. OnePaymentPerOrder' /\ PaymentHasOwnersOrder' /\ RecordedAmountIsCharged'
    BY <1>1, <1>2, <1>3, <1>4
    DEF Promises, OnePaymentPerOrder, PaymentHasOwnersOrder,
        RecordedAmountIsCharged, PaymentsTypeOK
  <1>10. OrderStatusBacked'
    <2>1. \A o \in hit : a \in PaymentsOf(o)
      BY <1>5
    <2> QED
      BY <1>1, <1>2, <2>1, StatusBacked DEF Promises
  <1>11. TruthfulAttemptReplies'
    BY <1>1, <1>3, <1>4, <1>6 DEF Promises, TruthfulAttemptReplies
  <1> QED
    BY <1>7, <1>8, <1>9, <1>10, <1>11 DEF InFlight, Promises

\* A callback only reads: it remembers the order of the payment it found.
LEMMA ReceiveSafe ==
    ASSUME SafetyInv, NEW d \in Slot, NEW m \in Callbacks, NEW p \in Attempt,
           Receive(d, m, p)
    PROVE  (InFlight /\ Promises)'
  <1> USE DEF SafetyInv, Exists, Owns, PaymentsOf, Settled
  <1>1. UNCHANGED <<orders, drawn, payments, att>>
    BY DEF Receive, ReceiveCallback, orderVars, paymentVars
  <1>2. /\ DOMAIN dlv' = DOMAIN dlv \cup {d}
        /\ \A x \in DOMAIN dlv : x # d => dlv'[x] = dlv[x]
        /\ dlv'[d].pc \in {"done", "update"}
        /\ dlv'[d].pay = p /\ dlv'[d].order = payments[p].order
    BY DEF Receive, ReceiveCallback, InsertRow
  <1>3. /\ p \in DOMAIN payments /\ p \in DOMAIN att
        /\ payments[p].order = att[p].order
        /\ payments[p].order \in drawn
    BY DEF Receive, ReceiveCallback, RowsByReference, TypeInv, TypeOK,
           OrdersTypeOK, PaymentsTypeOK, Promises, PaymentHasOwnersOrder
  <1>4. CallbackKnowsPayment'
    BY <1>1, <1>2, <1>3 DEF InFlight, CallbackKnowsPayment
  <1>5. RequestOwnsOrder' /\ RequestInserts' /\ ReplyKnowsOrder'
    BY <1>1 DEF InFlight, RequestOwnsOrder, RequestInserts, ReplyKnowsOrder
  <1>6. Promises'
    BY <1>1 DEF Promises, OnePaymentPerOrder, PaymentHasOwnersOrder,
                OrderStatusBacked, RecordedAmountIsCharged, TruthfulAttemptReplies
  <1> QED
    BY <1>4, <1>5, <1>6 DEF InFlight

\* A callback that ends leaves everything else as it is.
LEMMA CallbackEndSafe ==
    ASSUME SafetyInv, NEW d \in DOMAIN dlv, NEW r, Respond(d, r),
           UNCHANGED <<orders, drawn, payments, att>>
    PROVE  (InFlight /\ Promises)'
  <1> USE DEF SafetyInv, Exists, Owns, PaymentsOf, Settled
  <1>1. /\ DOMAIN dlv' = DOMAIN dlv
        /\ \A x \in DOMAIN dlv : x # d => dlv'[x] = dlv[x]
        /\ dlv'[d].pc = "done"
        /\ dlv'[d].pay = dlv[d].pay /\ dlv'[d].order = dlv[d].order
    BY RespondFacts DEF TypeInv, TypeOK
  <1>2. InFlight'
    BY <1>1 DEF InFlight, RequestOwnsOrder, RequestInserts, ReplyKnowsOrder,
                CallbackKnowsPayment
  <1>3. Promises'
    BY DEF Promises, OnePaymentPerOrder, PaymentHasOwnersOrder,
           OrderStatusBacked, RecordedAmountIsCharged, TruthfulAttemptReplies
  <1> QED
    BY <1>2, <1>3

\* The outcome is written: a payment that had one still has one.
LEMMA UpdatePaymentSafe ==
    ASSUME SafetyInv, NEW d \in Slot, NEW answered \in Answers,
           UpdatePayment(d, answered)
    PROVE  (InFlight /\ Promises)'
  <1> USE DEF SafetyInv, Exists, Owns, PaymentsOf, Settled
  <1> DEFINE p == dlv[d].pay
  <1>1. /\ d \in DOMAIN dlv /\ dlv[d].pc = "update"
        /\ UNCHANGED <<orders, drawn, att>>
        /\ WebhookTypeOK /\ dlv[d] \in CallbackRecord
    BY DEF UpdatePayment, orderVars, TypeInv, TypeOK, WebhookTypeOK
  <1>2. CASE p \notin DOMAIN payments
    BY <1>1, <1>2, CallbackEndSafe DEF UpdatePayment
  <1>3. CASE p \in DOMAIN payments
    <2>1. /\ DOMAIN payments' = DOMAIN payments
          /\ \A q \in DOMAIN payments :
                /\ q # p => payments'[q] = payments[q]
                /\ payments'[q].order = payments[q].order
                /\ payments'[q].ref = payments[q].ref
                /\ payments'[q].amount = payments[q].amount
          /\ payments'[p].status # "pending"
      BY <1>1, <1>3 DEF UpdatePayment, TypeInv, TypeOK, PaymentsTypeOK,
                        PaymentRow, CallbackRecord, Verdict
    <2>2. /\ DOMAIN dlv' = DOMAIN dlv
          /\ \A x \in DOMAIN dlv : x # d => dlv'[x] = dlv[x]
          /\ dlv'[d].pc \in {"advance", "done"}
          /\ dlv'[d].pay = p /\ dlv'[d].order = dlv[d].order
      BY <1>1, <1>3, RespondFacts DEF UpdatePayment, CallbackRecord
    <2>3. CallbackKnowsPayment'
      BY <1>1, <1>3, <2>1, <2>2 DEF InFlight, CallbackKnowsPayment
    <2>4. RequestOwnsOrder' /\ RequestInserts' /\ ReplyKnowsOrder'
      BY <1>1, <2>1 DEF InFlight, RequestOwnsOrder, RequestInserts, ReplyKnowsOrder
    <2>5. /\ OnePaymentPerOrder' /\ PaymentHasOwnersOrder'
          /\ RecordedAmountIsCharged' /\ TruthfulAttemptReplies'
      BY <1>1, <2>1 DEF Promises, OnePaymentPerOrder, PaymentHasOwnersOrder,
                        RecordedAmountIsCharged, TruthfulAttemptReplies
    <2>6. OrderStatusBacked'
      BY <1>1, <2>1 DEF Promises, OrderStatusBacked
    <2> QED
      BY <2>3, <2>4, <2>5, <2>6 DEF InFlight, Promises
  <1> QED
    BY <1>2, <1>3

\* The outcome is written to the order of a payment that has one.
LEMMA AdvanceOrderSafe ==
    ASSUME SafetyInv, NEW d \in Slot, NEW answered \in Answers,
           AdvanceOrder(d, answered)
    PROVE  (InFlight /\ Promises)'
  <1> USE DEF SafetyInv, Exists, Owns, PaymentsOf, Settled
  <1> DEFINE hit == {dlv[d].order} \cap DOMAIN orders
             s   == OrderStatusFor(dlv[d].status)
  <1>1. /\ d \in DOMAIN dlv /\ dlv[d].pc = "advance"
        /\ SetOrderStatus(hit, s)
        /\ \E r \in CallbackReply : Respond(d, r)
        /\ UNCHANGED <<drawn, payments, att>>
    BY DEF AdvanceOrder, paymentVars, CallbackReply
  <1>2. OrdersTypeOK /\ WebhookTypeOK
    BY DEF TypeInv, TypeOK
  <1>3. /\ DOMAIN orders' = DOMAIN orders
        /\ \A o \in DOMAIN orders : orders'[o].user = orders[o].user
    BY <1>1, <1>2, SetOrderStatusFacts
  <1>4. /\ DOMAIN dlv' = DOMAIN dlv
        /\ \A x \in DOMAIN dlv : x # d => dlv'[x] = dlv[x]
        /\ dlv'[d].pc = "done"
        /\ dlv'[d].pay = dlv[d].pay /\ dlv'[d].order = dlv[d].order
    BY <1>1, <1>2, RespondFacts
  <1>5. InFlight'
    BY <1>1, <1>3, <1>4 DEF InFlight, RequestOwnsOrder, RequestInserts,
                            ReplyKnowsOrder, CallbackKnowsPayment
  <1>6. OnePaymentPerOrder' /\ PaymentHasOwnersOrder' /\ RecordedAmountIsCharged'
    BY <1>1, <1>3 DEF Promises, OnePaymentPerOrder, PaymentHasOwnersOrder,
                      RecordedAmountIsCharged
  <1>7. TruthfulAttemptReplies'
    BY <1>1, <1>3 DEF Promises, TruthfulAttemptReplies
  <1>8. OrderStatusBacked'
    <2>1. \A o \in hit : \E p \in PaymentsOf(o) : Settled(p)
      BY <1>1 DEF InFlight, CallbackKnowsPayment, Promises, PaymentHasOwnersOrder
    <2> QED
      BY <1>1, <1>2, <2>1, StatusBacked DEF Promises
  <1> QED
    BY <1>5, <1>6, <1>7, <1>8 DEF Promises

\* A restart ends every request and callback; the database stays.
LEMMA RestartSafe ==
    ASSUME SafetyInv, Restart
    PROVE  (InFlight /\ Promises)'
  <1> USE DEF SafetyInv, Exists, Owns, PaymentsOf, Settled
  <1>1. UNCHANGED <<orders, drawn, payments>>
    BY DEF Restart, PaymentsRestart, orderVars
  <1>2. /\ DOMAIN att' = DOMAIN att
        /\ \A x \in DOMAIN att :
              /\ att'[x].pc = "done"
              /\ att'[x].reply \in {att[x].reply, "NoReply"}
              /\ att'[x].user = att[x].user /\ att'[x].order = att[x].order
              /\ att'[x].amount = att[x].amount /\ att'[x].ref = att[x].ref
        /\ DOMAIN dlv' = DOMAIN dlv
        /\ \A d \in DOMAIN dlv :
              /\ dlv'[d].pc = "done"
              /\ dlv'[d].pay = dlv[d].pay /\ dlv'[d].order = dlv[d].order
    BY RestartFacts DEF TypeInv, TypeOK
  <1>3. InFlight'
    BY <1>1, <1>2 DEF InFlight, RequestOwnsOrder, RequestInserts, ReplyKnowsOrder,
                      CallbackKnowsPayment
  <1>4. OnePaymentPerOrder' /\ OrderStatusBacked'
    BY <1>1 DEF Promises, OnePaymentPerOrder, OrderStatusBacked
  <1>5. PaymentHasOwnersOrder' /\ RecordedAmountIsCharged'
    BY <1>1, <1>2 DEF Promises, PaymentHasOwnersOrder, RecordedAmountIsCharged,
                      TypeInv, TypeOK, PaymentsTypeOK
  <1>6. TruthfulAttemptReplies'
    BY <1>1, <1>2 DEF Promises, TruthfulAttemptReplies
  <1> QED
    BY <1>3, <1>4, <1>5, <1>6 DEF Promises

LEMMA SafetyStep ==
    ASSUME SafetyInv, [Next]_vars
    PROVE  SafetyInv'
  <1>1. SUFFICES (InFlight /\ Promises)'
    BY TypeStep DEF SafetyInv
  <1>2. ASSUME NEW a \in Attempt, AttemptStep(a)
        PROVE  (InFlight /\ Promises)'
    <2>1. UNCHANGED <<webhookVars, epoch>>
      BY <1>2 DEF AttemptStep
    <2> QED
      BY <1>2, <2>1, ChargeSafe, InsertPaymentSafe, MarkOrderSafe DEF AttemptStep
  <1>3. ASSUME NEW d \in Slot, CallbackStep(d)
        PROVE  (InFlight /\ Promises)'
    BY <1>3, UpdatePaymentSafe, AdvanceOrderSafe DEF CallbackStep
  <1>4. CASE Fail
    <2>1. ASSUME NEW a \in Attempt, AttemptFails(a), UNCHANGED webhookVars
          PROVE  (InFlight /\ Promises)'
      BY <2>1, RefusalSafe DEF AttemptFails, orderVars, webhookVars
    <2>2. ASSUME NEW d \in Slot, CallbackFails(d)
          PROVE  (InFlight /\ Promises)'
      <3>1. /\ d \in DOMAIN dlv /\ Respond(d, "InternalError")
            /\ UNCHANGED <<orders, drawn, payments, att>>
        BY <2>2 DEF CallbackFails, orderVars, paymentVars
      <3> QED
        BY <3>1, CallbackEndSafe DEF SafetyInv
    <2> QED
      BY <1>4, <2>1, <2>2 DEF Fail
  <1>5. ASSUME UNCHANGED <<orders, drawn, payments, att, dlv>>
        PROVE  (InFlight /\ Promises)'
    BY <1>5
    DEF SafetyInv, InFlight, RequestOwnsOrder, RequestInserts, ReplyKnowsOrder,
        CallbackKnowsPayment, Promises, OnePaymentPerOrder, PaymentHasOwnersOrder,
        OrderStatusBacked, RecordedAmountIsCharged, TruthfulAttemptReplies,
        Exists, Owns, PaymentsOf, Settled
  <1>6. ASSUME NEW a \in Attempt, NEW v \in Verdict, Decide(a, v)
        PROVE  (InFlight /\ Promises)'
    BY <1>5, <1>6 DEF Decide, ProviderDecides, orderVars, paymentVars
  <1>7. CASE UNCHANGED vars
    BY <1>5, <1>7 DEF vars
  <1>8. ASSUME NEW u \in User, NEW o \in OrderId,
               \/ \E b \in Body : PostOrder(u, o, b) \/ PutOrder(u, o, b)
               \/ RemoveOrder(u, o)
               \/ \E a \in Attempt : BeginAttempt(a, u, o)
        PROVE  (InFlight /\ Promises)'
    BY <1>8, PostOrderSafe, PutOrderSafe, RemoveOrderSafe, BeginAttemptSafe
  <1>9. ASSUME NEW d \in Slot, NEW m \in Callbacks, NEW p \in Attempt,
               Receive(d, m, p)
        PROVE  (InFlight /\ Promises)'
    BY <1>9, ReceiveSafe
  <1>10. CASE Restart
    BY <1>10, RestartSafe
  <1> QED
    BY <1>2, <1>3, <1>4, <1>6, <1>7, <1>8, <1>9, <1>10 DEF Next, Wait

LEMMA SafetyInvariant == Spec => []SafetyInv
  <1>1. SafetyInv /\ [Next]_vars => SafetyInv'
    BY SafetyStep
  <1> QED
    BY SafetyInit, <1>1, PTL DEF Spec

(* The promises that hold in every environment: whatever fails, restarts,  *)
(* overtakes or contradicts.                                               *)

\* An order has at most one payment, though the check and the INSERT of
\* Service.Create are separate statements.
THEOREM PaymentsUnique == Spec => []OnePaymentPerOrder
  <1>1. SafetyInv => OnePaymentPerOrder
    BY DEF SafetyInv, Promises
  <1> QED
    BY <1>1, SafetyInvariant, PTL

\* A payment belongs to an order that exists and was made by its owner.
THEOREM PaymentsOwned == Spec => []PaymentHasOwnersOrder
  <1>1. SafetyInv => PaymentHasOwnersOrder
    BY DEF SafetyInv, Promises
  <1> QED
    BY <1>1, SafetyInvariant, PTL

\* A status other than pending has a payment behind it, and a status that is
\* an outcome has a payment with an outcome.
THEOREM StatusesBacked == Spec => []OrderStatusBacked
  <1>1. SafetyInv => OrderStatusBacked
    BY DEF SafetyInv, Promises
  <1> QED
    BY <1>1, SafetyInvariant, PTL

\* What POST /payments answers is so, whichever step failed.
THEOREM AttemptsToldTheTruth == Spec => []TruthfulAttemptReplies
  <1>1. SafetyInv => TruthfulAttemptReplies
    BY DEF SafetyInv, Promises
  <1> QED
    BY <1>1, SafetyInvariant, PTL

-----------------------------------------------------------------------------
(* What is recorded and what is owed.  Prices and quantities are read once, *)
(* in the first step of Create, and not looked at again.                    *)

Owed(o) == orders[o].quantity * orders[o].price

\* A request that had an amount computed computed what its order costs.
AmountIsOwed ==
    \A a \in DOMAIN att :
        att[a].amount # 0 =>
            /\ att[a].order \in drawn
            /\ Exists(att[a].order) => att[a].amount = Owed(att[a].order)

\* Only PUT changes what an existing order costs.
LEMMA OrdersKeepTheirPrice ==
    ASSUME TypeInv, [Next]_vars, "edit" \notin Env
    PROVE  /\ drawn \subseteq drawn'
           /\ \A o \in DOMAIN orders' : o \in drawn => o \in DOMAIN orders
           /\ \A o \in DOMAIN orders' \cap DOMAIN orders :
                 /\ orders'[o].quantity = orders[o].quantity
                 /\ orders'[o].price = orders[o].price
  <1> DEFINE Kept ==
        /\ drawn \subseteq drawn'
        /\ \A o \in DOMAIN orders' : o \in drawn => o \in DOMAIN orders
        /\ \A o \in DOMAIN orders' \cap DOMAIN orders :
              /\ orders'[o].quantity = orders[o].quantity
              /\ orders'[o].price = orders[o].price
  <1>1. OrdersTypeOK
    BY DEF TypeInv, TypeOK
  <1>2. ASSUME UNCHANGED orderVars
        PROVE  Kept
    BY <1>2 DEF orderVars
  <1>3. ASSUME NEW os, NEW s, SetOrderStatus(os, s), UNCHANGED drawn
        PROVE  Kept
    BY <1>1, <1>3, SetOrderStatusFacts
  <1>4. ASSUME NEW u \in User, NEW o \in OrderId,
               (\E b \in Body : PostOrder(u, o, b)) \/ RemoveOrder(u, o)
        PROVE  Kept
    BY <1>1, <1>4
    DEF PostOrder, CreateOrder, InsertRow, RemoveOrder, DeleteOrder, DeleteRows,
        Restrict, OrdersTypeOK
  <1>5. ASSUME NEW a \in Attempt, AttemptStep(a)
        PROVE  Kept
    BY <1>2, <1>3, <1>5 DEF AttemptStep, Charge, InsertPayment, MarkOrder
  <1>6. ASSUME NEW d \in Slot, CallbackStep(d)
        PROVE  Kept
    BY <1>2, <1>3, <1>6 DEF CallbackStep, UpdatePayment, AdvanceOrder
  <1>7. ASSUME \/ Fail \/ Restart \/ UNCHANGED vars
               \/ \E u \in User, o \in OrderId, a \in Attempt : BeginAttempt(a, u, o)
               \/ \E a \in Attempt, v \in Verdict : Decide(a, v)
               \/ \E d \in Slot, m \in Callbacks, p \in Attempt : Receive(d, m, p)
        PROVE  Kept
    BY <1>2, <1>7
    DEF Fail, AttemptFails, CallbackFails, Restart, vars, orderVars, BeginAttempt,
        GetOrder, Decide, ProviderDecides, Receive, ReceiveCallback
  <1> QED
    BY <1>4, <1>5, <1>6, <1>7 DEF Next, Wait, PutOrder

\* A request's amount is computed when it begins and never again.
LEMMA AmountsAreComputedOnce ==
    ASSUME TypeInv, [Next]_vars
    PROVE  \A a \in DOMAIN att' :
              \/ /\ a \in DOMAIN att
                 /\ att'[a].order = att[a].order /\ att'[a].amount = att[a].amount
              \/ att'[a].amount = 0
              \/ /\ att'[a].order \in DOMAIN orders
                 /\ att'[a].amount = Owed(att'[a].order)
                 /\ UNCHANGED orderVars
  <1> DEFINE Once ==
        \A a \in DOMAIN att' :
           \/ /\ a \in DOMAIN att
              /\ att'[a].order = att[a].order /\ att'[a].amount = att[a].amount
           \/ att'[a].amount = 0
           \/ /\ att'[a].order \in DOMAIN orders
              /\ att'[a].amount = Owed(att'[a].order)
              /\ UNCHANGED orderVars
  <1>1. PaymentsTypeOK /\ WebhookTypeOK
    BY DEF TypeInv, TypeOK
  <1>2. ASSUME UNCHANGED att
        PROVE  Once
    BY <1>2
  <1>3. ASSUME NEW a \in DOMAIN att, NEW r, Reply(a, r)
        PROVE  Once
    BY <1>1, <1>3, ReplyFacts
  <1>4. ASSUME NEW u \in User, NEW o \in OrderId, NEW a \in Attempt,
               BeginAttempt(a, u, o)
        PROVE  Once
    BY <1>4 DEF BeginAttempt, GetOrder, InsertRow, Owns, Owed
  <1>5. ASSUME NEW a \in Attempt, AttemptStep(a)
        PROVE  Once
    <2>1. CASE Charge(a)
      BY <1>1, <2>1 DEF Charge, PaymentsTypeOK, AttemptRecord
    <2>2. ASSUME NEW answered \in Answers, InsertPayment(a, answered)
          PROVE  Once
      BY <1>1, <1>3, <2>2, ToMarkFacts DEF InsertPayment
    <2>3. ASSUME NEW answered \in Answers, MarkOrder(a, answered)
          PROVE  Once
      BY <1>3, <2>3 DEF MarkOrder
    <2> QED
      BY <1>5, <2>1, <2>2, <2>3 DEF AttemptStep
  <1>6. ASSUME NEW d \in Slot, CallbackStep(d)
        PROVE  Once
    BY <1>2, <1>6 DEF CallbackStep, UpdatePayment, AdvanceOrder, paymentVars
  <1>7. CASE Fail
    BY <1>2, <1>3, <1>7 DEF Fail, AttemptFails, CallbackFails, paymentVars
  <1>8. CASE Restart
    BY <1>1, <1>8, RestartFacts
  <1>9. ASSUME NEW u \in User, NEW o \in OrderId,
               \/ \E b \in Body : PostOrder(u, o, b) \/ PutOrder(u, o, b)
               \/ RemoveOrder(u, o)
        PROVE  Once
    BY <1>2, <1>9 DEF PostOrder, PutOrder, RemoveOrder, paymentVars
  <1>10. ASSUME \/ UNCHANGED vars
                \/ \E a \in Attempt, v \in Verdict : Decide(a, v)
                \/ \E d \in Slot, m \in Callbacks, p \in Attempt : Receive(d, m, p)
         PROVE  Once
    BY <1>2, <1>10
    DEF vars, Decide, ProviderDecides, Receive, ReceiveCallback, paymentVars
  <1> QED
    BY <1>4, <1>5, <1>6, <1>7, <1>8, <1>9, <1>10 DEF Next, Wait

LEMMA AmountStep ==
    ASSUME SafetyInv, AmountIsOwed, [Next]_vars, "edit" \notin Env
    PROVE  AmountIsOwed'
  <1>1. TypeInv /\ DOMAIN orders \subseteq drawn
    BY DEF SafetyInv, TypeInv, TypeOK, OrdersTypeOK
  <1>2. \A o \in DOMAIN orders' \cap DOMAIN orders : Owed(o)' = Owed(o)
    BY <1>1, OrdersKeepTheirPrice DEF Owed
  <1>3. SUFFICES ASSUME NEW a \in DOMAIN att', NEW o, o = att'[a].order,
                        att'[a].amount # 0
                 PROVE  o \in drawn' /\ (o \in DOMAIN orders' =>
                                            att'[a].amount = Owed(o)')
    BY DEF AmountIsOwed, Exists, Owed
  <1>4. o = att'[a].order
    BY <1>3
  <1>5. CASE /\ a \in DOMAIN att
             /\ att'[a].order = att[a].order /\ att'[a].amount = att[a].amount
    <2>1. o \in drawn /\ (o \in DOMAIN orders => att[a].amount = Owed(o))
      BY <1>3, <1>4, <1>5 DEF AmountIsOwed, Exists
    <2> QED
      BY <1>1, <1>2, <1>4, <1>5, <2>1, OrdersKeepTheirPrice
  <1>6. CASE /\ att'[a].order \in DOMAIN orders
             /\ att'[a].amount = Owed(att'[a].order)
             /\ UNCHANGED orderVars
    <2>1. o \in DOMAIN orders /\ att'[a].amount = Owed(o) /\ UNCHANGED <<orders, drawn>>
      BY <1>4, <1>6 DEF orderVars
    <2> QED
      BY <1>1, <1>2, <1>4, <2>1
  <1> QED
    BY <1>1, <1>3, <1>5, <1>6, AmountsAreComputedOnce

\* While owners do not edit, the payment of an order records what the order
\* costs, to half a unit of the column, through faults, restarts and races:
\* editing is the only way in which the two come apart (ChargesReconcile says
\* what holds in spite of it).
THEOREM PaymentsRecordWhatIsOwed ==
    ASSUME "edit" \notin Env
    PROVE  Spec => [](\A p \in DOMAIN payments :
                         LET o == payments[p].order
                         IN  /\ payments[p].amount = ToColumn(Owed(o))
                             /\ 2 * (payments[p].amount * Scale - Owed(o)) <= Scale
                             /\ 2 * (Owed(o) - payments[p].amount * Scale) <= Scale)
  <1> DEFINE Recorded ==
        \A p \in DOMAIN payments :
           LET o == payments[p].order
           IN  /\ payments[p].amount = ToColumn(Owed(o))
               /\ 2 * (payments[p].amount * Scale - Owed(o)) <= Scale
               /\ 2 * (Owed(o) - payments[p].amount * Scale) <= Scale
  <1>1. Init => AmountIsOwed
    BY DEF Init, PaymentsInit, EmptyTable, AmountIsOwed
  <1>2. SafetyInv /\ AmountIsOwed /\ [Next]_vars => AmountIsOwed'
    BY AmountStep
  <1>3. SafetyInv /\ AmountIsOwed => Recorded
    <2> SUFFICES ASSUME SafetyInv, AmountIsOwed, NEW p \in DOMAIN payments,
                        NEW o, o = payments[p].order
                 PROVE  /\ payments[p].amount = ToColumn(Owed(o))
                        /\ 2 * (payments[p].amount * Scale - Owed(o)) <= Scale
                        /\ 2 * (Owed(o) - payments[p].amount * Scale) <= Scale
      OBVIOUS
    <2>1. /\ p \in DOMAIN att /\ payments[p].amount # 0 /\ att[p].amount \in Nat
          /\ payments[p].amount = ToColumn(att[p].amount)
      BY DEF SafetyInv, TypeInv, TypeOK, PaymentsTypeOK, PaymentRow, AttemptRecord,
             PositiveColumn, Promises, RecordedAmountIsCharged
    <2>2. Exists(o) /\ o = att[p].order
      BY DEF SafetyInv, Promises, PaymentHasOwnersOrder, Owns, Exists
    <2>3. ToColumn(0) = 0
      BY NumericAssumption DEF ToColumn
    <2>4. att[p].amount = Owed(o)
      BY <2>1, <2>2, <2>3 DEF AmountIsOwed
    <2> QED
      BY <2>1, <2>4, RoundingError
  <1> QED
    BY <1>1, <1>2, <1>3, SafetyInvariant, PTL DEF Spec

-----------------------------------------------------------------------------
(* What no step undoes. *)

LEMMA StepReopensNothing ==
    ASSUME SafetyInv, [Next]_vars
    PROVE  NoStepReopens
  <1> USE DEF NoStepReopens, Settled
  <1>1. OrdersTypeOK /\ PaymentsTypeOK /\ WebhookTypeOK /\ DOMAIN orders \subseteq drawn
    BY DEF SafetyInv, TypeInv, TypeOK, OrdersTypeOK
  <1>2. ASSUME UNCHANGED <<orders, payments>>
        PROVE  NoStepReopens
    BY <1>1, <1>2
  <1>3. ASSUME NEW u \in User, NEW o \in OrderId, NEW b \in Body, PostOrder(u, o, b)
        PROVE  NoStepReopens
    BY <1>1, <1>3 DEF PostOrder, CreateOrder, InsertRow, paymentVars
  <1>4. ASSUME NEW u \in User, NEW o \in OrderId, NEW b \in Body, PutOrder(u, o, b)
        PROVE  NoStepReopens
    BY <1>1, <1>4 DEF PutOrder, UpdateOrder, paymentVars, OrdersTypeOK, OrderRow
  <1>5. ASSUME NEW u \in User, NEW o \in OrderId, RemoveOrder(u, o)
        PROVE  NoStepReopens
    BY <1>1, <1>5 DEF RemoveOrder, DeleteOrder, CascadeDelete, DeleteRows, Restrict
  <1>6. ASSUME NEW a \in Attempt, AttemptStep(a)
        PROVE  NoStepReopens
    <2>1. CASE Charge(a)
      BY <1>2, <2>1 DEF Charge, orderVars
    <2>2. ASSUME NEW answered \in Answers, InsertPayment(a, answered)
          PROVE  NoStepReopens
      <3>1. UNCHANGED orders /\ a \notin DOMAIN payments
        BY <2>2 DEF InsertPayment, orderVars, SafetyInv, InFlight, RequestInserts
      <3> QED
        BY <1>1, <2>2, <3>1 DEF InsertPayment, InsertRow
    <2>3. ASSUME NEW answered \in Answers, MarkOrder(a, answered)
          PROVE  NoStepReopens
      BY <1>1, <2>3, SetOrderStatusFacts DEF MarkOrder
    <2> QED
      BY <1>6, <2>1, <2>2, <2>3 DEF AttemptStep
  <1>7. ASSUME NEW d \in Slot, CallbackStep(d)
        PROVE  NoStepReopens
    <2>1. ASSUME NEW answered \in Answers, UpdatePayment(d, answered)
          PROVE  NoStepReopens
      BY <1>1, <2>1 DEF UpdatePayment, orderVars, PaymentsTypeOK, PaymentRow,
                        WebhookTypeOK, CallbackRecord, Verdict
    <2>2. ASSUME NEW answered \in Answers, AdvanceOrder(d, answered)
          PROVE  NoStepReopens
      BY <1>1, <2>2, SetOrderStatusFacts DEF AdvanceOrder, OrderStatusFor, paymentVars
    <2> QED
      BY <1>7, <2>1, <2>2 DEF CallbackStep
  <1>8. CASE Fail
    BY <1>2, <1>8 DEF Fail, AttemptFails, CallbackFails, orderVars, paymentVars
  <1>9. CASE Restart
    BY <1>2, <1>9 DEF Restart, PaymentsRestart, orderVars
  <1>10. ASSUME NEW u \in User, NEW o \in OrderId, NEW a \in Attempt,
                BeginAttempt(a, u, o)
         PROVE  NoStepReopens
    BY <1>2, <1>10 DEF BeginAttempt, GetOrder, orderVars
  <1>11. ASSUME NEW a \in Attempt, NEW v \in Verdict, Decide(a, v)
         PROVE  NoStepReopens
    BY <1>2, <1>11 DEF Decide, ProviderDecides, orderVars, paymentVars
  <1>12. ASSUME NEW d \in Slot, NEW m \in Callbacks, NEW p \in Attempt,
                Receive(d, m, p)
         PROVE  NoStepReopens
    BY <1>2, <1>12 DEF Receive, ReceiveCallback, orderVars, paymentVars
  <1>13. CASE UNCHANGED vars
    BY <1>2, <1>13 DEF vars
  <1> QED
    BY <1>3, <1>4, <1>5, <1>6, <1>7, <1>8, <1>9, <1>10, <1>11, <1>12, <1>13
    DEF Next, Wait

\* No step of any handler makes a settled payment pending or an order payable
\* again, changes what a payment is for, or brings a deleted order back.
THEOREM NothingReopens == Spec => NeverReopened
  <1>1. SafetyInv /\ [Next]_vars => SafetyInv'
    BY SafetyStep
  <1>2. SafetyInv /\ [Next]_vars => [NoStepReopens]_vars
    BY StepReopensNothing
  <1> QED
    BY SafetyInit, <1>1, <1>2, PTL DEF Spec, NeverReopened

-----------------------------------------------------------------------------
(* Whose verdict a payment shows. *)

\* In one life of the process the gateway never issues a reference twice.
ReferencesUnique ==
    /\ \A a \in DOMAIN att : att[a].ref <= counter
    /\ \A a, b \in DOMAIN att :
          att[a].ref = att[b].ref /\ att[a].ref # 0 => a = b

\* A callback in flight carries a verdict on the very payment it found.
CallbackIsGenuine ==
    \A d \in DOMAIN dlv : dlv[d].pc # "done" => dlv[d].status \in sent[dlv[d].pay]

VerdictInv == /\ SafetyInv
              /\ epoch = 0 => ReferencesUnique /\ CallbackIsGenuine
              /\ VerdictRespected

\* What a callback that was received says is about the payment it found.
LEMMA ReceivedVerdict ==
    ASSUME PaymentsTypeOK, RecordedAmountIsCharged, ReferencesUnique,
           NEW d \in Slot, NEW m \in Callbacks, NEW p \in Attempt, Receive(d, m, p)
    PROVE  /\ m.status \in Verdict /\ m.status \in sent[p]
           /\ p \in DOMAIN payments /\ p \in DOMAIN att
  <1>1. /\ m.signed /\ m.ref # 0 /\ m.status \in Verdict
        /\ p \in DOMAIN payments /\ p \in DOMAIN att
        /\ payments[p].ref = m.ref /\ att[p].ref = m.ref
    BY DEF Receive, ReceiveCallback, Acceptable, RowsByReference,
           RecordedAmountIsCharged, PaymentsTypeOK
  <1>2. \E a \in DOMAIN att : m.ref = att[a].ref /\ m.status \in sent[a]
    BY <1>1 DEF Callbacks
  <1> QED
    BY <1>1, <1>2 DEF ReferencesUnique

LEMMA VerdictInit == Init => VerdictInv
  BY SafetyInit
  DEF Init, OrdersInit, PaymentsInit, WebhookInit, EmptyTable, VerdictInv,
      ReferencesUnique, CallbackIsGenuine, VerdictRespected

LEMMA VerdictStep ==
    ASSUME VerdictInv, [Next]_vars
    PROVE  VerdictInv'
  <1> USE DEF VerdictInv, VerdictRespected, Settled
  <1>1. SUFFICES ASSUME epoch' = 0
                 PROVE  ReferencesUnique' /\ CallbackIsGenuine' /\ VerdictRespected'
    BY SafetyStep
  <1>2. ~Restart /\ epoch = 0
    BY <1>1 DEF Restart, SafetyInv, TypeInv, TypeOK, Next, vars, PostOrder, PutOrder,
                RemoveOrder, BeginAttempt, AttemptStep, Decide, Receive, CallbackStep,
                Fail, Wait
  <1>3. /\ OrdersTypeOK /\ PaymentsTypeOK /\ WebhookTypeOK
        /\ RequestInserts /\ RecordedAmountIsCharged
        /\ ReferencesUnique /\ CallbackIsGenuine
    BY <1>2 DEF SafetyInv, TypeInv, TypeOK, InFlight, Promises
  <1> DEFINE Goal == ReferencesUnique' /\ CallbackIsGenuine' /\ VerdictRespected'
  <1>4. ASSUME UNCHANGED <<counter, att, dlv, sent>>,
               DOMAIN payments' \subseteq DOMAIN payments,
               \A p \in DOMAIN payments' : payments'[p] = payments[p]
        PROVE  Goal
    BY <1>2, <1>3, <1>4 DEF ReferencesUnique, CallbackIsGenuine
  <1>5. ASSUME NEW u \in User, NEW o \in OrderId,
               \/ \E b \in Body : PostOrder(u, o, b) \/ PutOrder(u, o, b)
               \/ RemoveOrder(u, o)
        PROVE  Goal
    BY <1>4, <1>5 DEF PostOrder, PutOrder, RemoveOrder, CascadeDelete, DeleteRows,
                      Restrict, paymentVars, webhookVars
  <1>6. ASSUME NEW u \in User, NEW o \in OrderId, NEW a \in Attempt,
               BeginAttempt(a, u, o)
        PROVE  Goal
    <2>1. /\ DOMAIN att' = DOMAIN att \cup {a} /\ att'[a].ref = 0
          /\ \A x \in DOMAIN att : x # a => att'[x] = att[x]
          /\ UNCHANGED <<payments, counter, dlv, sent>>
      BY <1>6 DEF BeginAttempt, GetOrder, InsertRow, webhookVars
    <2> QED
      BY <1>2, <1>3, <2>1
      DEF ReferencesUnique, CallbackIsGenuine, PaymentsTypeOK
  <1>7. ASSUME NEW a \in Attempt, Charge(a), UNCHANGED webhookVars
        PROVE  Goal
    <2>1. /\ DOMAIN att' = DOMAIN att /\ att'[a].ref = counter'
          /\ counter' = counter + 1
          /\ \A x \in DOMAIN att : x # a => att'[x] = att[x]
          /\ UNCHANGED <<payments, dlv, sent>>
      BY <1>3, <1>7 DEF Charge, webhookVars, PaymentsTypeOK, AttemptRecord
    <2>2. \A x \in DOMAIN att : att[x].ref \in Nat /\ counter \in Nat
      BY <1>3 DEF PaymentsTypeOK, AttemptRecord
    <2> QED
      BY <1>2, <1>3, <2>1, <2>2 DEF ReferencesUnique, CallbackIsGenuine
  <1>8. ASSUME NEW a \in DOMAIN att, DOMAIN att' = DOMAIN att,
               \A x \in DOMAIN att : att'[x].ref = att[x].ref,
               UNCHANGED <<counter, dlv, sent>>,
               DOMAIN payments' \subseteq DOMAIN payments \cup {a},
               \A p \in DOMAIN payments : payments'[p] = payments[p],
               a \in DOMAIN payments' \ DOMAIN payments => payments'[a].status = "pending"
        PROVE  Goal
    BY <1>2, <1>3, <1>8 DEF ReferencesUnique, CallbackIsGenuine
  <1>9. ASSUME NEW a \in Attempt, NEW answered \in Answers,
               InsertPayment(a, answered), UNCHANGED webhookVars
        PROVE  Goal
    <2>1. a \in DOMAIN att /\ UNCHANGED <<counter, dlv, sent>>
          /\ a \notin DOMAIN payments
      BY <1>3, <1>9 DEF InsertPayment, webhookVars, RequestInserts
    <2>2. /\ DOMAIN att' = DOMAIN att
          /\ \A x \in DOMAIN att : att'[x].ref = att[x].ref
      BY <1>3, <1>9, <2>1, ReplyFacts, ToMarkFacts DEF InsertPayment
    <2>3. /\ DOMAIN payments' \subseteq DOMAIN payments \cup {a}
          /\ \A p \in DOMAIN payments : payments'[p] = payments[p]
          /\ a \in DOMAIN payments' => payments'[a].status = "pending"
      BY <1>9, <2>1 DEF InsertPayment, InsertRow, NewPayment
    <2> QED
      BY <1>8, <2>1, <2>2, <2>3
  <1>10. ASSUME NEW a \in Attempt,
                \/ \E answered \in Answers : MarkOrder(a, answered)
                \/ AttemptFails(a),
                UNCHANGED webhookVars
         PROVE  Goal
    <2>1. a \in DOMAIN att /\ UNCHANGED <<counter, dlv, sent, payments>>
      BY <1>10 DEF MarkOrder, AttemptFails, webhookVars
    <2>2. PICK r : Reply(a, r)
      BY <1>10 DEF MarkOrder, AttemptFails
    <2> QED
      BY <1>3, <1>8, <2>1, <2>2, ReplyFacts
  <1>11. ASSUME NEW a \in Attempt, NEW v \in Verdict, Decide(a, v)
         PROVE  Goal
    BY <1>2, <1>3, <1>11
    DEF Decide, ProviderDecides, paymentVars, ReferencesUnique, CallbackIsGenuine,
        WebhookTypeOK
  <1>12. ASSUME NEW d \in Slot, NEW m \in Callbacks, NEW p \in Attempt,
                Receive(d, m, p)
         PROVE  Goal
    <2>1. /\ UNCHANGED <<payments, counter, att, sent>>
          /\ DOMAIN dlv' = DOMAIN dlv \cup {d}
          /\ dlv'[d].pay = p /\ dlv'[d].status = m.status
          /\ \A x \in DOMAIN dlv : x # d => dlv'[x] = dlv[x]
      BY <1>12 DEF Receive, ReceiveCallback, InsertRow, paymentVars
    <2>2. m.status \in sent[p]
      BY <1>3, <1>12, ReceivedVerdict
    <2> QED
      BY <1>2, <1>3, <2>1, <2>2 DEF ReferencesUnique, CallbackIsGenuine
  <1>13. ASSUME NEW d \in Slot, NEW r, d \in DOMAIN dlv, Respond(d, r),
                UNCHANGED <<payments, counter, att, sent>>
         PROVE  Goal
    BY <1>2, <1>3, <1>13, RespondFacts DEF ReferencesUnique, CallbackIsGenuine
  <1>14. ASSUME NEW d \in Slot, NEW answered \in Answers, UpdatePayment(d, answered)
         PROVE  Goal
    <2> DEFINE p == dlv[d].pay
    <2>1. d \in DOMAIN dlv /\ dlv[d].pc = "update" /\ UNCHANGED <<counter, att, sent>>
      BY <1>14 DEF UpdatePayment
    <2>2. CASE p \notin DOMAIN payments
      BY <1>13, <1>14, <2>1, <2>2 DEF UpdatePayment
    <2>3. CASE p \in DOMAIN payments
      <3>1. /\ DOMAIN payments' = DOMAIN payments
            /\ payments'[p].status = dlv[d].status
            /\ \A q \in DOMAIN payments : q # p => payments'[q] = payments[q]
        BY <1>3, <1>14, <2>3 DEF UpdatePayment, PaymentsTypeOK, PaymentRow
      <3>2. /\ DOMAIN dlv' = DOMAIN dlv
            /\ \A x \in DOMAIN dlv : /\ x # d => dlv'[x] = dlv[x]
                                     /\ dlv'[x].pay = dlv[x].pay
                                     /\ dlv'[x].status = dlv[x].status
        BY <1>3, <1>14, <2>1, <2>3, RespondFacts
        DEF UpdatePayment, WebhookTypeOK, CallbackRecord
      <3> QED
        BY <1>2, <1>3, <2>1, <3>1, <3>2 DEF ReferencesUnique, CallbackIsGenuine
    <2> QED
      BY <2>2, <2>3
  <1>15. ASSUME NEW d \in Slot,
                \/ \E answered \in Answers : AdvanceOrder(d, answered)
                \/ CallbackFails(d)
         PROVE  Goal
    BY <1>13, <1>15 DEF AdvanceOrder, CallbackFails, paymentVars
  <1>16. CASE UNCHANGED vars
    BY <1>4, <1>16 DEF vars
  <1>17. CASE Fail
    BY <1>10, <1>15, <1>17 DEF Fail
  <1>18. ASSUME NEW a \in Attempt, AttemptStep(a)
         PROVE  Goal
    BY <1>7, <1>9, <1>10, <1>18 DEF AttemptStep
  <1>19. ASSUME NEW d \in Slot, CallbackStep(d)
         PROVE  Goal
    BY <1>14, <1>15, <1>19 DEF CallbackStep
  <1> QED
    BY <1>2, <1>5, <1>6, <1>11, <1>12, <1>16, <1>17, <1>18, <1>19 DEF Next, Wait

LEMMA VerdictInvariant == Spec => []VerdictInv
  <1>1. VerdictInv /\ [Next]_vars => VerdictInv'
    BY VerdictStep
  <1> QED
    BY VerdictInit, <1>1, PTL DEF Spec

\* As long as the process has not restarted, a payment is settled only by a
\* signed verdict of the provider on that payment's own charge.
THEOREM VerdictsAreRespected == Spec => []VerdictRespected
  <1>1. VerdictInv => VerdictRespected
    BY DEF VerdictInv
  <1> QED
    BY VerdictInvariant, <1>1, PTL

-----------------------------------------------------------------------------
(* What was charged. *)

\* In one life of the process no two charges have the reference of a payment.
LEMMA ChargeOfPayment ==
    ASSUME SafetyInv, ReferencesUnique, NEW p \in DOMAIN payments
    PROVE  {a \in DOMAIN att : att[a].ref = payments[p].ref} = {p}
  <1>1. p \in DOMAIN att /\ payments[p].ref = att[p].ref /\ payments[p].ref # 0
    BY DEF SafetyInv, TypeInv, TypeOK, PaymentsTypeOK, PaymentRow, Promises,
           RecordedAmountIsCharged
  <1> QED
    BY <1>1 DEF ReferencesUnique

\* In one life of the process the payments can be reconciled with what the
\* gateway was asked to charge, whatever fails, races or is edited meanwhile:
\* a reference stands for one charge (ReferencesUnique), and the row that has
\* it is that of the request charged.
THEOREM PaymentsReconcile == Spec => []ChargesReconcile
  <1>1. VerdictInv => ChargesReconcile
    <2>1. SUFFICES ASSUME SafetyInv, ReferencesUnique
                   PROVE  /\ \A p \in DOMAIN payments :
                                ChargesUnder(payments[p].ref) =
                                    {[order  |-> payments[p].order,
                                      amount |-> payments[p].amount]}
                          /\ \A a \in DOMAIN att :
                                att[a].reply = "Created" /\ Exists(att[a].order) =>
                                    \E p \in DOMAIN payments :
                                        payments[p].ref = att[a].ref
      BY DEF VerdictInv, ChargesReconcile
    <2>2. ASSUME NEW p \in DOMAIN payments
          PROVE  ChargesUnder(payments[p].ref) =
                     {[order |-> payments[p].order, amount |-> payments[p].amount]}
      <3>1. /\ payments[p].order = att[p].order
            /\ payments[p].amount = ToColumn(att[p].amount)
        BY <2>1 DEF SafetyInv, Promises, PaymentHasOwnersOrder, RecordedAmountIsCharged
      <3>2. ChargesUnder(payments[p].ref) =
                {[order |-> att[a].order, amount |-> ToColumn(att[a].amount)] : a \in {p}}
        BY <2>1, <2>2, ChargeOfPayment DEF ChargesUnder
      <3> QED
        BY <3>1, <3>2
    <2>3. ASSUME NEW a \in DOMAIN att, att[a].reply = "Created", Exists(att[a].order)
          PROVE  a \in DOMAIN payments /\ payments[a].ref = att[a].ref
      BY <2>1, <2>3 DEF SafetyInv, Promises, TruthfulAttemptReplies,
                        RecordedAmountIsCharged
    <2> QED
      BY <2>2, <2>3
  <1> QED
    BY VerdictInvariant, <1>1, PTL
=============================================================================
