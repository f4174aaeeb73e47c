-------------------------- MODULE PaymentViewProofs -------------------------
(***************************************************************************)
(* Theorems about what GET /payments/:id shows, for any number of clients  *)
(* looking, and any other requests, callbacks, failures and restarts.      *)
(***************************************************************************)
EXTENDS AgreementProofs, PaymentView

-----------------------------------------------------------------------------
(* What a reader may rely on, whatever step the rest takes. *)

\* A request that is over stays as it is and inserts no payment any more; an
\* order does not change hands.
ReadersRely ==
    /\ \A a \in DOMAIN att :
          att[a].pc = "done" =>
              /\ a \in DOMAIN att' /\ att'[a] = att[a]
              /\ a \in DOMAIN payments' => a \in DOMAIN payments
    /\ \A o \in DOMAIN orders \cap DOMAIN orders' : orders'[o].user = orders[o].user

LEMMA StepLetsReadersRely ==
    ASSUME SafetyInv, [Next]_vars
    PROVE  ReadersRely
  <1> USE DEF ReadersRely
  <1>1. /\ OrdersTypeOK /\ PaymentsTypeOK /\ WebhookTypeOK
        /\ DOMAIN orders \subseteq drawn
    BY DEF SafetyInv, TypeInv, TypeOK, OrdersTypeOK
  <1>2. ASSUME NEW a \in DOMAIN att, att[a].pc # "done", DOMAIN att' = DOMAIN att,
               \A x \in DOMAIN att : x # a => att'[x] = att[x],
               DOMAIN payments' \subseteq DOMAIN payments \cup {a},
               \A o \in DOMAIN orders \cap DOMAIN orders' :
                   orders'[o].user = orders[o].user
        PROVE  ReadersRely
    BY <1>2
  <1>3. ASSUME UNCHANGED att, DOMAIN payments' \subseteq DOMAIN payments,
               \A o \in DOMAIN orders \cap DOMAIN orders' :
                   orders'[o].user = orders[o].user
        PROVE  ReadersRely
    BY <1>3
  <1>4. ASSUME NEW u \in User, NEW o \in OrderId, NEW b \in Body, PostOrder(u, o, b)
        PROVE  ReadersRely
    BY <1>1, <1>3, <1>4 DEF PostOrder, CreateOrder, InsertRow, paymentVars, webhookVars
  <1>5. ASSUME NEW u \in User, NEW o \in OrderId, NEW b \in Body, PutOrder(u, o, b)
        PROVE  ReadersRely
    BY <1>1, <1>3, <1>5 DEF PutOrder, UpdateOrder, paymentVars, webhookVars,
                            OrdersTypeOK, OrderRow
  <1>6. ASSUME NEW u \in User, NEW o \in OrderId, RemoveOrder(u, o)
        PROVE  ReadersRely
    BY <1>1, <1>3, <1>6 DEF RemoveOrder, DeleteOrder, CascadeDelete, DeleteRows, Restrict,
                            webhookVars
  <1>7. ASSUME NEW u \in User, NEW o \in OrderId, NEW a \in Attempt, BeginAttempt(a, u, o)
        PROVE  ReadersRely
    <2>1. /\ a \notin DOMAIN att /\ DOMAIN att' = DOMAIN att \cup {a}
          /\ \A x \in DOMAIN att : att'[x] = att[x]
          /\ UNCHANGED <<orders, payments>>
      BY <1>7 DEF BeginAttempt, GetOrder, InsertRow, orderVars, webhookVars
    <2> QED
      BY <2>1
  <1>8. ASSUME NEW a \in Attempt, AttemptStep(a)
        PROVE  ReadersRely
    <2>1. CASE Charge(a)
      <3>1. /\ a \in DOMAIN att /\ att[a].pc # "done" /\ DOMAIN att' = DOMAIN att
            /\ \A x \in DOMAIN att : x # a => att'[x] = att[x]
            /\ UNCHANGED <<orders, payments>>
        BY <2>1 DEF Charge, orderVars
      <3> QED
        BY <1>2, <3>1
    <2>2. ASSUME NEW answered \in Answers, InsertPayment(a, answered)
          PROVE  ReadersRely
      <3>1. /\ a \in DOMAIN att /\ att[a].pc # "done"
            /\ DOMAIN payments' \subseteq DOMAIN payments \cup {a}
            /\ UNCHANGED orders
        BY <2>2 DEF InsertPayment, InsertRow, orderVars
      <3>2. /\ DOMAIN att' = DOMAIN att
            /\ \A x \in DOMAIN att : x # a => att'[x] = att[x]
        BY <1>1, <2>2, <3>1 DEF InsertPayment, Reply
      <3> QED
        BY <1>2, <3>1, <3>2
    <2>3. ASSUME NEW answered \in Answers, MarkOrder(a, answered)
          PROVE  ReadersRely
      <3>1. /\ a \in DOMAIN att /\ att[a].pc # "done" /\ DOMAIN att' = DOMAIN att
            /\ \A x \in DOMAIN att : x # a => att'[x] = att[x]
            /\ UNCHANGED payments
            /\ \A o \in DOMAIN orders : orders'[o].user = orders[o].user
        BY <1>1, <2>3, SetOrderStatusFacts DEF MarkOrder, Reply
      <3> QED
        BY <1>2, <3>1
    <2> QED
      BY <1>8, <2>1, <2>2, <2>3 DEF AttemptStep
  <1>9. ASSUME NEW d \in Slot, CallbackStep(d)
        PROVE  ReadersRely
    <2>1. ASSUME NEW answered \in Answers, UpdatePayment(d, answered)
          PROVE  ReadersRely
      <3>1. DOMAIN payments' = DOMAIN payments /\ UNCHANGED <<orders, att>>
        BY <2>1 DEF UpdatePayment, orderVars
      <3> QED
        BY <1>3, <3>1
    <2>2. ASSUME NEW answered \in Answers, AdvanceOrder(d, answered)
          PROVE  ReadersRely
      BY <1>1, <1>3, <2>2, SetOrderStatusFacts DEF AdvanceOrder, paymentVars
    <2> QED
      BY <1>9, <2>1, <2>2 DEF CallbackStep
  <1>10. CASE Fail
    <2>1. ASSUME NEW a \in Attempt, AttemptFails(a), UNCHANGED webhookVars
          PROVE  ReadersRely
      <3>1. /\ a \in DOMAIN att /\ att[a].pc # "done" /\ DOMAIN att' = DOMAIN att
            /\ \A x \in DOMAIN att : x # a => att'[x] = att[x]
            /\ UNCHANGED <<orders, payments>>
        BY <2>1 DEF AttemptFails, Reply, orderVars, webhookVars
      <3> QED
        BY <1>2, <3>1
    <2> QED
      BY <1>3, <1>10, <2>1 DEF Fail, CallbackFails, orderVars, paymentVars
  <1>11. CASE Restart
    BY <1>1, <1>11 DEF Restart, PaymentsRestart, WebhookRestart, orderVars
  <1>12. ASSUME NEW a \in Attempt, NEW w \in Verdict, Decide(a, w)
         PROVE  ReadersRely
    BY <1>3, <1>12 DEF Decide, ProviderDecides, orderVars, paymentVars
  <1>13. ASSUME NEW d \in Slot, NEW m \in Callbacks, NEW p \in Attempt, Receive(d, m, p)
         PROVE  ReadersRely
    BY <1>3, <1>13 DEF Receive, ReceiveCallback, orderVars, paymentVars
  <1>14. CASE UNCHANGED vars
    BY <1>3, <1>14 DEF vars
  <1> QED
    BY <1>4, <1>5, <1>6, <1>7, <1>8, <1>9, <1>10, <1>11, <1>12, <1>13, <1>14
    DEF Next, Wait

LEMMA EpochOnlyGrows ==
    ASSUME SafetyInv, [Next]_vars, epoch' = 0
    PROVE  epoch = 0
  BY DEF SafetyInv, TypeInv, TypeOK, Restart, Next, vars, PostOrder, PutOrder,
         RemoveOrder, BeginAttempt, AttemptStep, Decide, Receive, CallbackStep, Fail, Wait

-----------------------------------------------------------------------------
(* What is so of a GET, in flight or answered. *)

\* It is about a payment whose owner was told 201, so whose request is over.
AboutCreated(r) == /\ r.pay \in DOMAIN att
                   /\ att[r.pay].pc = "done" /\ att[r.pay].reply = "Created"

\* What it read of the row does not change.
KnowsItsOrder(r) == /\ r.pc = "own" => r.order = att[r.pay].order
                    /\ r.pc # "done" => r.reply = "none"

\* 404, now or before, means that the order is not the caller's for good.
DeniedForGood(r) ==
    r.seen = "gone" \/ r.reply = "PaymentNotFound" => ~Owns(r.user, att[r.pay].order)

\* A status that was read is the caller's to see.
Shows(r) == r.pc = "own" \/ r.reply = "OK"

\* A payment that was seen settled is settled.
SeenSettled(r) ==
    /\ /\ r.status \in Verdict \/ r.seen \in Verdict
       /\ r.pay \in DOMAIN payments
       => Settled(r.pay)
    /\ Shows(r) /\ r.seen \in Verdict => r.status \in Verdict
    /\ r.reply = "OK" => r.seen # "gone"

\* An outcome that was taken before is the payment's, and what it reads.
TakenStays(r) ==
    "conflict" \notin Env /\ epoch = 0 =>
        /\ \A w \in r.taken : r.pay \in DOMAIN payments => payments[r.pay].status = w
        /\ Shows(r) /\ r.taken # {} => r.status \in r.taken

Right(r) == /\ AboutCreated(r) /\ KnowsItsOrder(r) /\ DeniedForGood(r)
            /\ SeenSettled(r) /\ TakenStays(r)

ViewInv == /\ AgreementInv
           /\ TypeOKWithViews
           /\ \A v \in DOMAIN views : Right(views[v])

\* Whatever the others do, what is so of a GET stays so.
LEMMA WorldLeavesRight ==
    ASSUME AgreementInv, AgreementInv', [Next]_vars, NEW r \in ViewRecord, Right(r)
    PROVE  /\ Right(r)'
           /\ att'[r.pay] = att[r.pay]
  <1>1. /\ SafetyInv /\ SafetyInv'
        /\ AboutCreated(r) /\ KnowsItsOrder(r) /\ DeniedForGood(r)
        /\ SeenSettled(r) /\ TakenStays(r)
    BY DEF AgreementInv, VerdictInv, Right
  <1>2. /\ r.pay \in DOMAIN att' /\ att'[r.pay] = att[r.pay]
        /\ r.pay \in DOMAIN payments' => r.pay \in DOMAIN payments
    BY <1>1, StepLetsReadersRely DEF ReadersRely, AboutCreated
  <1>3. /\ r.pay \in DOMAIN payments' /\ Settled(r.pay) => payments'[r.pay].status # "pending"
        /\ DOMAIN orders' \cap drawn \subseteq DOMAIN orders
        /\ \A o \in DOMAIN orders \cap DOMAIN orders' : orders'[o].user = orders[o].user
    BY <1>1, <1>2, StepReopensNothing, StepLetsReadersRely DEF NoStepReopens, ReadersRely
  <1>4. AboutCreated(r)' /\ KnowsItsOrder(r)'
    BY <1>1, <1>2 DEF AboutCreated, KnowsItsOrder
  <1>5. DeniedForGood(r)'
    <2>1. att[r.pay].order \in drawn
      BY <1>1 DEF AboutCreated, SafetyInv, InFlight, ReplyKnowsOrder
    <2> QED
      BY <1>1, <1>2, <1>3, <2>1 DEF DeniedForGood, Owns
  <1>6. SeenSettled(r)'
    BY <1>1, <1>2, <1>3 DEF SeenSettled, Settled, Shows
  <1>7. TakenStays(r)'
    <2> SUFFICES ASSUME "conflict" \notin Env, epoch' = 0,
                        NEW w \in r.taken, r.pay \in DOMAIN payments'
                 PROVE  payments'[r.pay].status = w /\ epoch = 0
      <3>1. ASSUME "conflict" \notin Env, epoch' = 0
            PROVE  epoch = 0
        BY <1>1, <3>1, EpochOnlyGrows
      <3> QED
        BY <1>1, <3>1 DEF TakenStays, Shows
    <2>1. epoch = 0
      BY <1>1, EpochOnlyGrows
    <2>2. payments[r.pay].status = w /\ w # "pending"
      BY <1>1, <1>2, <2>1 DEF TakenStays, ViewRecord, Verdict
    <2> QED
      BY <1>2, <2>1, <2>2, OutcomeStays DEF Settled, OutcomesStand
  <1> QED
    BY <1>2, <1>4, <1>5, <1>6, <1>7 DEF Right

\* A step of one GET: the others stay right because nothing else changes.
LEMMA OneViewChanges ==
    ASSUME ViewInv, UNCHANGED vars, NEW v \in View, NEW r \in ViewRecord, Right(r),
           DOMAIN views' = DOMAIN views \cup {v}, views'[v] = r,
           \A w \in DOMAIN views : w # v => views'[w] = views[w]
    PROVE  ViewInv'
  <1>1. AgreementInv /\ AgreementInv' /\ TypeOK' /\ [Next]_vars
    BY AgreementStep DEF ViewInv, AgreementInv, VerdictInv, SafetyInv, TypeInv
  <1>2. TypeOKWithViews'
    BY <1>1 DEF ViewInv, TypeOKWithViews
  <1>3. ASSUME NEW w \in DOMAIN views'
        PROVE  Right(views[w])'
    <2>1. PICK x \in ViewRecord : x = views'[w] /\ Right(x)
      BY DEF ViewInv, TypeOKWithViews
    <2>2. Right(x)'
      BY <1>1, <2>1, WorldLeavesRight
    <2> QED
      BY <2>1, <2>2
  <1> QED
    BY <1>1, <1>2, <1>3 DEF ViewInv

LEMMA BeginViewRight ==
    ASSUME ViewInv, NEW v \in View, NEW u \in User, NEW p \in Attempt, BeginView(v, u, p)
    PROVE  ViewInv'
  <1> DEFINE taken == {dlv[d].status : d \in {d \in DOMAIN dlv :
                           dlv[d].pay = p /\ dlv[d].reply = "OK"}}
             knows == IF v \in DOMAIN views THEN Knows(v) ELSE "nothing"
             begun == [pc |-> "read", user |-> u, pay |-> p, order |-> att[p].order,
                       status |-> "pending", reply |-> "none",
                       seen |-> knows, taken |-> taken]
  <1>1. /\ AgreementInv /\ SafetyInv /\ WebhookTypeOK /\ TypeOKWithViews
        /\ p \in DOMAIN att /\ att[p] \in AttemptRecord /\ att[p].reply = "Created"
    BY DEF ViewInv, AgreementInv, VerdictInv, SafetyInv, TypeInv, TypeOK, PaymentsTypeOK,
           BeginView
  <1>2. att[p].pc = "done"
    BY <1>1 DEF SafetyInv, InFlight, RequestOwnsOrder
  <1>3. taken \in SUBSET Verdict
    BY <1>1 DEF WebhookTypeOK, CallbackRecord
  <1>4. v \in DOMAIN views =>
            /\ views[v].user = u /\ views[v].pay = p
            /\ views[v] \in ViewRecord /\ Right(views[v])
    BY DEF BeginView, ViewInv, TypeOKWithViews
  <1>5. /\ knows \in PaymentStatus \cup {"nothing", "gone"}
        /\ knows = "gone" => ~Owns(u, att[p].order)
        /\ knows \in Verdict /\ p \in DOMAIN payments => Settled(p)
    BY <1>4 DEF Knows, ViewRecord, Right, DeniedForGood, SeenSettled, PaymentStatus, Verdict
  <1>6. "conflict" \notin Env /\ epoch = 0 =>
            \A w \in taken : p \in DOMAIN payments => payments[p].status = w
    BY <1>1, RepliesAgree DEF TruthfulCallbackReplies
  <1> HIDE DEF taken, knows
  <1>7. begun \in ViewRecord
    BY <1>1, <1>3, <1>5 DEF ViewRecord, AttemptRecord, PaymentStatus
  <1>8. Right(begun)
    BY <1>1, <1>2, <1>5, <1>6
    DEF Right, AboutCreated, KnowsItsOrder, DeniedForGood, SeenSettled, TakenStays, Shows,
        Verdict
  <1>9. views' = InsertRow(views, v, begun) /\ UNCHANGED vars
    BY DEF BeginView, taken, knows
  <1>10. PICK r \in ViewRecord : r = begun
    BY <1>7
  <1>11. /\ DOMAIN views' = DOMAIN views \cup {v} /\ views'[v] = r
         /\ \A w \in DOMAIN views : w # v => views'[w] = views[w]
    BY <1>9, <1>10 DEF InsertRow
  <1> QED
    BY <1>8, <1>9, <1>10, <1>11, OneViewChanges

\* The three steps a GET in flight may take change its own record alone.
LEMMA ViewAnswered ==
    ASSUME ViewInv, NEW v \in View, v \in DOMAIN views,
           NEW a \in {"OK", "PaymentNotFound", "InternalError"}, ReplyView(v, a)
    PROVE  /\ DOMAIN views' = DOMAIN views
           /\ \A w \in DOMAIN views : w # v => views'[w] = views[w]
           /\ views'[v] \in ViewRecord
           /\ views'[v].pc = "done" /\ views'[v].reply = a
           /\ views'[v].user = views[v].user /\ views'[v].pay = views[v].pay
           /\ views'[v].order = views[v].order /\ views'[v].status = views[v].status
           /\ views'[v].seen = views[v].seen /\ views'[v].taken = views[v].taken
  <1>1. views[v] \in ViewRecord
    BY DEF ViewInv, TypeOKWithViews
  <1> QED
    BY <1>1 DEF ReplyView, ViewRecord

LEMMA ReadPaymentRight ==
    ASSUME ViewInv, NEW v \in View, ReadPayment(v)
    PROVE  ViewInv'
  <1>1. /\ v \in DOMAIN views /\ views[v].pc = "read" /\ UNCHANGED vars
        /\ views[v] \in ViewRecord /\ Right(views[v]) /\ views[v].reply = "none"
    BY DEF ReadPayment, ViewInv, TypeOKWithViews, Right, KnowsItsOrder
  <1>2. AgreementInv /\ SafetyInv /\ PaymentsTypeOK
    BY DEF ViewInv, AgreementInv, VerdictInv, SafetyInv, TypeInv, TypeOK
  <1>3. CASE views[v].pay \notin DOMAIN payments
    <2>1. ReplyView(v, "PaymentNotFound")
      BY <1>3 DEF ReadPayment
    <2>2. PICK r \in ViewRecord : r = views'[v]
      BY <1>1, <2>1, ViewAnswered
    <2>3. ~Owns(r.user, att[r.pay].order)
      BY <1>1, <1>2, <1>3, <2>1, <2>2, ViewAnswered
      DEF Right, AboutCreated, SafetyInv, Promises, TruthfulAttemptReplies, Exists, Owns
    <2>4. Right(r)
      BY <1>1, <2>1, <2>2, <2>3, ViewAnswered
      DEF Right, AboutCreated, KnowsItsOrder, DeniedForGood, SeenSettled, TakenStays, Shows
    <2> QED
      BY <1>1, <2>1, <2>2, <2>4, ViewAnswered, OneViewChanges
  <1>4. CASE views[v].pay \in DOMAIN payments
    <2> DEFINE p == views[v].pay
    <2>1. views' = [views EXCEPT ![v].pc = "own", ![v].status = payments[p].status,
                                 ![v].order = payments[p].order]
      BY <1>4 DEF ReadPayment
    <2>2. payments[p] \in PaymentRow /\ payments[p].order = att[p].order
      BY <1>2, <1>4 DEF PaymentsTypeOK, SafetyInv, Promises, PaymentHasOwnersOrder
    <2>3. /\ DOMAIN views' = DOMAIN views
          /\ \A w \in DOMAIN views : w # v => views'[w] = views[w]
          /\ views'[v] \in ViewRecord
          /\ views'[v].pc = "own" /\ views'[v].reply = "none"
          /\ views'[v].user = views[v].user /\ views'[v].pay = p
          /\ views'[v].order = att[p].order /\ views'[v].status = payments[p].status
          /\ views'[v].seen = views[v].seen /\ views'[v].taken = views[v].taken
      BY <1>1, <2>1, <2>2 DEF ViewRecord, PaymentRow
    <2>4. PICK r \in ViewRecord : r = views'[v]
      BY <2>3
    <2>5. /\ AboutCreated(r) /\ KnowsItsOrder(r) /\ DeniedForGood(r)
          /\ TakenStays(r)
      BY <1>1, <1>4, <2>3, <2>4
      DEF Right, AboutCreated, KnowsItsOrder, DeniedForGood, TakenStays, Shows
    <2>6. SeenSettled(r)
      BY <1>1, <1>4, <2>2, <2>3, <2>4
      DEF Right, SeenSettled, Settled, PaymentRow, PaymentStatus, Verdict
    <2> QED
      BY <1>1, <2>3, <2>4, <2>5, <2>6, OneViewChanges DEF Right
  <1> QED
    BY <1>3, <1>4

LEMMA CheckOrderRight ==
    ASSUME ViewInv, NEW v \in View, CheckOrder(v)
    PROVE  ViewInv'
  <1>1. /\ v \in DOMAIN views /\ views[v].pc = "own" /\ UNCHANGED vars
        /\ Right(views[v]) /\ views[v].reply = "none"
        /\ views[v].order = att[views[v].pay].order
    BY DEF CheckOrder, ViewInv, Right, KnowsItsOrder
  <1>2. PICK a \in {"OK", "PaymentNotFound"} :
            /\ ReplyView(v, a)
            /\ a = "OK" <=> Owns(views[v].user, views[v].order)
    BY DEF CheckOrder
  <1>3. PICK r \in ViewRecord : r = views'[v]
    BY <1>1, <1>2, ViewAnswered
  <1>4. Right(r)
    BY <1>1, <1>2, <1>3, ViewAnswered
    DEF Right, AboutCreated, KnowsItsOrder, DeniedForGood, SeenSettled, TakenStays, Shows
  <1> QED
    BY <1>1, <1>2, <1>3, <1>4, ViewAnswered, OneViewChanges

LEMMA ViewFailsRight ==
    ASSUME ViewInv, NEW v \in View, ViewFails(v)
    PROVE  ViewInv'
  <1>1. /\ v \in DOMAIN views /\ views[v].pc # "done" /\ UNCHANGED vars
        /\ Right(views[v]) /\ ReplyView(v, "InternalError")
    BY DEF ViewFails, ViewInv
  <1>2. PICK r \in ViewRecord : r = views'[v]
    BY <1>1, ViewAnswered
  <1>3. Right(r)
    BY <1>1, <1>2, ViewAnswered
    DEF Right, AboutCreated, KnowsItsOrder, DeniedForGood, SeenSettled, TakenStays, Shows
  <1> QED
    BY <1>1, <1>2, <1>3, ViewAnswered, OneViewChanges

\* A restart ends the GETs in flight; another step leaves them all alone.
LEMMA WorldStepRight ==
    ASSUME ViewInv, [Next]_vars,
           \/ UNCHANGED views
           \/ ViewsRestart /\ epoch' # 0
    PROVE  ViewInv'
  <1>1. AgreementInv /\ AgreementInv' /\ TypeOK'
    BY AgreementStep DEF ViewInv, AgreementInv, VerdictInv, SafetyInv, TypeInv
  <1>2. DOMAIN views' = DOMAIN views
    BY DEF ViewsRestart
  <1>3. ASSUME NEW v \in DOMAIN views
        PROVE  views'[v] \in ViewRecord /\ Right(views[v])'
    <2>1. PICK x \in ViewRecord : x = views[v] /\ Right(x)
      BY DEF ViewInv, TypeOKWithViews
    <2>2. Right(x)'
      BY <1>1, <2>1, WorldLeavesRight
    <2>3. CASE views'[v] = x
      BY <2>2, <2>3
    <2>4. ASSUME views'[v] # x
          PROVE  views'[v] \in ViewRecord /\ Right(views[v])'
      <3>1. epoch' # 0 /\ views'[v] = [x EXCEPT !.pc = "done", !.reply = "NoReply"]
        BY <2>1, <2>4 DEF ViewsRestart
      <3>2. /\ views'[v] \in ViewRecord
            /\ views'[v].pc = "done" /\ views'[v].reply = "NoReply"
            /\ views'[v].user = x.user /\ views'[v].pay = x.pay
            /\ views'[v].status = x.status /\ views'[v].seen = x.seen
        BY <3>1 DEF ViewRecord
      <3> QED
        BY <2>2, <3>1, <3>2
        DEF Right, AboutCreated, KnowsItsOrder, DeniedForGood, SeenSettled, TakenStays,
            Shows
    <2> QED
      BY <2>3, <2>4
  <1> QED
    BY <1>1, <1>2, <1>3 DEF ViewInv, TypeOKWithViews

LEMMA ViewInit == InitWithViews => ViewInv
  <1> SUFFICES ASSUME InitWithViews
               PROVE  ViewInv
    OBVIOUS
  <1>1. AgreementInv /\ TypeOK
    BY AgreementInit DEF InitWithViews, AgreementInv, VerdictInv, SafetyInv, TypeInv
  <1> QED
    BY <1>1 DEF InitWithViews, ViewInv, TypeOKWithViews, EmptyTable

LEMMA ViewStep == ViewInv /\ [NextWithViews]_viewVars => ViewInv'
  <1> SUFFICES ASSUME ViewInv, [NextWithViews]_viewVars
               PROVE  ViewInv'
    OBVIOUS
  <1>1. CASE Restart /\ ViewsRestart
    <2>1. [Next]_vars /\ epoch' # 0
      BY <1>1 DEF Next, Restart, ViewInv, TypeOKWithViews, TypeOK
    <2> QED
      BY <1>1, <2>1, WorldStepRight
  <1>2. CASE Next /\ epoch' = epoch /\ UNCHANGED views
    BY <1>2, WorldStepRight
  <1>3. CASE UNCHANGED viewVars
    BY <1>3, WorldStepRight DEF viewVars
  <1> QED
    BY <1>1, <1>2, <1>3, BeginViewRight, ReadPaymentRight, CheckOrderRight, ViewFailsRight
    DEF NextWithViews

LEMMA ViewInvariant == SpecWithViews => []ViewInv
  BY ViewInit, ViewStep, PTL DEF SpecWithViews

\* The GETs and all else keep their types.
THEOREM ViewTypeCorrect == SpecWithViews => []TypeOKWithViews
  <1>1. ViewInv => TypeOKWithViews
    BY DEF ViewInv
  <1> QED
    BY <1>1, ViewInvariant, PTL

\* After a 201 its owner gets 404 only when the order, and with it the payment,
\* was deleted: the two reads of Get, with anything in between, invent no loss.
THEOREM NotFoundIsFinal == SpecWithViews => []NotFoundMeansGone
  <1>1. ASSUME ViewInv
        PROVE  NotFoundMeansGone
    <2> SUFFICES ASSUME NEW v \in DOMAIN views, views[v].reply = "PaymentNotFound",
                        att[views[v].pay].user = views[v].user
                 PROVE  /\ views[v].pay \notin DOMAIN payments
                        /\ ~Exists(att[views[v].pay].order)
      BY DEF NotFoundMeansGone
    <2> DEFINE p == views[v].pay
    <2>1. /\ p \in DOMAIN att /\ att[p].reply = "Created"
          /\ ~Owns(att[p].user, att[p].order) /\ Promises
      BY <1>1 DEF ViewInv, AgreementInv, VerdictInv, SafetyInv, Right, AboutCreated,
                  DeniedForGood
    <2>2. p \notin DOMAIN payments
      BY <2>1 DEF Promises, PaymentHasOwnersOrder
    <2> QED
      BY <2>1, <2>2 DEF Promises, TruthfulAttemptReplies
  <1> QED
    BY <1>1, ViewInvariant, PTL

\* GETs of one client never show an older state than the ones before them.
THEOREM ReadsAreMonotonic == SpecWithViews => []ReadsNeverGoBack
  <1>1. ViewInv => ReadsNeverGoBack
    BY DEF ViewInv, Right, SeenSettled, Shows, ReadsNeverGoBack
  <1> QED
    BY <1>1, ViewInvariant, PTL

\* A GET that begins after a callback was answered with 200 shows its outcome.
THEOREM OutcomesAreShown == SpecWithViews => []TakenOutcomeIsShown
  <1>1. ViewInv => TakenOutcomeIsShown
    BY DEF ViewInv, Right, TakenStays, Shows, TakenOutcomeIsShown
  <1> QED
    BY <1>1, ViewInvariant, PTL

\* 200 shows a payment that is still there, to its owner only: Get's second
\* read makes up for the time since the first.
THEOREM OnlyOwnersSee == SpecWithViews => ShownToOwner
  <1> DEFINE A == \A v \in DOMAIN views :
                     views[v].pc = "own" /\ views'[v].reply = "OK" =>
                         /\ views[v].pay \in DOMAIN payments
                         /\ att[views[v].pay].user = views[v].user
  <1>1. ASSUME ViewInv, [NextWithViews]_viewVars
        PROVE  [A]_viewVars
    <2> SUFFICES ASSUME NEW v \in DOMAIN views, views[v].pc = "own",
                        views'[v].reply = "OK"
                 PROVE  /\ views[v].pay \in DOMAIN payments
                        /\ att[views[v].pay].user = views[v].user
      OBVIOUS
    <2>1. /\ Right(views[v]) /\ v \in View /\ views[v] \in ViewRecord
          /\ views[v].reply = "none" /\ views[v].order = att[views[v].pay].order
          /\ Promises /\ PaymentsTypeOK /\ OrdersTypeOK
      BY <1>1 DEF ViewInv, AgreementInv, VerdictInv, SafetyInv, TypeInv, TypeOK,
                  TypeOKWithViews, Right, KnowsItsOrder
    <2>2. Owns(views[v].user, views[v].order)
      <3>1. ASSUME NEW w \in View,
                   \/ \E u \in User, p \in Attempt : BeginView(w, u, p)
                   \/ ReadPayment(w)
                   \/ ViewFails(w)
            PROVE  FALSE
        <4>1. CASE w = v
          <5>1. ViewFails(v)
            BY <3>1, <4>1 DEF BeginView, ReadPayment
          <5> QED
            BY <1>1, <2>1, <5>1, ViewAnswered DEF ViewFails
        <4>2. CASE w # v
          <5>1. views'[v] = views[v]
            BY <3>1, <4>2 DEF BeginView, InsertRow, ReadPayment, ViewFails, ReplyView
          <5> QED
            BY <2>1, <5>1
        <4> QED
          BY <4>1, <4>2
      <3>2. ASSUME NEW w \in View, CheckOrder(w)
            PROVE  w = v
        BY <2>1, <3>2 DEF CheckOrder, ReplyView
      <3>3. ASSUME CheckOrder(v), ~Owns(views[v].user, views[v].order)
            PROVE  FALSE
        BY <1>1, <2>1, <3>3, ViewAnswered DEF CheckOrder
      <3>4. CASE ViewsRestart
        BY <2>1, <3>4 DEF ViewsRestart, ViewRecord
      <3> QED
        BY <1>1, <2>1, <3>1, <3>2, <3>3, <3>4 DEF NextWithViews, viewVars
    <2>3. views[v].pay \in DOMAIN payments
      BY <2>1, <2>2 DEF Right, AboutCreated, Promises, TruthfulAttemptReplies, Exists, Owns
    <2> QED
      BY <2>1, <2>2, <2>3 DEF Promises, PaymentHasOwnersOrder, Owns
  <1> QED
    BY <1>1, ViewInit, ViewStep, PTL DEF SpecWithViews, ShownToOwner
=============================================================================
