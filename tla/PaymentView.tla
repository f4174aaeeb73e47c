----------------------------- MODULE PaymentView ----------------------------
(***************************************************************************)
(* GET /payments/:id beside everything else: payment.Service.Get reads the *)
(* payment and then, to find out whether it is the caller's, the order.    *)
(* Callbacks, deletions and a restart may come before, between and after.  *)
(*                                                                         *)
(* A GET may fail at any step, as when its client goes away: it writes     *)
(* nothing, so nobody else notices.                                        *)
(***************************************************************************)
EXTENDS OrderPayment

CONSTANTS
    View   \* the clients that look at a payment, again and again

VARIABLES
    views  \* the GET that each of them has in flight, or had last

viewVars == <<vars, views>>

\* order and status are what the first statement read.  History: what the
\* GETs before had found out, and the outcomes that callbacks on the payment
\* had been told are taken when this one began.
ViewRecord == [pc     : {"read", "own", "done"},
               user   : User,
               pay    : Attempt,
               order  : OrderId,
               status : PaymentStatus,
               reply  : {"none", "OK", "PaymentNotFound", "InternalError", "NoReply"},
               seen   : PaymentStatus \cup {"nothing", "gone"},
               taken  : SUBSET Verdict]

TypeOKWithViews == /\ TypeOK
                   /\ DOMAIN views \subseteq View
                   /\ \A v \in DOMAIN views : views[v] \in ViewRecord

InitWithViews == Init /\ views = EmptyTable

\* What a client knows after his last GET.
Knows(v) == CASE views[v].reply = "OK" -> views[v].status
              [] views[v].reply = "PaymentNotFound" -> "gone"
              [] OTHER -> views[v].seen

\* Only 201 tells anybody the id of a payment; whom its owner tells is open.
BeginView(v, u, p) ==
    /\ p \in DOMAIN att /\ att[p].reply = "Created"
    /\ v \in DOMAIN views =>
          views[v].pc = "done" /\ views[v].user = u /\ views[v].pay = p
    /\ views' = InsertRow(views, v,
           [pc |-> "read", user |-> u, pay |-> p, order |-> att[p].order,
            status |-> "pending", reply |-> "none",
            seen   |-> IF v \in DOMAIN views THEN Knows(v) ELSE "nothing",
            taken  |-> {dlv[d].status : d \in {d \in DOMAIN dlv :
                            dlv[d].pay = p /\ dlv[d].reply = "OK"}}])
    /\ UNCHANGED vars

ReplyView(v, r) == views' = [views EXCEPT ![v].pc = "done", ![v].reply = r]

\* Mutant: the row may come from a copy made when the payment was.
ReadPaymentCached(v) ==
    LET p == views[v].pay
    IN  /\ v \in DOMAIN views /\ views[v].pc = "read"
        /\ \/ /\ p \notin DOMAIN payments
              /\ ReplyView(v, "PaymentNotFound")
           \/ /\ p \in DOMAIN payments
              /\ \E s \in {"pending", payments[p].status} :
                    views' = [views EXCEPT ![v].pc = "own", ![v].status = s,
                                           ![v].order = payments[p].order]
        /\ UNCHANGED vars

\* repo.GetByID.
ReadPayment(v) ==
    LET p == views[v].pay
    IN  /\ v \in DOMAIN views /\ views[v].pc = "read"
        /\ \/ /\ p \notin DOMAIN payments
              /\ ReplyView(v, "PaymentNotFound")
           \/ /\ p \in DOMAIN payments
              /\ views' = [views EXCEPT ![v].pc = "own",
                                        ![v].status = payments[p].status,
                                        ![v].order = payments[p].order]
        /\ UNCHANGED vars

\* Mutant: the order is looked up by id alone.
CheckOrderOfAnybody(v) ==
    /\ v \in DOMAIN views /\ views[v].pc = "own"
    /\ ReplyView(v, IF Exists(views[v].order) THEN "OK" ELSE "PaymentNotFound")
    /\ UNCHANGED vars

\* orders.Get; an order that is not the caller's hides the payment.
CheckOrder(v) ==
    /\ v \in DOMAIN views /\ views[v].pc = "own"
    /\ ReplyView(v, IF Owns(views[v].user, views[v].order) THEN "OK"
                                                           ELSE "PaymentNotFound")
    /\ UNCHANGED vars

ViewFails(v) == /\ v \in DOMAIN views /\ views[v].pc # "done"
                /\ ReplyView(v, "InternalError")
                /\ UNCHANGED vars

ViewsRestart ==
    views' = [v \in DOMAIN views |->
                 IF views[v].pc = "done" THEN views[v]
                 ELSE [views[v] EXCEPT !.pc = "done", !.reply = "NoReply"]]

NextWithViews ==
    \/ \E v \in View : \/ \E u \in User, p \in Attempt : BeginView(v, u, p)
                       \/ ReadPayment(v) \/ CheckOrder(v) \/ ViewFails(v)
    \/ Restart /\ ViewsRestart
    \/ Next /\ epoch' = epoch /\ UNCHANGED views

SpecWithViews == InitWithViews /\ [][NextWithViews]_viewVars

-----------------------------------------------------------------------------
(* Safety. *)

\* When a GET answers 200, the payment it shows has not been deleted since it
\* was read, and its order is the caller's.
ShownToOwner ==
    [][\A v \in DOMAIN views :
          views[v].pc = "own" /\ views'[v].reply = "OK" =>
              /\ views[v].pay \in DOMAIN payments
              /\ att[views[v].pay].user = views[v].user]_viewVars

\* Once he has his 201, the owner is told 404 only if his order was deleted,
\* and then the payment has gone with it.
NotFoundMeansGone ==
    \A v \in DOMAIN views :
        views[v].reply = "PaymentNotFound" /\ att[views[v].pay].user = views[v].user =>
            views[v].pay \notin DOMAIN payments /\ ~Exists(att[views[v].pay].order)

\* Of two GETs of a client one after the other the second does not show an
\* older state: neither pending after an outcome, nor anything after 404.
ReadsNeverGoBack ==
    \A v \in DOMAIN views :
        views[v].reply = "OK" =>
            /\ views[v].seen # "gone"
            /\ views[v].seen \in Verdict => views[v].status \in Verdict

\* An outcome whose callback was answered with 200 is what a later GET shows.
TakenOutcomeIsShown ==
    "conflict" \notin Env /\ epoch = 0 =>
        \A v \in DOMAIN views :
            views[v].reply = "OK" /\ views[v].taken # {} =>
                views[v].status \in views[v].taken
=============================================================================
