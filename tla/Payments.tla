------------------------------ MODULE Payments ------------------------------
(***************************************************************************)
(* The payment component: POST /payments, its table and the mock gateway.  *)
(*                                                                         *)
(* The handler runs in a goroutine of its own, holds no lock and opens no  *)
(* transaction, so each SQL statement and each gateway call is a step and  *)
(* other requests run in between.  A request's local variables are its     *)
(* record in att; what the handler computes between two calls belongs to   *)
(* the step before.                                                        *)
(*                                                                         *)
(* A statement the database refuses, and one whose context the client's    *)
(* disconnect cancelled, is not applied; a statement may also be applied   *)
(* and its answer lost.  The handler cannot tell the two apart.            *)
(***************************************************************************)
EXTENDS Orders

CONSTANTS
    Attempt,   \* the POST /payments requests of a behaviour
    Env        \* what the environment may do (see OrderPayment)

VARIABLES
    payments,  \* the table; a row's primary key is the request that made it
    counter,   \* MockGateway.counter, in the memory of the process
    att        \* the requests begun so far, finished ones included

paymentVars == <<payments, counter, att>>

PaymentStatus == {"pending", "paid", "failed"}

PaymentRow == [order  : OrderId,
               ref    : Nat \ {0},
               amount : PositiveColumn,
               status : PaymentStatus]

AttemptReply == {"none", "Created", "OrderNotFound", "OrderNotPayable",
                 "InvalidAmount", "DuplicatePayment", "InternalError",
                 "NoReply"}

\* ref is the number in PAY-%06d; 0 until the gateway was called.
AttemptRecord == [pc     : {"charge", "insert", "mark", "done"},
                  user   : User,
                  order  : OrderId,
                  amount : Nat,
                  ref    : Nat,
                  reply  : AttemptReply]

PaymentsTypeOK ==
    /\ DOMAIN att \subseteq Attempt
    /\ \A a \in DOMAIN att : att[a] \in AttemptRecord
    /\ DOMAIN payments \subseteq DOMAIN att
    /\ \A p \in DOMAIN payments : payments[p] \in PaymentRow
    /\ counter \in Nat

PaymentsInit == /\ payments = EmptyTable
                /\ counter = 0
                /\ att = EmptyTable

\* Whether the answer to a statement arrives.
Answers == IF "fault" \in Env THEN BOOLEAN ELSE {TRUE}

Reply(a, r) == att' = [att EXCEPT ![a].pc = "done", ![a].reply = r]

-----------------------------------------------------------------------------
(* Service.Create, one call after the other. *)

\* orders.Get, then the payable check and the amount.
GetOrder(a, u, o) ==
    LET amount == orders[o].quantity * orders[o].price
        begun(pc, n, r) ==
            att' = InsertRow(att, a, [pc |-> pc, user |-> u, order |-> o,
                                      amount |-> n, ref |-> 0, reply |-> r])
    IN  /\ a \notin DOMAIN att
        /\ \/ /\ ~Owns(u, o)
              /\ begun("done", 0, "OrderNotFound")
           \/ /\ Owns(u, o)
              /\ orders[o].status # "pending"
              /\ begun("done", 0, "OrderNotPayable")
           \/ /\ Owns(u, o)
              /\ orders[o].status = "pending"
              /\ amount <= 0
              /\ begun("done", 0, "InvalidAmount")
           \/ /\ Owns(u, o)
              /\ orders[o].status = "pending"
              /\ amount > 0
              /\ begun("charge", amount, "none")
        /\ UNCHANGED <<orderVars, payments, counter>>

\* Mutant: without the mutex the increment of another request is lost.
ChargeRacing(a) ==
    /\ a \in DOMAIN att /\ att[a].pc = "charge"
    /\ counter' \in {counter, counter + 1}
    /\ att' = [att EXCEPT ![a].pc = "insert", ![a].ref = counter + 1]
    /\ UNCHANGED <<orderVars, payments>>

\* gateway.CreatePayment: under the gateway's mutex the counter advances and
\* its new value becomes the reference.
Charge(a) ==
    /\ a \in DOMAIN att /\ att[a].pc = "charge"
    /\ counter' = counter + 1
    /\ att' = [att EXCEPT ![a].pc = "insert", ![a].ref = counter + 1]
    /\ UNCHANGED <<orderVars, payments>>

\* Mutant: the amount is taken from the order as it is now.
NewPaymentRereading(a) ==
    [order  |-> att[a].order,
     ref    |-> att[a].ref,
     amount |-> IF att[a].order \notin DOMAIN orders THEN 1
                ELSE ToColumn(orders[att[a].order].quantity
                              * orders[att[a].order].price),
     status |-> "pending"]

\* The row Create builds: the amount it computed from the order it read.
NewPayment(a) == [order  |-> att[a].order,
                  ref    |-> att[a].ref,
                  amount |-> ToColumn(att[a].amount),
                  status |-> "pending"]

\* Mutant: no UNIQUE (order_id).
InsertOutcomeNotUnique(a) ==
    IF att[a].order \notin DOMAIN orders THEN "InternalError" ELSE "inserted"

\* Mutant: no CHECK (amount > 0) and no limit of precision.
InsertOutcomeUnchecked(a) ==
    IF \E p \in DOMAIN payments : payments[p].order = att[a].order
    THEN "DuplicatePayment" ELSE "inserted"

\* What PostgreSQL says of the INSERT: the row's own constraints first, then
\* UNIQUE (order_id), then the foreign key.
InsertOutcome(a) ==
    IF NewPayment(a).amount \notin PositiveColumn THEN "InternalError"
    ELSE IF \E p \in DOMAIN payments : payments[p].order = att[a].order
         THEN "DuplicatePayment"
    ELSE IF att[a].order \notin DOMAIN orders THEN "InternalError"
    ELSE "inserted"

InsertPayment(a, answered) ==
    /\ a \in DOMAIN att /\ att[a].pc = "insert"
    /\ \/ /\ InsertOutcome(a) # "inserted"
          /\ answered
          /\ Reply(a, InsertOutcome(a))
          /\ UNCHANGED payments
       \/ /\ InsertOutcome(a) = "inserted"
          /\ payments' = InsertRow(payments, a, NewPayment(a))
          /\ IF answered THEN att' = [att EXCEPT ![a].pc = "mark"]
                         ELSE Reply(a, "InternalError")
    /\ UNCHANGED <<orderVars, counter>>

\* orders.UpdateStatus: the WHERE clause asks for owner and id, not for the
\* status that was read in the first step.
MarkOrder(a, answered) ==
    LET hit == {o \in {att[a].order} : Owns(att[a].user, o)}
    IN  /\ a \in DOMAIN att /\ att[a].pc = "mark"
        /\ SetOrderStatus(hit, "pending_payment")
        /\ Reply(a, IF hit # {} /\ answered THEN "Created"
                                            ELSE "InternalError")
        /\ UNCHANGED <<drawn, payments, counter>>

\* Mutant: an error is answered with 201.
AttemptFailsSilently(a) ==
    /\ "fault" \in Env
    /\ a \in DOMAIN att /\ att[a].pc # "done"
    /\ Reply(a, "Created")
    /\ UNCHANGED <<orderVars, payments, counter>>

\* The pending call returns an error and was not applied.  (The mock gateway
\* never refuses; the PaymentGateway interface may, and Create handles it.)
AttemptFails(a) ==
    /\ "fault" \in Env
    /\ a \in DOMAIN att /\ att[a].pc # "done"
    /\ Reply(a, "InternalError")
    /\ UNCHANGED <<orderVars, payments, counter>>

-----------------------------------------------------------------------------
(* What other components do to this one. *)

\* Mutant: the foreign key does not cascade and is not enforced.
CascadeNothing(o) == UNCHANGED payments

\* ON DELETE CASCADE of payments.order_id.
CascadeDelete(o) ==
    payments' = DeleteRows(payments,
                    {p \in DOMAIN payments : payments[p].order = o})

\* The process stops: requests in flight end without a reply, and the new
\* process counts from the start.
PaymentsRestart ==
    /\ counter' = 0
    /\ att' = [a \in DOMAIN att |->
                  IF att[a].pc = "done" THEN att[a]
                  ELSE [att[a] EXCEPT !.pc = "done", !.reply = "NoReply"]]
    /\ UNCHANGED payments
=============================================================================
