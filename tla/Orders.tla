------------------------------- MODULE Orders -------------------------------
(***************************************************************************)
(* The order component: the table `orders`, its repository statements and  *)
(* the CRUD requests built from one statement each.  A request that a      *)
(* validator or a CHECK constraint turns away changes nothing, so only the *)
(* accepted ones are actions; a reply that is lost after the statement     *)
(* committed is the same step on this state.                               *)
(***************************************************************************)
EXTENDS Tables, Numeric

CONSTANTS
    User,      \* the authenticated callers
    OrderId,   \* the UUIDs gen_random_uuid() may draw
    Body       \* the request bodies of POST and PUT on orders

\* A body carries a symbol and a side, which matter only through their
\* validators (wellFormed), and two decimals in program units.
ASSUME BodyAssumption ==
    \A b \in Body : /\ b.wellFormed \in BOOLEAN
                    /\ b.quantity \in Int
                    /\ b.price \in Int

VARIABLES
    orders,   \* the table: rows by order id
    drawn     \* history: every id that was ever given to an order

orderVars == <<orders, drawn>>

OrderStatus == {"pending", "pending_payment", "paid", "payment_failed"}

OrderRow == [user     : User,
             quantity : PositiveColumn,
             price    : NonNegativeColumn,
             status   : OrderStatus]

OrdersTypeOK == /\ drawn \subseteq OrderId
                /\ DOMAIN orders \subseteq drawn
                /\ \A o \in DOMAIN orders : orders[o] \in OrderRow

OrdersInit == /\ orders = EmptyTable
              /\ drawn = {}

-----------------------------------------------------------------------------
(* Statements that other handlers issue too. *)

\* WHERE user_id = u AND id = o finds a row.
Owns(u, o) == o \in DOMAIN orders /\ orders[o].user = u

\* UPDATE orders SET status = s for the ids in os (none or one of them).
SetOrderStatus(os, s) ==
    orders' = [o \in DOMAIN orders |->
                  IF o \in os THEN [orders[o] EXCEPT !.status = s]
                              ELSE orders[o]]

-----------------------------------------------------------------------------
(* Requests. *)

\* The validators of the order service, in program units.
Validates(b) == b.wellFormed /\ b.quantity > 0 /\ b.price >= 0

\* The column constraints, on what the columns would hold.
Storable(b) == /\ ToColumn(b.quantity) \in PositiveColumn
               /\ ToColumn(b.price) \in NonNegativeColumn

CreateOrder(u, o, b) ==
    /\ Validates(b) /\ Storable(b)
    /\ o \notin drawn
    /\ orders' = InsertRow(orders, o, [user     |-> u,
                                       quantity |-> ToColumn(b.quantity),
                                       price    |-> ToColumn(b.price),
                                       status   |-> "pending"])
    /\ drawn' = drawn \cup {o}

\* Mutant: PUT writes the whole row, with the status a new order has.
UpdateOrderResets(u, o, b) ==
    /\ Validates(b) /\ Storable(b)
    /\ Owns(u, o)
    /\ orders' = [orders EXCEPT ![o].quantity = ToColumn(b.quantity),
                                ![o].price    = ToColumn(b.price),
                                ![o].status   = "pending"]
    /\ UNCHANGED drawn

\* PUT replaces the trade and keeps owner and status, whatever the status is.
UpdateOrder(u, o, b) ==
    /\ Validates(b) /\ Storable(b)
    /\ Owns(u, o)
    /\ orders' = [orders EXCEPT ![o].quantity = ToColumn(b.quantity),
                                ![o].price    = ToColumn(b.price)]
    /\ UNCHANGED drawn

\* DELETE, whatever the status is.  The foreign keys of other tables
\* cascade: whoever composes this module deletes their rows in the same step.
DeleteOrder(u, o) ==
    /\ Owns(u, o)
    /\ orders' = DeleteRows(orders, {o})
    /\ UNCHANGED drawn
=============================================================================
