---------------------------- MODULE PaymentLedger ---------------------------
(***************************************************************************)
(* What the service promises of an order and its payment, as if creating a *)
(* payment and applying a callback were each one transaction: an order has *)
(* one payment at most, nothing is undone, and an outcome that was         *)
(* reported stands while what is reported can be relied on.                *)
(***************************************************************************)
CONSTANTS OrderId

VARIABLES
    ledger,   \* what became of each order and its payment
    final     \* whether an outcome, once reported, stands

ledgerVars == <<ledger, final>>

LedgerState == {"unplaced", "unpaid", "initiated", "paid", "failed", "removed"}

LedgerTypeOK == ledger \in [OrderId -> LedgerState] /\ final \in BOOLEAN

LedgerInit == /\ ledger = [o \in OrderId |-> "unplaced"]
              /\ final \in BOOLEAN

\* The order of o goes from one of the states in from to the state to.
Move(o, from, to) == /\ ledger[o] \in from
                     /\ ledger' = [ledger EXCEPT ![o] = to]
                     /\ UNCHANGED final

Place(o)       == Move(o, {"unplaced"}, "unpaid")
Initiate(o)    == Move(o, {"unpaid"}, "initiated")
Settle(o, v)   == Move(o, {"initiated"}, v)
Overturn(o, v) == ~final /\ Move(o, {"paid", "failed"}, v)
Remove(o)      == Move(o, {"unpaid", "initiated", "paid", "failed"}, "removed")

\* The outcomes reported from now on are no longer to be relied on.
Doubt == final /\ final' = FALSE /\ UNCHANGED ledger

LedgerNext == \/ \E o \in OrderId : \/ Place(o) \/ Initiate(o) \/ Remove(o)
                                    \/ \E v \in {"paid", "failed"} :
                                          Settle(o, v) \/ Overturn(o, v)
              \/ Doubt

LedgerSpec == LedgerInit /\ [][LedgerNext]_ledgerVars
=============================================================================
