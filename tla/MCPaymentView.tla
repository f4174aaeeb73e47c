---------------------------- MODULE MCPaymentView ---------------------------
(***************************************************************************)
(* A small instance of PaymentView for TLC.                                *)
(***************************************************************************)
EXTENDS PaymentView

CONSTANTS u1, u2, o1, a1, a2, d1, v1

\* Two users: either may own the order, and either may look at its payment.
Users    == {u1, u2}
OneOrder == {o1}
Attempts == {a1, a2}
OneSlot  == {d1}
OneView  == {v1}

\* One good trade.
OneBody == {[wellFormed |-> TRUE, quantity |-> 4, price |-> 4]}
=============================================================================
