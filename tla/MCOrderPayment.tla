--------------------------- MODULE MCOrderPayment ---------------------------
(***************************************************************************)
(* Small instances of OrderPayment for TLC.                                *)
(***************************************************************************)
EXTENDS OrderPaymentLedger, TLC

CONSTANTS u1, u2, o1, o2, a1, a2, d1, d2

Users    == {u1, u2}
OneUser  == {u1}
OneOrder == {o1}
Orders2  == {o1, o2}
Attempts == {a1, a2}
Slots    == {d1, d2}
OneSlot  == {d1}

\* For one user and two orders.
SymmetricOrders == Permutations(Orders2) \cup Permutations(Attempts)
                   \cup Permutations(Slots)

Trade(w, q, p) == [wellFormed |-> w, quantity |-> q, price |-> p]

\* One good trade.
OneBody == {Trade(TRUE, 4, 4)}

\* With Scale = 3 and MaxNumeric = 4: amounts that round up, that round to
\* zero, that are exact and that do not fit, prices of zero, and bodies that
\* the validators or the constraints turn away.
Bodies == {Trade(TRUE, 3, 6), Trade(TRUE, 3, 3), Trade(TRUE, 9, 3),
           Trade(TRUE, 12, 12), Trade(TRUE, 3, 0), Trade(TRUE, 3, 1),
           Trade(TRUE, 1, 3), Trade(TRUE, 0, 3), Trade(TRUE, 15, 3),
           Trade(TRUE, 3, -2), Trade(FALSE, 3, 6)}
=============================================================================
