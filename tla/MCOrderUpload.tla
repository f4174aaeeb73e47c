---------------------------- MODULE MCOrderUpload ---------------------------
(***************************************************************************)
(* Small instances of OrderUpload for TLC.                                 *)
(***************************************************************************)
EXTENDS OrderUploadShelf, TLC

CONSTANTS u1, u2, o1, o2, j1, j2

Users     == {u1, u2}
OneOrder  == {o1}
TwoOrders == {o1, o2}
Jobs      == {j1, j2}

Symmetric == Permutations(Users) \cup Permutations(TwoOrders)
             \cup Permutations(Jobs)

OneBody == {[wellFormed |-> TRUE, quantity |-> 4, price |-> 4]}

Part(n, m) == [size |-> n, mime |-> m]

\* With MaxSize = 3: empty, of length one, of the largest length, one byte
\* longer, and of a type that is not accepted.
Parts == {Part(0, "pdf"), Part(1, "png"), Part(3, "jpeg"), Part(4, "pdf"),
          Part(2, "text")}
\* Accepted ones only.
GoodParts == {Part(1, "png"), Part(3, "jpeg")}
=============================================================================
