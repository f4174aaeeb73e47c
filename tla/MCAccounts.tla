----------------------------- MODULE MCAccounts -----------------------------
(***************************************************************************)
(* A small instance of Accounts for TLC.                                   *)
(***************************************************************************)
EXTENDS Accounts, TLC

CONSTANTS r1, r2, r3

Requests == {r1, r2, r3}

Symmetric == Permutations(Requests)

Spelled(box, upper, padded, plain) ==
    [box |-> box, upper |-> upper, padded |-> padded, plain |-> plain]

Typed(email, named, head, size) ==
    [email |-> email, named |-> named,
     password |-> [head |-> head, size |-> size]]

Ann      == Spelled("ann", FALSE, FALSE, TRUE)
AnnLoud  == Spelled("ann", TRUE, TRUE, TRUE)
AnnNamed == Spelled("ann", FALSE, FALSE, FALSE)
Bob      == Spelled("bob", FALSE, FALSE, TRUE)

\* Two mailboxes, one of them in three spellings; passwords of the longest
\* length, of one with the same first 72 bytes, of the shortest, of one byte
\* less, and none; a blank name.
Forms == {Typed(Ann, TRUE, "p", 72), Typed(AnnLoud, TRUE, "p", 72),
          Typed(AnnLoud, TRUE, "q", 8), Typed(AnnNamed, TRUE, "p", 72),
          Typed(Ann, TRUE, "p", 80), Typed(Ann, TRUE, "s", 7),
          Typed(Ann, TRUE, "", 0), Typed(Bob, TRUE, "q", 8),
          Typed(Bob, FALSE, "q", 8)}
=============================================================================
