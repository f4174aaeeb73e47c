------------------------------- MODULE Tables -------------------------------
(***************************************************************************)
(* A database table, or any map the program keeps, is a function whose     *)
(* domain is the set of keys that exist now: deleting a row removes its    *)
(* key.  A single SQL statement in autocommit mode is one step on such a   *)
(* function.                                                               *)
(***************************************************************************)
EXTENDS Functions

EmptyTable == [key \in {} |-> key]

\* INSERT of the row under a key, or the replacement of the whole row.
\* (The operators :> and @@ of TLC would say the same, but no prover knows
\* them.)
InsertRow(table, key, row) ==
    [k \in DOMAIN table \cup {key} |-> IF k = key THEN row ELSE table[k]]

\* DELETE of every row whose key is in keys.
DeleteRows(table, keys) == Restrict(table, DOMAIN table \ keys)
=============================================================================
