------------------------------- MODULE Numeric ------------------------------
(***************************************************************************)
(* The money columns of the database are numeric(24, 8): a value with      *)
(* eight decimals and at most sixteen digits before the point.  The        *)
(* program computes with shopspring/decimal, which is exact, so what the   *)
(* program holds and what the column holds differ by a rounding.           *)
(*                                                                         *)
(* A column value is the integer number of its smallest units (10^-8 in    *)
(* the schema).  A value in the program is the integer number of the       *)
(* Scale-th parts of that unit: with Scale = 10^8 the product of two       *)
(* column values is such an integer, exactly.                              *)
(***************************************************************************)
EXTENDS Integers

CONSTANTS
    Scale,       \* program units in one column unit (10^8 in the schema)
    MaxNumeric   \* the largest column value (10^24 - 1 in the schema)

ASSUME NumericAssumption == /\ Scale \in Nat \ {0}
                            /\ MaxNumeric \in Nat \ {0}

\* What PostgreSQL stores for a non-negative decimal n: the nearest column
\* value, halves away from zero.
ToColumn(n) == (n + Scale \div 2) \div Scale

\* A statement with a value of more than sixteen integer digits fails with
\* numeric_value_out_of_range; CHECK (x >= 0) and CHECK (x > 0) look at the
\* rounded value.
NonNegativeColumn == 0 .. MaxNumeric
PositiveColumn    == 1 .. MaxNumeric
=============================================================================
