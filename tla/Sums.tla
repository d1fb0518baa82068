-------------------------------- MODULE Sums --------------------------------
(***************************************************************************)
(* The sum of the values of a function, as of a column of rows.            *)
(***************************************************************************)
EXTENDS Integers, FiniteSetsExt

Total(amounts) == MapThenSumSet(LAMBDA x : amounts[x], DOMAIN amounts)
=============================================================================
