------------------------------- MODULE Cents --------------------------------
(* Money as the database stores it: whole cents.  A value written to a     *)
(* Decimal(14,2) column is rounded to the cent, half away from zero.       *)
EXTENDS Integers

(* Mutant: the fraction of a cent is cut off.                              *)
Truncated(n, d) == n \div d

(* n / d, in cents.                                                        *)
Rounded(n, d) ==
  IF n >= 0 THEN (2 * n + d) \div (2 * d) ELSE - ((d - 2 * n) \div (2 * d))
=============================================================================
