---------------------------------- MODULE Sums ----------------------------------
(***************************************************************************)
(* The sum of an integer-valued table.  A contract's obligation is always  *)
(* a sum over the rows of one of its multi_index tables; rows have the     *)
(* keys 1..n, and a missing row weighs nothing.  The sum is written as a   *)
(* recursive function so that TableTheorems can prove facts about it.      *)
(***************************************************************************)
EXTENDS Integers

\* w[1] + ... + w[n], for w a function whose domain includes 1..n.
SumTo(w, n) ==
  LET partial[k \in 0 .. n] == IF k = 0 THEN 0 ELSE partial[k - 1] + w[k]
  IN  partial[n]

===============================================================================
