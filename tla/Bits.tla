-------------------------------- MODULE Bits --------------------------------
(***************************************************************************)
(* 1 << n and sums over a range, as recursive functions: the folds of the  *)
(* community modules compute the same, but nothing can be proved of them   *)
(* without the recursion they hide.                                        *)
(***************************************************************************)
EXTENDS Integers

\* 1 << n
pow2(n) ==
  LET power[i \in 0 .. n] == IF i = 0 THEN 1 ELSE 2 * power[i - 1]
  IN  power[n]

\* f[0] + ... + f[n-1]
SumBelow(f, n) ==
  LET sum[i \in 0 .. n] == IF i = 0 THEN 0 ELSE sum[i - 1] + f[i - 1]
  IN  sum[n]

=============================================================================
