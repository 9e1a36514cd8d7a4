---------------------------------- MODULE Sums ----------------------------------
(* Sums over a range of numbers, as the SQL of the services takes them.         *)
EXTENDS Naturals

\* The sum of f over 1..n.
SumTo(f, n) == LET sum[k \in 0..n] == IF k = 0 THEN 0 ELSE sum[k - 1] + f[k] IN sum[n]
=============================================================================
