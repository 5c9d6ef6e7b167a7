------------------------------- MODULE Median -------------------------------
(***************************************************************************)
(* statistics.median, as dgps.py uses it, of the values a function takes   *)
(* on a finite set.  The median is kept doubled: for an even count it is   *)
(* the mean of the two middle values.                                      *)
(***************************************************************************)
EXTENDS Integers, FiniteSets, FiniteSetsExt

\* The k-th smallest of the values f takes on S, repetitions counted.
Kth(f, S, k) ==
  CHOOSE v \in {f[p] : p \in S} :
     /\ Cardinality({p \in S : f[p] < v}) < k
     /\ Cardinality({p \in S : f[p] <= v}) >= k

\* Twice the median.
Median2(f, S) ==
  LET n == Cardinality(S)
  IN  Kth(f, S, (n + 1) \div 2) + Kth(f, S, (n \div 2) + 1)
=============================================================================
