-------------------------------- MODULE Sums --------------------------------
(***************************************************************************)
(* Sums of natural numbers.                                                *)
(***************************************************************************)
EXTENDS Integers, FiniteSets

\* The sum of f over S, as the number of units it counts.  Unlike a recursive
\* sum it is a cardinality, which the theorems about finite sets speak of.
Units(f, S) == UNION {{k} \X (1..f[k]) : k \in S}
Total(f, S) == Cardinality(Units(f, S))
=============================================================================
