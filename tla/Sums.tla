-------------------------------- MODULE Sums --------------------------------
(***************************************************************************)
(* Sums of natural numbers over finite sets.                               *)
(***************************************************************************)
EXTENDS Integers, FiniteSets

\* The sum of the naturals f[x] over the finite set S, counted as the units
\* <<x, 1>>, ..., <<x, f[x]>> of every x.
Units(f, S) == UNION {{x} \X (1..f[x]) : x \in S}

Total(f, S) == Cardinality(Units(f, S))
=============================================================================
