-------------------------------- MODULE Sums --------------------------------
(* Sums of amounts over the rows of a table. *)
EXTENDS Integers, FiniteSets

\* The sum of a function's values, natural numbers, counted unit by unit.
Units(f) == UNION {{x} \X (1 .. f[x]) : x \in DOMAIN f}
Sum(f) == Cardinality(Units(f))
=============================================================================
