------------------------------- MODULE Amounts -------------------------------
(***************************************************************************)
(* Sums of micro-dollars.  The sum of a function of natural numbers is the *)
(* number of its units: a set with one element for every unit of every     *)
(* value.  Written this way (and not by recursion) it can be reasoned      *)
(* about with the theorems on cardinalities.                               *)
(***************************************************************************)
EXTENDS Naturals, FiniteSets

Units(f) == UNION {{x} \X (1 .. f[x]) : x \in DOMAIN f}

Total(f) == Cardinality(Units(f))

(* SQL's greatest(0, a - b), Python's max(0, a - b).                       *)
Less(a, b) == IF a > b THEN a - b ELSE 0

Least(a, b) == IF a < b THEN a ELSE b

=============================================================================
