------------------------------- MODULE Totals -------------------------------
(***************************************************************************)
(* The total of a function on a finite set whose values are natural        *)
(* numbers, as the number of units it is made of: with no fold and no      *)
(* recursion, so that the invariants about accounts can be proved.         *)
(***************************************************************************)
EXTENDS Naturals, FiniteSets

Units(f, S) == UNION {{x} \X (1..f[x]) : x \in S}
Total(f, S) == Cardinality(Units(f, S))
=============================================================================
