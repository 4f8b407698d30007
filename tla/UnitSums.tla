------------------------------ MODULE UnitSums ------------------------------
(***************************************************************************)
(* Sums of natural numbers over a finite set, written so that a sum is a   *)
(* cardinality: f[x] is the number of units that x contributes, and the    *)
(* sum counts all units.  The ledger modules add Decimal amounts, scaled   *)
(* to their smallest unit; stating the sum this way needs no recursion, so *)
(* the finite-set theorems apply to it (see UnitSumsProofs).               *)
(***************************************************************************)
EXTENDS Naturals, FiniteSets

\* One pair <<x, i>> for each of the f[x] units that x holds.
Units(f, S) == UNION {{x} \X (1..f[x]) : x \in S}

\* The sum of f over S.
Total(f, S) == Cardinality(Units(f, S))

=============================================================================
