------------------------------- MODULE Filters -------------------------------
(***************************************************************************)
(* JavaScript's filter of an array, and slice: the elements at some of its  *)
(* places, in the order they have there.  SelectSeq, which does the same by *)
(* recursion, cannot be reasoned about without induction; what is chosen    *)
(* here is characterized by what holds of it (see UnitSumsProofs).          *)
(***************************************************************************)
EXTENDS Naturals, FiniteSets

\* The numbers of a finite set, from the least to the greatest.
Ascending(S) ==
  CHOOSE q \in [1..Cardinality(S) -> S] : \A i, j \in 1..Cardinality(S) : i < j => q[i] < q[j]

\* The elements of s at the given places.
Filtered(s, places) ==
  LET q == Ascending(places) IN [i \in 1..Cardinality(places) |-> s[q[i]]]

=============================================================================
