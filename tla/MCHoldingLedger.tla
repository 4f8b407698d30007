-------------------------- MODULE MCHoldingLedger --------------------------
(***************************************************************************)
(* Instance of HoldingLedger for TLC.                                      *)
(***************************************************************************)
EXTENDS HoldingLedger

LOCAL INSTANCE Functions

\* Counting units is adding: Total agrees with the community modules' sum on
\* every function with at most three values of at most three units.
ASSUME TotalIsSum ==
  \A f \in [1..3 -> 0..3] : Total(f, 1..3) = SumFunctionOnSet(f, 1..3)

=============================================================================
