----------------------------- MODULE MCIntentApi -----------------------------
(***************************************************************************)
(* Instance of IntentApi for TLC: the same Idempotency-Key, so the same    *)
(* advisory lock, used by two tenants.                                     *)
(***************************************************************************)
EXTENDS IntentApi, TLC

CONSTANT key

OneLock == [s \in Scope |-> key]

Symmetric == Permutations(Request) \cup Permutations(Scope) \cup Permutations(Body)

=============================================================================
