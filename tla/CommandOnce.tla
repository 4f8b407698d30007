----------------------------- MODULE CommandOnce -----------------------------
(***************************************************************************)
(* What the command queue promises the caller of an intent: the command    *)
(* takes effect on the ledger at most once, and never once the request was *)
(* reported as failed.                                                     *)
(***************************************************************************)
EXTENDS Naturals

CONSTANT Request

VARIABLES
  phase,           \* "absent", "open" or "failed"
  effects          \* how often the request's command took effect

onceVars == <<phase, effects>>

OnceInit ==
  /\ phase = [r \in Request |-> "absent"]
  /\ effects = [r \in Request |-> 0]

Open(r) ==
  /\ phase[r] = "absent"
  /\ phase' = [phase EXCEPT ![r] = "open"]
  /\ UNCHANGED effects

TakeEffect(r) ==
  /\ phase[r] = "open"
  /\ effects[r] = 0
  /\ effects' = [effects EXCEPT ![r] = 1]
  /\ UNCHANGED phase

GiveUp(r) ==
  /\ phase[r] = "open"
  /\ effects[r] = 0
  /\ phase' = [phase EXCEPT ![r] = "failed"]
  /\ UNCHANGED effects

OnceNext == \E r \in Request : Open(r) \/ TakeEffect(r) \/ GiveUp(r)

OnceSpec == OnceInit /\ [][OnceNext]_onceVars

=============================================================================
