------------------------------ MODULE Balances ------------------------------
(***************************************************************************)
(* What the asset packages promise an account: for every holding reference *)
(* (an account's position in an asset) one total and one locked amount,    *)
(* changed only by the steps below, none of which touches locked units     *)
(* that it did not lock or was not given.  HoldingLedger, with its many    *)
(* Holding and Hold contracts, and PillarIntents, which drives them, are   *)
(* shown to implement this module.                                         *)
(***************************************************************************)
EXTENDS Naturals

CONSTANTS
  Ref,             \* holding references: an account with an asset
  MaxAmount        \* the largest amount one step can name (Decimal is bounded)

VARIABLES
  total,           \* total[r]:  units held under r
  locked           \* locked[r]: units of those reserved by holds

balanceVars == <<total, locked>>

Available(r) == total[r] - locked[r]

-----------------------------------------------------------------------------
BalancesInit ==
  /\ total  = [r \in Ref |-> 0]
  /\ locked = [r \in Ref |-> 0]

\* Units are issued to r.
Credit(r, n) ==
  /\ total' = [total EXCEPT ![r] = @ + n]
  /\ UNCHANGED locked

\* Unlocked units of r are taken out of circulation.
Debit(r, n) ==
  /\ n <= Available(r)
  /\ total' = [total EXCEPT ![r] = @ - n]
  /\ UNCHANGED locked

\* Unlocked units of r are reserved.
Lock(r, n) ==
  /\ n <= Available(r)
  /\ locked' = [locked EXCEPT ![r] = @ + n]
  /\ UNCHANGED total

\* Reserved units of r become available again.
Unlock(r, n) ==
  /\ n <= locked[r]
  /\ locked' = [locked EXCEPT ![r] = @ - n]
  /\ UNCHANGED total

\* Reserved units of r are spent: no longer reserved and no longer held.
SpendLocked(r, n) ==
  /\ n <= locked[r]
  /\ total'  = [total  EXCEPT ![r] = @ - n]
  /\ locked' = [locked EXCEPT ![r] = @ - n]

\* Reserved units of r are spent into another reference s.
SpendInto(r, s, n) ==
  /\ s # r
  /\ n <= locked[r]
  /\ total'  = [total  EXCEPT ![r] = @ - n, ![s] = @ + n]
  /\ locked' = [locked EXCEPT ![r] = @ - n]

BalancesNext ==
  \E r \in Ref, n \in 1..MaxAmount :
    \/ Credit(r, n)
    \/ Debit(r, n)
    \/ Lock(r, n)
    \/ Unlock(r, n)
    \/ SpendLocked(r, n)
    \/ \E s \in Ref : SpendInto(r, s, n)

BalancesSpec == BalancesInit /\ [][BalancesNext]_balanceVars

=============================================================================
