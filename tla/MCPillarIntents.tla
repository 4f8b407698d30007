--------------------------- MODULE MCPillarIntents ---------------------------
(***************************************************************************)
(* Instance of PillarIntents for TLC: one asset, the accounts a and b of a *)
(* tenant, and an account of another tenant that has the same id b.  The   *)
(* terms of the intents are chosen so that they compete for the same hold  *)
(* and the same traces.                                                    *)
(***************************************************************************)
EXTENDS PillarIntents, TLC

CONSTANTS t1, t2   \* tenants

ARef == [tenant |-> t1, account |-> "a", asset |-> "usd"]
BRef == [tenant |-> t1, account |-> "b", asset |-> "usd"]
OtherRef == [tenant |-> t2, account |-> "b", asset |-> "usd"]

MCRef == {ARef, BRef, OtherRef}

MCTenantRef == {ARef, BRef}

Account(i) ==
  IF i \in IssueId THEN [from |-> None, to |-> "a"]
  ELSE IF i \in RedeemId THEN [from |-> "a", to |-> None]
  ELSE [from |-> "a", to |-> "b"]

MCTerms ==
  [i \in IntentId |->
     [from |-> Account(i).from, to |-> Account(i).to, asset |-> "usd",
      amount |-> 1, expiresAt |-> CHOOSE x \in Time : TRUE]]

HoldingsAlike == Permutations(HoldingCid)

Symmetric ==
  HoldingsAlike \cup Permutations(TraceCid) \cup Permutations(TransferId)
    \cup Permutations(HoldCid)

=============================================================================
