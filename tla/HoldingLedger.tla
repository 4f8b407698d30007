--------------------------- MODULE HoldingLedger ---------------------------
(***************************************************************************)
(* The Holding and Hold contracts of daml/pillar-assets and every choice   *)
(* on them.                                                                *)
(*                                                                         *)
(* A choice that consumes a Holding and creates its successor is modelled  *)
(* as an update of one slot of "holding": the slot stands for the chain of *)
(* contract ids.  A command that names an archived id is rejected by the   *)
(* ledger and changes nothing.  Hold contracts are never updated, only     *)
(* created and archived.                                                   *)
(*                                                                         *)
(* Amounts are Daml Decimals scaled to their smallest unit; a result above *)
(* MaxAmount aborts the transaction, as a Decimal overflow does.  One      *)
(* operator and one issuer sign everything.  The controllers of a choice   *)
(* are all taken to have authorised it.  metas, version tags and purposes  *)
(* carry no control and are left out.                                      *)
(***************************************************************************)
EXTENDS Naturals, FiniteSets, UnitSums

CONSTANTS
  HoldingCid,      \* slots for Holding contracts
  HoldCid,         \* slots for Hold contracts
  Ref,             \* holdingRef values
  Party,           \* holders
  Time,            \* clock readings a caller may pass or a hold may expire at
  MaxAmount,       \* largest Decimal
  None             \* no contract, no reference, no expiry

ASSUME LedgerAssumption ==
  /\ IsFiniteSet(HoldingCid)
  /\ IsFiniteSet(HoldCid)
  /\ Time \subseteq Nat
  /\ MaxAmount \in Nat
  /\ None \notin Ref
  /\ None \notin Time

VARIABLES
  holding,         \* HoldingCid -> the active Holding, or NoHolding
  hold,            \* HoldCid -> the active Hold, or NoHold
  supply           \* history: units issued less units consumed, per reference

ledgerVars == <<holding, hold, supply>>

Amount == 1..MaxAmount

NoHolding == [ref |-> None, holder |-> None, amount |-> 0, activeHolds |-> 0]

NoHold == [ref |-> None, ownerHolder |-> None, amount |-> 0, expiresAt |-> None]

HoldingRecord ==
  [ref : Ref \cup {None}, holder : Party \cup {None},
   amount : Nat, activeHolds : Nat]

HoldRecord ==
  [ref : Ref \cup {None}, ownerHolder : Party \cup {None},
   amount : Nat, expiresAt : Time \cup {None}]

\* Amounts and locks never become negative: no choice takes more than there is.
LedgerTypeOK ==
  /\ holding \in [HoldingCid -> HoldingRecord]
  /\ hold \in [HoldCid -> HoldRecord]
  /\ supply \in [Ref -> Nat]

-----------------------------------------------------------------------------
(* Reading the active contract set.                                        *)

Active(c) == holding[c].ref # None

ActiveHold(h) == hold[h].ref # None

\* Faulty: counts locked units as free.
FreeIgnoringHolds(c) == holding[c].amount

Free(c) == holding[c].amount - holding[c].activeHolds

\* Faulty: without "hold does not belong to holding".
HoldMatchesAnyRef(c, h) ==
  /\ Active(c)
  /\ ActiveHold(h)
  /\ hold[h].amount <= holding[c].activeHolds

\* The checks that ReleaseHold, ConsumeHold and ExpireHold share.
HoldMatches(c, h) ==
  /\ Active(c)
  /\ ActiveHold(h)
  /\ hold[h].ref = holding[c].ref
  /\ hold[h].amount <= holding[c].activeHolds

\* The holdings after n units were added to c, in a state hs of the holdings.
Increased(hs, c, n) == [hs EXCEPT ![c].amount = @ + n]

\* The holdings once the hold h was taken off c, without and with its units.
Released(c, h) == [holding EXCEPT ![c].activeHolds = @ - hold[h].amount]

\* Faulty: the units stay on the Holding.
ConsumedLockOnly(c, h) == [holding EXCEPT ![c].activeHolds = @ - hold[h].amount]

Consumed(c, h) ==
  [holding EXCEPT ![c].activeHolds = @ - hold[h].amount,
                  ![c].amount      = @ - hold[h].amount]

Archive(h) == hold' = [hold EXCEPT ![h] = NoHold]

-----------------------------------------------------------------------------
LedgerInit ==
  /\ holding = [c \in HoldingCid |-> NoHolding]
  /\ hold = [h \in HoldCid |-> NoHold]
  /\ supply = [r \in Ref |-> 0]

\* A Holding is created without holds, as the fixtures create it.
CreateHolding(c, r, p, n) ==
  /\ ~Active(c)
  /\ holding' = [holding EXCEPT ![c] =
       [ref |-> r, holder |-> p, amount |-> n, activeHolds |-> 0]]
  /\ supply' = [supply EXCEPT ![r] = @ + n]
  /\ UNCHANGED hold

\* c continues as the first part, d is the second.
SplitHolding(c, d, first, second) ==
  /\ Active(c)
  /\ ~Active(d)
  /\ holding[c].activeHolds = 0
  /\ first + second = holding[c].amount
  /\ holding' = [holding EXCEPT ![c].amount = first,
                                ![d] = [holding[c] EXCEPT !.amount = second]]
  /\ UNCHANGED <<hold, supply>>

\* The consumed contract itself can no longer be fetched, so d differs from c.
MergeHolding(c, d) ==
  /\ d # c
  /\ Active(c)
  /\ Active(d)
  /\ holding[d].ref = holding[c].ref
  /\ holding[d].holder = holding[c].holder
  /\ holding[c].activeHolds = 0
  /\ holding[d].activeHolds = 0
  /\ holding[c].amount + holding[d].amount <= MaxAmount
  /\ holding' = [holding EXCEPT ![c].amount = @ + holding[d].amount,
                                ![d] = NoHolding]
  /\ UNCHANGED <<hold, supply>>

\* The holder changes, the holdingRef does not.
TransferOwnership(c, p) ==
  /\ Active(c)
  /\ holding[c].activeHolds = 0
  /\ holding' = [holding EXCEPT ![c].holder = p]
  /\ UNCHANGED <<hold, supply>>

ConsumeAmount(c, n) ==
  /\ Active(c)
  /\ n <= Free(c)
  /\ holding' = [holding EXCEPT ![c].amount = @ - n]
  /\ supply' = [supply EXCEPT ![holding[c].ref] = @ - n]
  /\ UNCHANGED hold

IncreaseAmount(c, n) ==
  /\ Active(c)
  /\ holding[c].amount + n <= MaxAmount
  /\ holding' = Increased(holding, c, n)
  /\ supply' = [supply EXCEPT ![holding[c].ref] = @ + n]
  /\ UNCHANGED hold

CreateHold(c, h, n, expiry) ==
  /\ Active(c)
  /\ ~ActiveHold(h)
  /\ n <= Free(c)
  /\ hold' = [hold EXCEPT ![h] =
       [ref |-> holding[c].ref, ownerHolder |-> holding[c].holder,
        amount |-> n, expiresAt |-> expiry]]
  /\ holding' = [holding EXCEPT ![c].activeHolds = @ + n]
  /\ UNCHANGED supply

ReleaseHold(c, h) ==
  /\ HoldMatches(c, h)
  /\ Archive(h)
  /\ holding' = Released(c, h)
  /\ UNCHANGED supply

ConsumeHold(c, h) ==
  /\ HoldMatches(c, h)
  /\ Archive(h)
  /\ holding' = Consumed(c, h)
  /\ supply' = [supply EXCEPT ![holding[c].ref] = @ - hold[h].amount]

\* The caller supplies "now"; the ledger's own time is not consulted.
ExpireHold(c, h, now) ==
  /\ HoldMatches(c, h)
  /\ hold[h].expiresAt # None
  /\ now > hold[h].expiresAt
  /\ Archive(h)
  /\ holding' = Released(c, h)
  /\ UNCHANGED supply

LedgerNext ==
  \/ \E c \in HoldingCid, r \in Ref, p \in Party, n \in 0..MaxAmount :
       CreateHolding(c, r, p, n)
  \/ \E c, d \in HoldingCid, first, second \in Amount :
       SplitHolding(c, d, first, second)
  \/ \E c, d \in HoldingCid : MergeHolding(c, d)
  \/ \E c \in HoldingCid, p \in Party : TransferOwnership(c, p)
  \/ \E c \in HoldingCid, n \in Amount : ConsumeAmount(c, n)
  \/ \E c \in HoldingCid, n \in Amount : IncreaseAmount(c, n)
  \/ \E c \in HoldingCid, h \in HoldCid, n \in Amount, e \in Time \cup {None} :
       CreateHold(c, h, n, e)
  \/ \E c \in HoldingCid, h \in HoldCid : ReleaseHold(c, h)
  \/ \E c \in HoldingCid, h \in HoldCid : ConsumeHold(c, h)
  \/ \E c \in HoldingCid, h \in HoldCid, now \in Time : ExpireHold(c, h, now)

LedgerSpec == LedgerInit /\ [][LedgerNext]_ledgerVars

-----------------------------------------------------------------------------
(* What the contracts under a reference r add up to.                       *)

AmountsUnder(r) ==
  [c \in HoldingCid |-> IF holding[c].ref = r THEN holding[c].amount ELSE 0]

ActiveHoldsUnder(r) ==
  [c \in HoldingCid |-> IF holding[c].ref = r THEN holding[c].activeHolds ELSE 0]

HoldsUnder(r) ==
  [h \in HoldCid |-> IF hold[h].ref = r THEN hold[h].amount ELSE 0]

TotalAmount(r) == Total(AmountsUnder(r), HoldingCid)

TotalActiveHolds(r) == Total(ActiveHoldsUnder(r), HoldingCid)

TotalHolds(r) == Total(HoldsUnder(r), HoldCid)

\* The ensure clauses of Holding and Hold.  No choice tests them: each has to
\* keep them by its own assertions, or the transaction it belongs to aborts
\* after all those assertions passed.
EnsureClauses ==
  /\ \A c \in HoldingCid : holding[c].activeHolds <= holding[c].amount
  /\ \A h \in HoldCid : ActiveHold(h) => hold[h].amount > 0

\* The locks counted on the Holdings of a reference are exactly the Hold
\* contracts of that reference, although a Hold names no Holding and may be
\* settled against any Holding of its reference, before or after splits,
\* merges and changes of owner (CreateHold .. ExpireHold in Holding.daml).
HoldsBacked == \A r \in Ref : TotalActiveHolds(r) = TotalHolds(r)

\* No sequence of choices makes or loses units of a reference: the active
\* Holdings always add up to what was issued less what was consumed.
SupplyConserved == \A r \in Ref : TotalAmount(r) = supply[r]

\* The Holding and Hold contracts of a reference behave as one balance with a
\* locked part: every choice is one step of Balances, or none.
Bal == INSTANCE Balances WITH
  total  <- [r \in Ref |-> TotalAmount(r)],
  locked <- [r \in Ref |-> TotalActiveHolds(r)]

\* As a property of LedgerSpec (the choices of Holding.daml).
ImplementsBalances == Bal!BalancesSpec

=============================================================================
