------------------------- MODULE HoldingLedgerProofs -------------------------
(***************************************************************************)
(* For every set of contract slots, references, parties and times, the     *)
(* choices on Holding and Hold keep the ensure clauses, keep locks and     *)
(* Hold contracts equal, conserve the supply, and implement Balances.      *)
(*                                                                         *)
(* No invariant is inductive alone: that a consumed amount can be taken    *)
(* from supply rests on conservation, that a consumed hold can be taken    *)
(* from its Holding's amount rests on the ensure clause.  IInv is their    *)
(* conjunction, with the range of the amounts.  Each choice is first       *)
(* reduced to its Effect: by how much it moves the total and the locked    *)
(* amount of one reference.                                                *)
(***************************************************************************)
EXTENDS HoldingLedger, UnitSumsProofs

\* No amount leaves the range of Decimal.
AmountsBounded == \A c \in HoldingCid : holding[c].amount <= MaxAmount

IInv ==
  /\ LedgerTypeOK
  /\ AmountsBounded
  /\ EnsureClauses
  /\ HoldsBacked
  /\ SupplyConserved

\* The step moves the total of s by da and its locked amount by dl, in the
\* contracts and in what is recorded beside them.
Share(r, s, n) == IF r = s THEN n ELSE 0

Effect(s, da, dl) ==
  \A r \in Ref :
    /\ TotalAmount(r)' = TotalAmount(r) + Share(r, s, da)
    /\ supply'[r] = supply[r] + Share(r, s, da)
    /\ TotalActiveHolds(r)' = TotalActiveHolds(r) + Share(r, s, dl)
    /\ TotalHolds(r)' = TotalHolds(r) + Share(r, s, dl)

HoldingsTyped == holding \in [HoldingCid -> HoldingRecord]

HoldsTyped == hold \in [HoldCid -> HoldRecord]

-----------------------------------------------------------------------------
(* The sums of a state.                                                    *)

\* What a slot contributes to the sums of a reference is a natural number.
LEMMA SummandsTyped ==
  ASSUME HoldingsTyped, NEW r
  PROVE  /\ AmountsUnder(r) \in [HoldingCid -> Nat]
         /\ ActiveHoldsUnder(r) \in [HoldingCid -> Nat]
<1>1. \A c \in HoldingCid : holding[c].amount \in Nat /\ holding[c].activeHolds \in Nat
  BY DEF HoldingsTyped, HoldingRecord
<1> QED
  BY <1>1 DEF AmountsUnder, ActiveHoldsUnder

\* What a Hold contributes to the sum of a reference is a natural number.
LEMMA HoldSummandsTyped ==
  ASSUME HoldsTyped, NEW r
  PROVE  HoldsUnder(r) \in [HoldCid -> Nat]
<1>1. \A h \in HoldCid : hold[h].amount \in Nat
  BY DEF HoldsTyped, HoldRecord
<1> QED
  BY <1>1 DEF HoldsUnder

\* The three sums of a reference are natural numbers.
LEMMA TotalsTyped ==
  ASSUME HoldingsTyped, HoldsTyped, NEW r
  PROVE  /\ TotalAmount(r) \in Nat
         /\ TotalActiveHolds(r) \in Nat
         /\ TotalHolds(r) \in Nat
<1>1. IsFiniteSet(HoldingCid) /\ IsFiniteSet(HoldCid)
  BY LedgerAssumption
<1>2. TotalAmount(r) \in Nat
  BY <1>1, SummandsTyped, TotalType DEF TotalAmount
<1>3. TotalActiveHolds(r) \in Nat
  BY <1>1, SummandsTyped, TotalType DEF TotalActiveHolds
<1>4. TotalHolds(r) \in Nat
  BY <1>1, HoldSummandsTyped, TotalType DEF TotalHolds
<1> QED
  BY <1>2, <1>3, <1>4

\* The same of the state after a step.
LEMMA TotalsTypedNext ==
  ASSUME HoldingsTyped', HoldsTyped', NEW r
  PROVE  /\ TotalAmount(r)' \in Nat
         /\ TotalActiveHolds(r)' \in Nat
         /\ TotalHolds(r)' \in Nat
<1>1. IsFiniteSet(HoldingCid) /\ IsFiniteSet(HoldCid)
  BY LedgerAssumption
<1>2. \A c \in HoldingCid : holding'[c].amount \in Nat /\ holding'[c].activeHolds \in Nat
  BY DEF HoldingsTyped, HoldingRecord
<1>3. \A h \in HoldCid : hold'[h].amount \in Nat
  BY DEF HoldsTyped, HoldRecord
<1>4. /\ AmountsUnder(r)' \in [HoldingCid -> Nat]
      /\ ActiveHoldsUnder(r)' \in [HoldingCid -> Nat]
      /\ HoldsUnder(r)' \in [HoldCid -> Nat]
  BY <1>2, <1>3 DEF AmountsUnder, ActiveHoldsUnder, HoldsUnder
<1>5. Total(AmountsUnder(r)', HoldingCid) \in Nat
  BY <1>1, <1>4, TotalType
<1>6. Total(ActiveHoldsUnder(r)', HoldingCid) \in Nat
  BY <1>1, <1>4, TotalType
<1>7. Total(HoldsUnder(r)', HoldCid) \in Nat
  BY <1>1, <1>4, TotalType
<1> QED
  BY <1>5, <1>6, <1>7 DEF TotalAmount, TotalActiveHolds, TotalHolds

\* A Holding's own amounts are part of the sums of its reference.
LEMMA PartOfTotal ==
  ASSUME HoldingsTyped, NEW c \in HoldingCid, Active(c)
  PROVE  /\ holding[c].amount <= TotalAmount(holding[c].ref)
         /\ holding[c].activeHolds <= TotalActiveHolds(holding[c].ref)
<1> DEFINE r == holding[c].ref
           f == AmountsUnder(r)
           g == ActiveHoldsUnder(r)
<1>1. IsFiniteSet(HoldingCid)
  BY LedgerAssumption
<1>2. f[c] = holding[c].amount /\ g[c] = holding[c].activeHolds
  BY DEF AmountsUnder, ActiveHoldsUnder
<1>3. f \in [HoldingCid -> Nat] /\ g \in [HoldingCid -> Nat]
  BY SummandsTyped
<1>4. TotalAmount(r) = Total(f, HoldingCid) /\ TotalActiveHolds(r) = Total(g, HoldingCid)
  BY DEF TotalAmount, TotalActiveHolds
<1> HIDE DEF r, f, g
<1>5. f[c] <= Total(f, HoldingCid)
  BY <1>1, <1>3, TotalElement
<1>6. g[c] <= Total(g, HoldingCid)
  BY <1>1, <1>3, TotalElement
<1> QED
  BY <1>2, <1>4, <1>5, <1>6 DEF r

\* No reference has more units locked than it has.
LEMMA LockedWithinTotal ==
  ASSUME HoldingsTyped, EnsureClauses, NEW r
  PROVE  TotalActiveHolds(r) <= TotalAmount(r)
<1>1. IsFiniteSet(HoldingCid)
  BY LedgerAssumption
<1>2. \A c \in HoldingCid : ActiveHoldsUnder(r)[c] <= AmountsUnder(r)[c]
  BY DEF EnsureClauses, ActiveHoldsUnder, AmountsUnder
<1> QED
  BY <1>1, <1>2, SummandsTyped, TotalMonotone DEF TotalAmount, TotalActiveHolds

-----------------------------------------------------------------------------
(* How the sums move when a slot changes.                                  *)

\* When one Holding changes, the sums change by what it contributed.
LEMMA OneHoldingChanges ==
  ASSUME HoldingsTyped, HoldingsTyped', NEW c \in HoldingCid, NEW r \in Ref,
         \A d \in HoldingCid \ {c} : holding'[d] = holding[d]
  PROVE  /\ TotalAmount(r)' + AmountsUnder(r)[c]
              = TotalAmount(r) + AmountsUnder(r)'[c]
         /\ TotalActiveHolds(r)' + ActiveHoldsUnder(r)[c]
              = TotalActiveHolds(r) + ActiveHoldsUnder(r)'[c]
<1>1. IsFiniteSet(HoldingCid)
  BY LedgerAssumption
<1>2. /\ AmountsUnder(r) \in [HoldingCid -> Nat]
      /\ ActiveHoldsUnder(r) \in [HoldingCid -> Nat]
  BY SummandsTyped
<1>3. \A d \in HoldingCid : holding'[d].amount \in Nat /\ holding'[d].activeHolds \in Nat
  BY DEF HoldingsTyped, HoldingRecord
<1>4. /\ AmountsUnder(r)' \in [HoldingCid -> Nat]
      /\ ActiveHoldsUnder(r)' \in [HoldingCid -> Nat]
  BY <1>3 DEF AmountsUnder, ActiveHoldsUnder
<1>5. AmountsUnder(r)' = [AmountsUnder(r) EXCEPT ![c] = AmountsUnder(r)'[c]]
  BY DEF AmountsUnder
<1>6. ActiveHoldsUnder(r)' = [ActiveHoldsUnder(r) EXCEPT ![c] = ActiveHoldsUnder(r)'[c]]
  BY DEF ActiveHoldsUnder
<1>7. AmountsUnder(r)'[c] \in Nat /\ ActiveHoldsUnder(r)'[c] \in Nat
  BY <1>4
<1>8. Total(AmountsUnder(r)', HoldingCid) + AmountsUnder(r)[c]
        = Total(AmountsUnder(r), HoldingCid) + AmountsUnder(r)'[c]
  BY <1>1, <1>2, <1>5, <1>7, TotalUpdate
<1>9. Total(ActiveHoldsUnder(r)', HoldingCid) + ActiveHoldsUnder(r)[c]
        = Total(ActiveHoldsUnder(r), HoldingCid) + ActiveHoldsUnder(r)'[c]
  BY <1>1, <1>2, <1>6, <1>7, TotalUpdate
<1> QED
  BY <1>8, <1>9 DEF TotalAmount, TotalActiveHolds

\* When one Hold changes, the sum of the Holds changes by what it contributed.
LEMMA OneHoldChanges ==
  ASSUME HoldsTyped, HoldsTyped', NEW h \in HoldCid, NEW r \in Ref,
         \A k \in HoldCid \ {h} : hold'[k] = hold[k]
  PROVE  TotalHolds(r)' + HoldsUnder(r)[h] = TotalHolds(r) + HoldsUnder(r)'[h]
<1>1. IsFiniteSet(HoldCid)
  BY LedgerAssumption
<1>2. HoldsUnder(r) \in [HoldCid -> Nat]
  BY HoldSummandsTyped
<1>3. \A k \in HoldCid : hold'[k].amount \in Nat
  BY DEF HoldsTyped, HoldRecord
<1>4. HoldsUnder(r)' = [HoldsUnder(r) EXCEPT ![h] = HoldsUnder(r)'[h]]
  BY DEF HoldsUnder
<1>5. HoldsUnder(r)'[h] \in Nat
  BY <1>3 DEF HoldsUnder
<1>6. Total(HoldsUnder(r)', HoldCid) + HoldsUnder(r)[h]
        = Total(HoldsUnder(r), HoldCid) + HoldsUnder(r)'[h]
  BY <1>1, <1>2, <1>4, <1>5, TotalUpdate
<1> QED
  BY <1>6 DEF TotalHolds

\* Two slots change and keep what they add up to under r: SplitHolding, MergeHolding.
LEMMA TwoHoldingsChange ==
  ASSUME HoldingsTyped, HoldingsTyped', NEW r \in Ref,
         NEW c \in HoldingCid, NEW d \in HoldingCid, c # d,
         \A e \in HoldingCid \ {c, d} : holding'[e] = holding[e],
         AmountsUnder(r)'[c] + AmountsUnder(r)'[d]
           = AmountsUnder(r)[c] + AmountsUnder(r)[d],
         ActiveHoldsUnder(r)'[c] + ActiveHoldsUnder(r)'[d]
           = ActiveHoldsUnder(r)[c] + ActiveHoldsUnder(r)[d]
  PROVE  /\ TotalAmount(r)' = TotalAmount(r)
         /\ TotalActiveHolds(r)' = TotalActiveHolds(r)
<1>1. IsFiniteSet(HoldingCid)
  BY LedgerAssumption
<1>2. /\ AmountsUnder(r) \in [HoldingCid -> Nat]
      /\ ActiveHoldsUnder(r) \in [HoldingCid -> Nat]
  BY SummandsTyped
<1>3. \A e \in HoldingCid : holding'[e].amount \in Nat /\ holding'[e].activeHolds \in Nat
  BY DEF HoldingsTyped, HoldingRecord
<1>4. /\ \A e \in HoldingCid : AmountsUnder(r)'[e] \in Nat
      /\ \A e \in HoldingCid : ActiveHoldsUnder(r)'[e] \in Nat
  BY <1>3 DEF AmountsUnder, ActiveHoldsUnder
<1>5. AmountsUnder(r)' = [AmountsUnder(r) EXCEPT ![c] = AmountsUnder(r)'[c],
                                                 ![d] = AmountsUnder(r)'[d]]
  BY DEF AmountsUnder
<1>6. ActiveHoldsUnder(r)' = [ActiveHoldsUnder(r) EXCEPT ![c] = ActiveHoldsUnder(r)'[c],
                                                         ![d] = ActiveHoldsUnder(r)'[d]]
  BY DEF ActiveHoldsUnder
<1>7. Total(AmountsUnder(r)', HoldingCid) = Total(AmountsUnder(r), HoldingCid)
  BY <1>1, <1>2, <1>4, <1>5, TotalMove
<1>8. Total(ActiveHoldsUnder(r)', HoldingCid) = Total(ActiveHoldsUnder(r), HoldingCid)
  BY <1>1, <1>2, <1>4, <1>6, TotalMove
<1> QED
  BY <1>7, <1>8 DEF TotalAmount, TotalActiveHolds

\* Where no Hold changes, neither does their sum.
LEMMA HoldsKept ==
  ASSUME hold' = hold, NEW r
  PROVE  TotalHolds(r)' = TotalHolds(r)
BY DEF TotalHolds, HoldsUnder

-----------------------------------------------------------------------------
(* The effect of each choice.                                              *)

\* CreateHolding adds its amount to the total.
LEMMA CreateHoldingEffect ==
  ASSUME IInv, NEW c \in HoldingCid, NEW s \in Ref, NEW p \in Party, NEW n \in Nat,
         CreateHolding(c, s, p, n)
  PROVE  LedgerTypeOK' /\ EnsureClauses' /\ Effect(s, n, 0)
<1> USE DEF IInv, LedgerTypeOK, HoldingsTyped, HoldsTyped, CreateHolding
<1>1. holding' \in [HoldingCid -> HoldingRecord]
  BY DEF HoldingRecord
<1>2. supply' \in [Ref -> Nat]
  OBVIOUS
<1>3. LedgerTypeOK'
  BY <1>1, <1>2
<1>4. EnsureClauses'
  BY DEF EnsureClauses, ActiveHold
<1>5. ASSUME NEW r \in Ref
      PROVE  /\ TotalAmount(r)' = TotalAmount(r) + Share(r, s, n)
             /\ supply'[r] = supply[r] + Share(r, s, n)
             /\ TotalActiveHolds(r)' = TotalActiveHolds(r) + Share(r, s, 0)
             /\ TotalHolds(r)' = TotalHolds(r) + Share(r, s, 0)
  <2>1. /\ AmountsUnder(r)[c] = 0
        /\ ActiveHoldsUnder(r)[c] = 0
    BY LedgerAssumption DEF AmountsUnder, ActiveHoldsUnder, Active
  <2>2. /\ AmountsUnder(r)'[c] = Share(r, s, n)
        /\ ActiveHoldsUnder(r)'[c] = 0
    BY DEF AmountsUnder, ActiveHoldsUnder, Share
  <2>3. \A d \in HoldingCid \ {c} : holding'[d] = holding[d]
    OBVIOUS
  <2>4. /\ TotalAmount(r)' + AmountsUnder(r)[c] = TotalAmount(r) + AmountsUnder(r)'[c]
        /\ TotalActiveHolds(r)' + ActiveHoldsUnder(r)[c]
             = TotalActiveHolds(r) + ActiveHoldsUnder(r)'[c]
    BY <1>1, <2>3, OneHoldingChanges
  <2>5. TotalHolds(r)' = TotalHolds(r)
    BY HoldsKept
  <2>6. /\ TotalAmount(r) \in Nat /\ TotalActiveHolds(r) \in Nat /\ TotalHolds(r) \in Nat
        /\ TotalAmount(r)' \in Nat /\ TotalActiveHolds(r)' \in Nat
    BY <1>3, TotalsTyped, TotalsTypedNext
  <2>7. Share(r, s, 0) = 0 /\ supply'[r] = supply[r] + Share(r, s, n)
    BY DEF Share
  <2>8. Share(r, s, n) \in Nat
    BY DEF Share
  <2> QED
    BY <2>1, <2>2, <2>4, <2>5, <2>6, <2>7, <2>8
<1> QED
  BY <1>3, <1>4, <1>5 DEF Effect

\* A step on one active Holding that keeps its reference moves the totals of
\* that reference by what it does to the Holding.
LEMMA OneHoldingEffect ==
  ASSUME IInv, LedgerTypeOK', NEW c \in HoldingCid, Active(c),
         NEW da \in Int, NEW dl \in Int,
         \A d \in HoldingCid \ {c} : holding'[d] = holding[d],
         holding'[c].ref = holding[c].ref,
         holding'[c].amount = holding[c].amount + da,
         holding'[c].activeHolds = holding[c].activeHolds + dl,
         \A r \in Ref : supply'[r] = supply[r] + Share(r, holding[c].ref, da),
         \A r \in Ref : TotalHolds(r)' = TotalHolds(r) + Share(r, holding[c].ref, dl)
  PROVE  Effect(holding[c].ref, da, dl)
<1> DEFINE s == holding[c].ref
<1>1. HoldingsTyped /\ HoldsTyped /\ HoldingsTyped' /\ HoldsTyped'
  BY DEF IInv, LedgerTypeOK, HoldingsTyped, HoldsTyped
<1>2. ASSUME NEW r \in Ref
      PROVE  /\ TotalAmount(r)' = TotalAmount(r) + Share(r, s, da)
             /\ TotalActiveHolds(r)' = TotalActiveHolds(r) + Share(r, s, dl)
  <2>1. /\ AmountsUnder(r)[c] \in Nat
        /\ ActiveHoldsUnder(r)[c] \in Nat
    BY <1>1, SummandsTyped
  <2>2. AmountsUnder(r)'[c] = AmountsUnder(r)[c] + Share(r, s, da)
    BY <2>1 DEF AmountsUnder, Share
  <2>3. ActiveHoldsUnder(r)'[c] = ActiveHoldsUnder(r)[c] + Share(r, s, dl)
    BY <2>1 DEF ActiveHoldsUnder, Share
  <2>4. /\ TotalAmount(r)' + AmountsUnder(r)[c] = TotalAmount(r) + AmountsUnder(r)'[c]
        /\ TotalActiveHolds(r)' + ActiveHoldsUnder(r)[c]
             = TotalActiveHolds(r) + ActiveHoldsUnder(r)'[c]
    BY <1>1, OneHoldingChanges
  <2>5. /\ TotalAmount(r) \in Nat /\ TotalActiveHolds(r) \in Nat
        /\ TotalAmount(r)' \in Nat /\ TotalActiveHolds(r)' \in Nat
    BY <1>1, TotalsTyped, TotalsTypedNext
  <2>6. Share(r, s, da) \in Int /\ Share(r, s, dl) \in Int
    BY DEF Share
  <2>7. TotalAmount(r)' = TotalAmount(r) + Share(r, s, da)
    BY <2>1, <2>2, <2>4, <2>5, <2>6
  <2>8. TotalActiveHolds(r)' = TotalActiveHolds(r) + Share(r, s, dl)
    BY <2>1, <2>3, <2>4, <2>5, <2>6
  <2> QED
    BY <2>7, <2>8
<1> QED
  BY <1>2 DEF Effect

\* The Hold contracts of a reference grow by what is created ...
LEMMA HoldCreated ==
  ASSUME HoldsTyped, HoldsTyped', NEW h \in HoldCid, ~ActiveHold(h),
         \A k \in HoldCid \ {h} : hold'[k] = hold[k], NEW r \in Ref
  PROVE  TotalHolds(r)' = TotalHolds(r) + Share(r, hold'[h].ref, hold'[h].amount)
<1>1. HoldsUnder(r)[h] = 0
  BY LedgerAssumption DEF HoldsUnder, ActiveHold
<1>2. HoldsUnder(r)'[h] = Share(r, hold'[h].ref, hold'[h].amount)
  BY DEF HoldsUnder, Share
<1>3. TotalHolds(r)' + HoldsUnder(r)[h] = TotalHolds(r) + HoldsUnder(r)'[h]
  BY OneHoldChanges
<1>4. IsFiniteSet(HoldCid)
  BY LedgerAssumption
<1>5. TotalHolds(r) \in Nat
  BY <1>4, HoldSummandsTyped, TotalType DEF TotalHolds
<1>6. TotalHolds(r)' \in Nat
  <2>1. \A k \in HoldCid : hold'[k].amount \in Nat
    BY DEF HoldsTyped, HoldRecord
  <2>2. HoldsUnder(r)' \in [HoldCid -> Nat]
    BY <2>1 DEF HoldsUnder
  <2>3. Total(HoldsUnder(r)', HoldCid) \in Nat
    BY <1>4, <2>2, TotalType
  <2> QED
    BY <2>3 DEF TotalHolds
<1> QED
  BY <1>1, <1>2, <1>3, <1>5, <1>6

\* ... and shrink by what is archived.
LEMMA HoldArchived ==
  ASSUME HoldsTyped, HoldsTyped', NEW h \in HoldCid, ActiveHold(h),
         Archive(h), NEW r \in Ref
  PROVE  TotalHolds(r)' = TotalHolds(r) + Share(r, hold[h].ref, 0 - hold[h].amount)
<1>1. hold[h].amount \in Nat
  BY DEF HoldsTyped, HoldRecord
<1>2. HoldsUnder(r)[h] + Share(r, hold[h].ref, 0 - hold[h].amount) = 0
  BY <1>1 DEF HoldsUnder, Share
<1>3. HoldsUnder(r)'[h] = 0
  BY LedgerAssumption DEF HoldsUnder, Archive, NoHold, HoldsTyped
<1>4. \A k \in HoldCid \ {h} : hold'[k] = hold[k]
  BY DEF Archive, HoldsTyped
<1>5. TotalHolds(r)' + HoldsUnder(r)[h] = TotalHolds(r) + HoldsUnder(r)'[h]
  BY <1>4, OneHoldChanges
<1>6. IsFiniteSet(HoldCid)
  BY LedgerAssumption
<1>7. TotalHolds(r) \in Nat
  BY <1>6, HoldSummandsTyped, TotalType DEF TotalHolds
<1>8. TotalHolds(r)' \in Nat
  <2>1. \A k \in HoldCid : hold'[k].amount \in Nat
    BY DEF HoldsTyped, HoldRecord
  <2>2. HoldsUnder(r)' \in [HoldCid -> Nat]
    BY <2>1 DEF HoldsUnder
  <2>3. Total(HoldsUnder(r)', HoldCid) \in Nat
    BY <1>6, <2>2, TotalType
  <2> QED
    BY <2>3 DEF TotalHolds
<1>9. HoldsUnder(r)[h] \in Nat /\ Share(r, hold[h].ref, 0 - hold[h].amount) \in Int
  BY <1>1 DEF HoldsUnder, Share
<1> QED
  BY <1>2, <1>3, <1>5, <1>7, <1>8, <1>9

\* SplitHolding moves nothing, whatever the amounts of the parts.
LEMMA SplitHoldingEffect ==
  ASSUME IInv, NEW c \in HoldingCid, NEW d \in HoldingCid,
         NEW first \in Nat, NEW second \in Nat, SplitHolding(c, d, first, second),
         NEW s
  PROVE  LedgerTypeOK' /\ EnsureClauses' /\ Effect(s, 0, 0)
<1> USE DEF IInv, LedgerTypeOK, HoldingsTyped, HoldsTyped, SplitHolding
<1>1. c # d
  OBVIOUS
<1>2. holding' \in [HoldingCid -> HoldingRecord]
  BY DEF HoldingRecord
<1>3. LedgerTypeOK'
  BY <1>2
<1>4. /\ \A e \in HoldingCid \ {c, d} : holding'[e] = holding[e]
      /\ holding'[c] = [holding[c] EXCEPT !.amount = first]
      /\ holding'[d] = [holding[c] EXCEPT !.amount = second]
  BY <1>1
<1>5. EnsureClauses'
  <2>1. ASSUME NEW e \in HoldingCid PROVE holding'[e].activeHolds <= holding'[e].amount
    <3>1. CASE e = c
      BY <3>1, <1>4 DEF HoldingRecord
    <3>2. CASE e = d
      BY <3>2, <1>4 DEF HoldingRecord
    <3>3. CASE e \notin {c, d}
      BY <3>3, <1>4 DEF EnsureClauses
    <3> QED
      BY <3>1, <3>2, <3>3
  <2> QED
    BY <2>1 DEF EnsureClauses, ActiveHold
<1>6. ASSUME NEW r \in Ref
      PROVE  TotalAmount(r)' = TotalAmount(r) /\ TotalActiveHolds(r)' = TotalActiveHolds(r)
  <2>1. AmountsUnder(r)'[c] + AmountsUnder(r)'[d]
          = AmountsUnder(r)[c] + AmountsUnder(r)[d]
    <3>1. AmountsUnder(r)[d] = 0
      BY LedgerAssumption DEF AmountsUnder, Active
    <3>2. holding[c].amount \in Nat
      BY DEF HoldingRecord
    <3>3. CASE holding[c].ref = r
      <4>1. AmountsUnder(r)[c] = first + second
        BY <3>3 DEF AmountsUnder
      <4>2. AmountsUnder(r)'[c] = first /\ AmountsUnder(r)'[d] = second
        BY <3>3, <1>4 DEF AmountsUnder, HoldingRecord
      <4> QED
        BY <3>1, <4>1, <4>2
    <3>4. CASE holding[c].ref # r
      <4>1. AmountsUnder(r)[c] = 0
        BY <3>4 DEF AmountsUnder
      <4>2. AmountsUnder(r)'[c] = 0 /\ AmountsUnder(r)'[d] = 0
        BY <3>4, <1>4 DEF AmountsUnder, HoldingRecord
      <4> QED
        BY <3>1, <4>1, <4>2
    <3> QED
      BY <3>3, <3>4
  <2>2. ActiveHoldsUnder(r)'[c] + ActiveHoldsUnder(r)'[d]
          = ActiveHoldsUnder(r)[c] + ActiveHoldsUnder(r)[d]
    <3>1. ActiveHoldsUnder(r)[d] = 0 /\ ActiveHoldsUnder(r)[c] = 0
      BY LedgerAssumption DEF ActiveHoldsUnder, Active
    <3>2. ActiveHoldsUnder(r)'[d] = 0 /\ ActiveHoldsUnder(r)'[c] = 0
      BY <1>4 DEF ActiveHoldsUnder, HoldingRecord
    <3> QED
      BY <3>1, <3>2
  <2> QED
    BY <1>1, <1>2, <1>4, <2>1, <2>2, TwoHoldingsChange
<1>7. \A r \in Ref : TotalHolds(r)' = TotalHolds(r) /\ supply'[r] = supply[r]
  BY HoldsKept
<1>8. \A r \in Ref : /\ TotalAmount(r) \in Nat /\ TotalActiveHolds(r) \in Nat
                     /\ TotalHolds(r) \in Nat /\ supply[r] \in Nat
  BY TotalsTyped
<1> QED
  BY <1>3, <1>5, <1>6, <1>7, <1>8 DEF Effect, Share

\* MergeHolding moves nothing.
LEMMA MergeHoldingEffect ==
  ASSUME IInv, NEW c \in HoldingCid, NEW d \in HoldingCid, MergeHolding(c, d), NEW s
  PROVE  LedgerTypeOK' /\ EnsureClauses' /\ Effect(s, 0, 0)
<1> USE DEF IInv, LedgerTypeOK, HoldingsTyped, HoldsTyped, MergeHolding
<1>1. NoHolding \in HoldingRecord
  BY DEF NoHolding, HoldingRecord
<1>2. /\ \A e \in HoldingCid \ {c, d} : holding'[e] = holding[e]
      /\ holding'[c] = [holding[c] EXCEPT !.amount = @ + holding[d].amount]
      /\ holding'[d] = NoHolding
  OBVIOUS
<1>3. holding'[c] \in HoldingRecord
  BY <1>2 DEF HoldingRecord
<1>4. holding' \in [HoldingCid -> HoldingRecord]
  BY <1>1, <1>3
<1>5. LedgerTypeOK'
  BY <1>4
<1>6. EnsureClauses'
  <2>1. ASSUME NEW e \in HoldingCid PROVE holding'[e].activeHolds <= holding'[e].amount
    <3>1. CASE e = c
      <4>1. holding'[c].activeHolds = 0
        BY <1>2 DEF HoldingRecord
      <4>2. holding'[c].amount \in Nat
        BY <1>3 DEF HoldingRecord
      <4> QED
        BY <3>1, <4>1, <4>2
    <3>2. CASE e = d
      BY <3>2, <1>2 DEF NoHolding
    <3>3. CASE e \notin {c, d}
      BY <3>3, <1>2 DEF EnsureClauses
    <3> QED
      BY <3>1, <3>2, <3>3
  <2> QED
    BY <2>1 DEF EnsureClauses, ActiveHold
<1>7. ASSUME NEW r \in Ref
      PROVE  TotalAmount(r)' = TotalAmount(r) /\ TotalActiveHolds(r)' = TotalActiveHolds(r)
  <2>1. AmountsUnder(r)'[c] + AmountsUnder(r)'[d]
          = AmountsUnder(r)[c] + AmountsUnder(r)[d]
    <3>1. AmountsUnder(r)'[d] = 0
      BY <1>2, LedgerAssumption DEF AmountsUnder, NoHolding
    <3>2. holding[c].amount \in Nat /\ holding[d].amount \in Nat
      BY DEF HoldingRecord
    <3>3. CASE holding[c].ref = r
      <4>1. /\ AmountsUnder(r)[c] = holding[c].amount
            /\ AmountsUnder(r)[d] = holding[d].amount
        BY <3>3 DEF AmountsUnder
      <4>2. AmountsUnder(r)'[c] = holding[c].amount + holding[d].amount
        BY <3>3, <1>2 DEF AmountsUnder, HoldingRecord
      <4> QED
        BY <3>1, <3>2, <4>1, <4>2
    <3>4. CASE holding[c].ref # r
      <4>1. AmountsUnder(r)[c] = 0 /\ AmountsUnder(r)[d] = 0
        BY <3>4 DEF AmountsUnder
      <4>2. AmountsUnder(r)'[c] = 0
        BY <3>4, <1>2 DEF AmountsUnder, HoldingRecord
      <4> QED
        BY <3>1, <4>1, <4>2
    <3> QED
      BY <3>3, <3>4
  <2>2. ActiveHoldsUnder(r)'[c] + ActiveHoldsUnder(r)'[d]
          = ActiveHoldsUnder(r)[c] + ActiveHoldsUnder(r)[d]
    <3>1. ActiveHoldsUnder(r)[d] = 0 /\ ActiveHoldsUnder(r)[c] = 0
      BY DEF ActiveHoldsUnder
    <3>2. ActiveHoldsUnder(r)'[d] = 0 /\ ActiveHoldsUnder(r)'[c] = 0
      BY <1>2, LedgerAssumption DEF ActiveHoldsUnder, HoldingRecord, NoHolding
    <3> QED
      BY <3>1, <3>2
  <2> QED
    BY <1>2, <1>4, <2>1, <2>2, TwoHoldingsChange
<1>8. \A r \in Ref : TotalHolds(r)' = TotalHolds(r) /\ supply'[r] = supply[r]
  BY HoldsKept
<1>9. \A r \in Ref : /\ TotalAmount(r) \in Nat /\ TotalActiveHolds(r) \in Nat
                     /\ TotalHolds(r) \in Nat /\ supply[r] \in Nat
  BY TotalsTyped
<1> QED
  BY <1>5, <1>6, <1>7, <1>8, <1>9 DEF Effect, Share

\* TransferOwnership moves nothing between references.
LEMMA TransferOwnershipEffect ==
  ASSUME IInv, NEW c \in HoldingCid, NEW p \in Party, TransferOwnership(c, p)
  PROVE  LedgerTypeOK' /\ EnsureClauses' /\ Effect(holding[c].ref, 0, 0)
<1> USE DEF IInv, LedgerTypeOK, HoldingsTyped, HoldsTyped, TransferOwnership
<1>1. LedgerTypeOK'
  BY DEF HoldingRecord
<1>2. /\ \A d \in HoldingCid \ {c} : holding'[d] = holding[d]
      /\ holding'[c].ref = holding[c].ref
      /\ holding'[c].amount = holding[c].amount
      /\ holding'[c].activeHolds = holding[c].activeHolds
  BY DEF HoldingRecord
<1>3. EnsureClauses'
  BY <1>2 DEF EnsureClauses, ActiveHold
<1>4. holding[c].amount \in Nat /\ holding[c].activeHolds \in Nat
  BY DEF HoldingRecord
<1>5. \A r \in Ref : /\ supply'[r] = supply[r] + Share(r, holding[c].ref, 0)
                     /\ TotalHolds(r)' = TotalHolds(r) + Share(r, holding[c].ref, 0)
  BY HoldsKept, TotalsTyped DEF Share
<1>6. /\ holding'[c].amount = holding[c].amount + 0
      /\ holding'[c].activeHolds = holding[c].activeHolds + 0
  BY <1>2, <1>4
<1>7. Effect(holding[c].ref, 0, 0)
  <2>1. Active(c)
    OBVIOUS
  <2> HIDE DEF IInv, LedgerTypeOK, HoldingsTyped, HoldsTyped, TransferOwnership
  <2> QED
    BY <1>1, <1>2, <1>5, <1>6, <2>1, OneHoldingEffect
<1> QED
  BY <1>1, <1>3, <1>7

\* ConsumeAmount takes its amount off the total.
LEMMA ConsumeAmountEffect ==
  ASSUME IInv, NEW c \in HoldingCid, NEW n \in Nat, ConsumeAmount(c, n)
  PROVE  /\ LedgerTypeOK' /\ EnsureClauses'
         /\ Effect(holding[c].ref, 0 - n, 0)
         /\ holding[c].ref \in Ref
<1> USE DEF IInv, LedgerTypeOK, HoldingsTyped, HoldsTyped, ConsumeAmount
<1> DEFINE s == holding[c].ref
<1>1. s \in Ref
  BY DEF Active, HoldingRecord
<1>2. /\ holding[c].amount \in Nat /\ holding[c].activeHolds \in Nat
      /\ n <= holding[c].amount - holding[c].activeHolds
  BY DEF HoldingRecord, Free
<1>3. holding[c].amount - n \in Nat
  BY <1>2
<1>4. supply[s] \in Nat /\ holding[c].amount <= supply[s]
  BY <1>1, PartOfTotal DEF SupplyConserved
<1>5. supply[s] - n \in Nat
  BY <1>2, <1>4
<1>6. /\ \A d \in HoldingCid \ {c} : holding'[d] = holding[d]
      /\ holding'[c] = [holding[c] EXCEPT !.amount = @ - n]
  OBVIOUS
<1>7. holding'[c] \in HoldingRecord
  BY <1>3, <1>6 DEF HoldingRecord
<1>8. LedgerTypeOK'
  BY <1>1, <1>5, <1>7
<1>9. /\ holding'[c].ref = s
      /\ holding'[c].amount = holding[c].amount - n
      /\ holding'[c].activeHolds = holding[c].activeHolds
  BY <1>6 DEF HoldingRecord
<1>10. EnsureClauses'
  <2>1. holding'[c].activeHolds <= holding'[c].amount
    BY <1>2, <1>9
  <2> QED
    BY <1>6, <2>1 DEF EnsureClauses, ActiveHold
<1>11. 0 - n \in Int /\ holding[c].amount - n = holding[c].amount + (0 - n)
       /\ holding[c].activeHolds = holding[c].activeHolds + 0
  BY <1>2
<1>12. \A r \in Ref : supply'[r] = supply[r] + Share(r, s, 0 - n)
  BY <1>1 DEF Share
<1>13. \A r \in Ref : TotalHolds(r)' = TotalHolds(r) + Share(r, s, 0)
  BY HoldsKept, TotalsTyped DEF Share
<1>14. Effect(s, 0 - n, 0)
  BY <1>6, <1>8, <1>9, <1>11, <1>12, <1>13, OneHoldingEffect
<1> QED
  BY <1>1, <1>8, <1>10, <1>14

\* IncreaseAmount adds its amount to the total.
LEMMA IncreaseAmountEffect ==
  ASSUME IInv, NEW c \in HoldingCid, NEW n \in Nat, IncreaseAmount(c, n)
  PROVE  /\ LedgerTypeOK' /\ EnsureClauses'
         /\ Effect(holding[c].ref, n, 0)
         /\ holding[c].ref \in Ref
<1> USE DEF IInv, LedgerTypeOK, HoldingsTyped, HoldsTyped, IncreaseAmount
<1> DEFINE s == holding[c].ref
<1>1. s \in Ref
  BY DEF Active, HoldingRecord
<1>2. holding[c].amount \in Nat /\ holding[c].activeHolds \in Nat
  BY DEF HoldingRecord
<1>3. /\ \A d \in HoldingCid \ {c} : holding'[d] = holding[d]
      /\ holding'[c] = [holding[c] EXCEPT !.amount = @ + n]
  BY DEF Increased
<1>4. holding'[c] \in HoldingRecord
  BY <1>2, <1>3 DEF HoldingRecord
<1>5. LedgerTypeOK'
  BY <1>1, <1>4 DEF Increased
<1>6. /\ holding'[c].ref = s
      /\ holding'[c].amount = holding[c].amount + n
      /\ holding'[c].activeHolds = holding[c].activeHolds
  BY <1>3 DEF HoldingRecord
<1>7. EnsureClauses'
  <2>1. holding'[c].activeHolds <= holding'[c].amount
    BY <1>2, <1>6 DEF EnsureClauses
  <2> QED
    BY <1>3, <2>1 DEF EnsureClauses, ActiveHold
<1>8. n \in Int /\ holding[c].activeHolds = holding[c].activeHolds + 0
  BY <1>2
<1>9. \A r \in Ref : supply'[r] = supply[r] + Share(r, s, n)
  BY <1>1 DEF Share
<1>10. \A r \in Ref : TotalHolds(r)' = TotalHolds(r) + Share(r, s, 0)
  BY HoldsKept, TotalsTyped DEF Share
<1>11. Effect(s, n, 0)
  <2>1. Active(c)
    OBVIOUS
  <2>2. \A d \in HoldingCid \ {c} : holding'[d] = holding[d]
    BY <1>3
  <2>3. n \in Int /\ 0 \in Int
    OBVIOUS
  <2>4. holding'[c].activeHolds = holding[c].activeHolds + 0
    BY <1>6, <1>8
  <2> HIDE DEF IInv, LedgerTypeOK, HoldingsTyped, HoldsTyped, IncreaseAmount
  <2> QED
    BY <1>5, <1>6, <1>9, <1>10, <2>1, <2>2, <2>3, <2>4, OneHoldingEffect
<1> QED
  BY <1>1, <1>5, <1>7, <1>11

\* CreateHold adds its amount to the locked units and to the Holds.
LEMMA CreateHoldEffect ==
  ASSUME IInv, NEW c \in HoldingCid, NEW h \in HoldCid, NEW n \in Nat \ {0},
         NEW e \in Time \cup {None}, CreateHold(c, h, n, e)
  PROVE  /\ LedgerTypeOK' /\ EnsureClauses'
         /\ Effect(holding[c].ref, 0, n)
         /\ holding[c].ref \in Ref
         /\ n <= Free(c)
<1> USE DEF IInv, LedgerTypeOK, HoldingsTyped, HoldsTyped, CreateHold
<1> DEFINE s == holding[c].ref
<1>1. s \in Ref
  BY DEF Active, HoldingRecord
<1>2. /\ holding[c].amount \in Nat /\ holding[c].activeHolds \in Nat
      /\ n <= holding[c].amount - holding[c].activeHolds
  BY DEF HoldingRecord, Free
<1>3. /\ \A d \in HoldingCid \ {c} : holding'[d] = holding[d]
      /\ holding'[c] = [holding[c] EXCEPT !.activeHolds = @ + n]
  OBVIOUS
<1>4. /\ \A k \in HoldCid \ {h} : hold'[k] = hold[k]
      /\ hold'[h] = [ref |-> s, ownerHolder |-> holding[c].holder,
                     amount |-> n, expiresAt |-> e]
  OBVIOUS
<1>5. holding'[c] \in HoldingRecord
  BY <1>2, <1>3 DEF HoldingRecord
<1>6. hold'[h] \in HoldRecord
  BY <1>1, <1>4 DEF HoldingRecord, HoldRecord
<1>7. LedgerTypeOK'
  BY <1>5, <1>6
<1>8. /\ holding'[c].ref = s
      /\ holding'[c].amount = holding[c].amount
      /\ holding'[c].activeHolds = holding[c].activeHolds + n
  BY <1>3 DEF HoldingRecord
<1>9. EnsureClauses'
  <2>1. holding'[c].activeHolds <= holding'[c].amount
    BY <1>2, <1>8
  <2>2. hold'[h].amount > 0
    BY <1>4
  <2>3. \A d \in HoldingCid : holding'[d].activeHolds <= holding'[d].amount
    BY <1>3, <2>1 DEF EnsureClauses
  <2>4. \A k \in HoldCid : hold'[k].ref # None => hold'[k].amount > 0
    BY <1>4, <2>2 DEF EnsureClauses, ActiveHold
  <2> QED
    BY <2>3, <2>4 DEF EnsureClauses, ActiveHold
<1>10. \A r \in Ref : supply'[r] = supply[r] + Share(r, s, 0)
  BY DEF Share
<1>11. \A r \in Ref : TotalHolds(r)' = TotalHolds(r) + Share(r, s, n)
  <2>1. hold'[h].ref = s /\ hold'[h].amount = n
    BY <1>4
  <2>2. HoldsTyped /\ HoldsTyped' /\ ~ActiveHold(h)
    BY <1>7
  <2> HIDE DEF IInv, LedgerTypeOK, HoldingsTyped, HoldsTyped, CreateHold
  <2> QED
    BY <1>4, <2>1, <2>2, HoldCreated
<1>12. Effect(s, 0, n)
  <2>1. Active(c)
    OBVIOUS
  <2>2. \A d \in HoldingCid \ {c} : holding'[d] = holding[d]
    BY <1>3
  <2>3. n \in Int /\ 0 \in Int
    OBVIOUS
  <2>4. holding'[c].amount = holding[c].amount + 0
    BY <1>2, <1>8
  <2> HIDE DEF IInv, LedgerTypeOK, HoldingsTyped, HoldsTyped, CreateHold
  <2> QED
    BY <1>7, <1>8, <1>10, <1>11, <2>1, <2>2, <2>3, <2>4, OneHoldingEffect
<1> QED
  BY <1>1, <1>7, <1>9, <1>12

\* What ReleaseHold, ConsumeHold and ExpireHold have in common.
LEMMA MatchedHold ==
  ASSUME IInv, NEW c \in HoldingCid, NEW h \in HoldCid, HoldMatches(c, h)
  PROVE  /\ holding[c].ref \in Ref /\ hold[h].ref = holding[c].ref
         /\ hold[h].amount \in Nat \ {0}
         /\ hold[h].amount <= holding[c].activeHolds
         /\ holding[c].activeHolds \in Nat /\ holding[c].amount \in Nat
         /\ hold[h].amount <= holding[c].amount
         /\ Active(c) /\ ActiveHold(h)
<1> USE DEF IInv, LedgerTypeOK, HoldMatches
<1>1. holding[c].ref \in Ref
  BY DEF Active, HoldingRecord
<1>2. hold[h].amount \in Nat /\ hold[h].amount > 0
  BY DEF HoldRecord, EnsureClauses
<1>3. holding[c].activeHolds \in Nat /\ holding[c].amount \in Nat
  BY DEF HoldingRecord
<1>4. holding[c].activeHolds <= holding[c].amount
  BY DEF EnsureClauses
<1> QED
  BY <1>1, <1>2, <1>3, <1>4

\* A hold goes and its units stay: ReleaseHold and ExpireHold.
LEMMA ReleasedEffect ==
  ASSUME IInv, NEW c \in HoldingCid, NEW h \in HoldCid, HoldMatches(c, h),
         Archive(h), holding' = Released(c, h), UNCHANGED supply
  PROVE  /\ LedgerTypeOK' /\ EnsureClauses'
         /\ Effect(holding[c].ref, 0, 0 - hold[h].amount)
<1> USE DEF IInv, LedgerTypeOK, HoldingsTyped, HoldsTyped
<1> DEFINE s == holding[c].ref
           n == hold[h].amount
<1>1. /\ s \in Ref /\ hold[h].ref = s
      /\ n \in Nat /\ n <= holding[c].activeHolds
      /\ holding[c].activeHolds \in Nat /\ holding[c].amount \in Nat
      /\ Active(c) /\ ActiveHold(h)
  BY MatchedHold
<1>2. holding[c].activeHolds - n \in Nat
  BY <1>1
<1>3. /\ \A d \in HoldingCid \ {c} : holding'[d] = holding[d]
      /\ holding'[c] = [holding[c] EXCEPT !.activeHolds = @ - n]
  BY DEF Released
<1>4. /\ \A k \in HoldCid \ {h} : hold'[k] = hold[k]
      /\ hold'[h] = NoHold
  BY DEF Archive
<1>5. holding'[c] \in HoldingRecord
  BY <1>2, <1>3 DEF HoldingRecord
<1>6. NoHold \in HoldRecord
  BY DEF HoldRecord, NoHold
<1>7. LedgerTypeOK'
  BY <1>5, <1>6 DEF Released, Archive
<1>8. /\ holding'[c].ref = s
      /\ holding'[c].amount = holding[c].amount
      /\ holding'[c].activeHolds = holding[c].activeHolds - n
  BY <1>3 DEF HoldingRecord
<1>9. EnsureClauses'
  <2>1. holding'[c].activeHolds <= holding'[c].amount
    BY <1>1, <1>8 DEF EnsureClauses
  <2>2. \A d \in HoldingCid : holding'[d].activeHolds <= holding'[d].amount
    BY <1>3, <2>1 DEF EnsureClauses
  <2>3. \A k \in HoldCid : hold'[k].ref # None => hold'[k].amount > 0
    BY <1>4 DEF EnsureClauses, ActiveHold, NoHold
  <2> QED
    BY <2>2, <2>3 DEF EnsureClauses, ActiveHold
<1>10. \A r \in Ref : supply'[r] = supply[r] + Share(r, s, 0)
  BY DEF Share
<1>11. \A r \in Ref : TotalHolds(r)' = TotalHolds(r) + Share(r, s, 0 - n)
  <2>1. HoldsTyped /\ HoldsTyped'
    BY <1>7
  <2> HIDE DEF IInv, LedgerTypeOK, HoldingsTyped, HoldsTyped
  <2> QED
    BY <1>1, <2>1, HoldArchived
<1>12. Effect(s, 0, 0 - n)
  <2>1. \A d \in HoldingCid \ {c} : holding'[d] = holding[d]
    BY <1>3
  <2>2. 0 - n \in Int /\ 0 \in Int
    BY <1>1
  <2>3. /\ holding'[c].amount = holding[c].amount + 0
        /\ holding'[c].activeHolds = holding[c].activeHolds + (0 - n)
    BY <1>1, <1>8
  <2> HIDE DEF IInv, LedgerTypeOK, HoldingsTyped, HoldsTyped
  <2> QED
    BY <1>1, <1>7, <1>8, <1>10, <1>11, <2>1, <2>2, <2>3, OneHoldingEffect
<1> QED
  BY <1>7, <1>9, <1>12

\* A hold goes and takes its units with it.
LEMMA ConsumeHoldEffect ==
  ASSUME IInv, NEW c \in HoldingCid, NEW h \in HoldCid, ConsumeHold(c, h)
  PROVE  /\ LedgerTypeOK' /\ EnsureClauses'
         /\ Effect(holding[c].ref, 0 - hold[h].amount, 0 - hold[h].amount)
<1> USE DEF IInv, LedgerTypeOK, HoldingsTyped, HoldsTyped, ConsumeHold
<1> DEFINE s == holding[c].ref
           n == hold[h].amount
<1>1. /\ s \in Ref /\ hold[h].ref = s
      /\ n \in Nat /\ n <= holding[c].activeHolds /\ n <= holding[c].amount
      /\ holding[c].activeHolds \in Nat /\ holding[c].amount \in Nat
      /\ Active(c) /\ ActiveHold(h)
  BY MatchedHold
<1>2. holding[c].activeHolds - n \in Nat /\ holding[c].amount - n \in Nat
  BY <1>1
<1>3. /\ \A d \in HoldingCid \ {c} : holding'[d] = holding[d]
      /\ holding'[c] = [holding[c] EXCEPT !.activeHolds = @ - n, !.amount = @ - n]
  BY DEF Consumed, HoldingRecord
<1>4. /\ \A k \in HoldCid \ {h} : hold'[k] = hold[k]
      /\ hold'[h] = NoHold
  BY DEF Archive
<1>5. supply[s] - n \in Nat
  <2>1. HoldingsTyped
    OBVIOUS
  <2>2. holding[c].amount <= TotalAmount(s)
    BY <1>1, <2>1, PartOfTotal
  <2>3. supply[s] \in Nat /\ TotalAmount(s) = supply[s]
    BY <1>1 DEF SupplyConserved
  <2> QED
    BY <1>1, <2>2, <2>3
<1>6. holding'[c] \in HoldingRecord
  BY <1>2, <1>3 DEF HoldingRecord
<1>7. NoHold \in HoldRecord
  BY DEF HoldRecord, NoHold
<1>8. LedgerTypeOK'
  <2>1. holding' \in [HoldingCid -> HoldingRecord]
    BY <1>6 DEF Consumed
  <2>2. hold' \in [HoldCid -> HoldRecord]
    BY <1>7 DEF Archive
  <2>3. supply' \in [Ref -> Nat]
    BY <1>5
  <2> QED
    BY <2>1, <2>2, <2>3
<1>9. /\ holding'[c].ref = s
      /\ holding'[c].amount = holding[c].amount - n
      /\ holding'[c].activeHolds = holding[c].activeHolds - n
  BY <1>3 DEF HoldingRecord
<1>10. EnsureClauses'
  <2>1. holding[c].activeHolds <= holding[c].amount
    BY DEF EnsureClauses
  <2>2. holding'[c].activeHolds <= holding'[c].amount
    BY <1>1, <1>9, <2>1
  <2>3. \A d \in HoldingCid : holding'[d].activeHolds <= holding'[d].amount
    BY <1>3, <2>2 DEF EnsureClauses
  <2>4. \A k \in HoldCid : hold'[k].ref # None => hold'[k].amount > 0
    BY <1>4 DEF EnsureClauses, ActiveHold, NoHold
  <2> QED
    BY <2>3, <2>4 DEF EnsureClauses, ActiveHold
<1>11. \A r \in Ref : supply'[r] = supply[r] + Share(r, s, 0 - n)
  BY <1>1, <1>5 DEF Share
<1>12. \A r \in Ref : TotalHolds(r)' = TotalHolds(r) + Share(r, s, 0 - n)
  <2>1. HoldsTyped /\ HoldsTyped' /\ Archive(h)
    BY <1>8
  <2> HIDE DEF IInv, LedgerTypeOK, HoldingsTyped, HoldsTyped, ConsumeHold
  <2> QED
    BY <1>1, <2>1, HoldArchived
<1>13. Effect(s, 0 - n, 0 - n)
  <2>1. \A d \in HoldingCid \ {c} : holding'[d] = holding[d]
    BY <1>3
  <2>2. 0 - n \in Int
    BY <1>1
  <2>3. /\ holding'[c].amount = holding[c].amount + (0 - n)
        /\ holding'[c].activeHolds = holding[c].activeHolds + (0 - n)
    BY <1>1, <1>9
  <2> HIDE DEF IInv, LedgerTypeOK, HoldingsTyped, HoldsTyped, ConsumeHold
  <2> QED
    BY <1>1, <1>8, <1>9, <1>11, <1>12, <2>1, <2>2, <2>3, OneHoldingEffect
<1> QED
  BY <1>8, <1>10, <1>13

-----------------------------------------------------------------------------
(* The invariant.                                                          *)

\* No contract is active initially.
LEMMA InitIInv == LedgerInit => IInv
<1> SUFFICES ASSUME LedgerInit PROVE IInv
  OBVIOUS
<1> USE DEF LedgerInit
<1>1. LedgerTypeOK
  BY DEF LedgerTypeOK, HoldingRecord, HoldRecord, NoHolding, NoHold
<1>2. AmountsBounded
  BY LedgerAssumption DEF AmountsBounded, NoHolding
<1>3. EnsureClauses
  BY DEF EnsureClauses, ActiveHold, NoHolding, NoHold
<1>4. ASSUME NEW r \in Ref
      PROVE  TotalAmount(r) = 0 /\ TotalActiveHolds(r) = 0 /\ TotalHolds(r) = 0
  <2>1. /\ \A c \in HoldingCid : AmountsUnder(r)[c] = 0 /\ ActiveHoldsUnder(r)[c] = 0
        /\ \A h \in HoldCid : HoldsUnder(r)[h] = 0
    BY DEF AmountsUnder, ActiveHoldsUnder, HoldsUnder, NoHolding, NoHold
  <2>2. Total(AmountsUnder(r), HoldingCid) = 0
    BY <2>1, TotalZero
  <2>3. Total(ActiveHoldsUnder(r), HoldingCid) = 0
    BY <2>1, TotalZero
  <2>4. Total(HoldsUnder(r), HoldCid) = 0
    BY <2>1, TotalZero
  <2> QED
    BY <2>2, <2>3, <2>4 DEF TotalAmount, TotalActiveHolds, TotalHolds
<1> QED
  BY <1>1, <1>2, <1>3, <1>4 DEF IInv, HoldsBacked, SupplyConserved

\* A step that has an Effect keeps the two sums in balance.
LEMMA EffectBalances ==
  ASSUME IInv, NEW s, NEW da, NEW dl, Effect(s, da, dl)
  PROVE  HoldsBacked' /\ SupplyConserved'
BY DEF IInv, Effect, HoldsBacked, SupplyConserved

\* Every choice that adds units compares the result with MaxAmount.
LEMMA AmountsStayBounded ==
  ASSUME IInv, LedgerNext
  PROVE  AmountsBounded'
<1> USE DEF IInv, AmountsBounded, LedgerTypeOK
<1>0. \A c \in HoldingCid : holding[c].amount \in Nat /\ holding[c].amount <= MaxAmount
  BY DEF HoldingRecord
<1>1. MaxAmount \in Nat
  BY LedgerAssumption
<1>2. ASSUME NEW c \in HoldingCid, NEW r \in Ref, NEW p \in Party,
             NEW n \in 0..MaxAmount, CreateHolding(c, r, p, n)
      PROVE  AmountsBounded'
  BY <1>2, <1>0, <1>1 DEF CreateHolding
<1>3. ASSUME NEW c \in HoldingCid, NEW d \in HoldingCid, NEW first \in Amount,
             NEW second \in Amount, SplitHolding(c, d, first, second)
      PROVE  AmountsBounded'
  <2>1. first <= MaxAmount /\ second <= MaxAmount
    BY <1>1 DEF Amount
  <2>2. \A e \in HoldingCid : \/ holding'[e] = holding[e]
                              \/ holding'[e].amount = first
                              \/ holding'[e].amount = second
    BY <1>3 DEF SplitHolding, HoldingRecord
  <2> QED
    BY <2>1, <2>2, <1>0
<1>4. ASSUME NEW c \in HoldingCid, NEW d \in HoldingCid, MergeHolding(c, d)
      PROVE  AmountsBounded'
  <2>1. \A e \in HoldingCid : \/ holding'[e] = holding[e]
                              \/ holding'[e].amount = 0
                              \/ holding'[e].amount = holding[c].amount + holding[d].amount
    BY <1>4 DEF MergeHolding, HoldingRecord, NoHolding
  <2>2. holding[c].amount + holding[d].amount <= MaxAmount
    BY <1>4 DEF MergeHolding
  <2> QED
    BY <2>1, <2>2, <1>0, <1>1
<1>5. ASSUME NEW c \in HoldingCid, NEW p \in Party, TransferOwnership(c, p)
      PROVE  AmountsBounded'
  <2>1. \A e \in HoldingCid : holding'[e].amount = holding[e].amount
    BY <1>5 DEF TransferOwnership, HoldingRecord
  <2> QED
    BY <2>1, <1>0
<1>6. ASSUME NEW c \in HoldingCid, NEW n \in Amount, ConsumeAmount(c, n)
      PROVE  AmountsBounded'
  <2>1. n \in Nat
    BY <1>1 DEF Amount
  <2>2. \A e \in HoldingCid : \/ holding'[e] = holding[e]
                              \/ holding'[e].amount = holding[e].amount - n
    BY <1>6 DEF ConsumeAmount, HoldingRecord
  <2>3. ASSUME NEW e \in HoldingCid PROVE holding'[e].amount <= MaxAmount
    <3>1. holding[e].amount \in Nat /\ holding[e].amount <= MaxAmount
      BY <1>0
    <3>2. holding[e].amount - n <= MaxAmount
      BY <3>1, <2>1, <1>1
    <3> QED
      BY <3>1, <3>2, <2>2
  <2> QED
    BY <2>3
<1>7. ASSUME NEW c \in HoldingCid, NEW n \in Amount, IncreaseAmount(c, n)
      PROVE  AmountsBounded'
  <2>1. \A e \in HoldingCid : \/ holding'[e] = holding[e]
                              \/ e = c /\ holding'[e].amount = holding[c].amount + n
    BY <1>7 DEF IncreaseAmount, Increased, HoldingRecord
  <2> QED
    BY <2>1, <1>0, <1>7 DEF IncreaseAmount
<1>8. ASSUME NEW c \in HoldingCid, NEW h \in HoldCid, NEW n \in Amount,
             NEW e \in Time \cup {None}, CreateHold(c, h, n, e)
      PROVE  AmountsBounded'
  <2>1. \A d \in HoldingCid : holding'[d].amount = holding[d].amount
    BY <1>8 DEF CreateHold, HoldingRecord
  <2> QED
    BY <2>1, <1>0
<1>9. ASSUME NEW c \in HoldingCid, NEW h \in HoldCid, holding' = Released(c, h)
      PROVE  AmountsBounded'
  <2>1. \A d \in HoldingCid : holding'[d].amount = holding[d].amount
    BY <1>9 DEF Released, HoldingRecord
  <2> QED
    BY <2>1, <1>0
<1>10. ASSUME NEW c \in HoldingCid, NEW h \in HoldCid, ConsumeHold(c, h)
       PROVE  AmountsBounded'
  <2>1. hold[h].amount \in Nat
    BY DEF HoldRecord
  <2>2. \A e \in HoldingCid : \/ holding'[e] = holding[e]
                              \/ holding'[e].amount = holding[e].amount - hold[h].amount
    BY <1>10 DEF ConsumeHold, Consumed, HoldingRecord
  <2>3. ASSUME NEW e \in HoldingCid PROVE holding'[e].amount <= MaxAmount
    <3>1. holding[e].amount \in Nat /\ holding[e].amount <= MaxAmount
      BY <1>0
    <3>2. holding[e].amount - hold[h].amount <= MaxAmount
      BY <3>1, <2>1, <1>1
    <3> QED
      BY <3>1, <3>2, <2>2
  <2> QED
    BY <2>3
<1> QED
  BY <1>2, <1>3, <1>4, <1>5, <1>6, <1>7, <1>8, <1>9, <1>10
     DEF LedgerNext, ReleaseHold, ExpireHold

-----------------------------------------------------------------------------
(* The refinement: an Effect is a step of Balances.                        *)

\* The sums are numbers in every state of the invariant.
LEMMA TotalsAreInts ==
  ASSUME IInv, NEW r \in Ref
  PROVE  TotalAmount(r) \in Nat /\ TotalActiveHolds(r) \in Nat
BY TotalsTyped DEF IInv, LedgerTypeOK, HoldingsTyped, HoldsTyped

\* A step without effect is a stutter of Balances.
LEMMA NoEffect ==
  ASSUME IInv, NEW s, Effect(s, 0, 0)
  PROVE  UNCHANGED Bal!balanceVars
<1>1. \A r \in Ref : /\ TotalAmount(r)' = TotalAmount(r)
                     /\ TotalActiveHolds(r)' = TotalActiveHolds(r)
  BY TotalsAreInts DEF Effect, Share
<1> QED
  BY <1>1 DEF Bal!balanceVars

\* Adding to the total is a Credit.
LEMMA EffectIsCredit ==
  ASSUME IInv, NEW s \in Ref, NEW n \in Nat, Effect(s, n, 0)
  PROVE  Bal!Credit(s, n)
<1>1. \A r \in Ref : /\ TotalAmount(r)' = IF r = s THEN TotalAmount(r) + n ELSE TotalAmount(r)
                     /\ TotalActiveHolds(r)' = TotalActiveHolds(r)
  BY TotalsAreInts DEF Effect, Share
<1> QED
  BY <1>1 DEF Bal!Credit

\* Taking free units off the total is a Debit.
LEMMA EffectIsDebit ==
  ASSUME IInv, NEW s \in Ref, NEW n \in Nat, Effect(s, 0 - n, 0),
         n <= TotalAmount(s) - TotalActiveHolds(s)
  PROVE  Bal!Debit(s, n)
<1>1. \A r \in Ref : /\ TotalAmount(r)' = IF r = s THEN TotalAmount(r) - n ELSE TotalAmount(r)
                     /\ TotalActiveHolds(r)' = TotalActiveHolds(r)
  BY TotalsAreInts DEF Effect, Share
<1> QED
  BY <1>1 DEF Bal!Debit, Bal!Available

\* Adding to the locked units is a Lock.
LEMMA EffectIsLock ==
  ASSUME IInv, NEW s \in Ref, NEW n \in Nat, Effect(s, 0, n),
         n <= TotalAmount(s) - TotalActiveHolds(s)
  PROVE  Bal!Lock(s, n)
<1>1. \A r \in Ref : /\ TotalAmount(r)' = TotalAmount(r)
                     /\ TotalActiveHolds(r)'
                          = IF r = s THEN TotalActiveHolds(r) + n ELSE TotalActiveHolds(r)
  BY TotalsAreInts DEF Effect, Share
<1> QED
  BY <1>1 DEF Bal!Lock, Bal!Available

\* Taking from the locked units is an Unlock.
LEMMA EffectIsUnlock ==
  ASSUME IInv, NEW s \in Ref, NEW n \in Nat, Effect(s, 0, 0 - n),
         n <= TotalActiveHolds(s)
  PROVE  Bal!Unlock(s, n)
<1>1. \A r \in Ref : /\ TotalAmount(r)' = TotalAmount(r)
                     /\ TotalActiveHolds(r)'
                          = IF r = s THEN TotalActiveHolds(r) - n ELSE TotalActiveHolds(r)
  BY TotalsAreInts DEF Effect, Share
<1> QED
  BY <1>1 DEF Bal!Unlock

\* Taking locked units off both is a SpendLocked.
LEMMA EffectIsSpend ==
  ASSUME IInv, NEW s \in Ref, NEW n \in Nat, Effect(s, 0 - n, 0 - n),
         n <= TotalActiveHolds(s)
  PROVE  Bal!SpendLocked(s, n)
<1>1. \A r \in Ref :
        /\ TotalAmount(r)' = IF r = s THEN TotalAmount(r) - n ELSE TotalAmount(r)
        /\ TotalActiveHolds(r)'
             = IF r = s THEN TotalActiveHolds(r) - n ELSE TotalActiveHolds(r)
  BY TotalsAreInts DEF Effect, Share
<1> QED
  BY <1>1 DEF Bal!SpendLocked

\* What is free on one Holding is available under its reference.
LEMMA FreeIsAvailable ==
  ASSUME IInv, NEW c \in HoldingCid, Active(c)
  PROVE  Free(c) <= TotalAmount(holding[c].ref) - TotalActiveHolds(holding[c].ref)
<1> DEFINE s == holding[c].ref
           f == ActiveHoldsUnder(s)
           g == [AmountsUnder(s) EXCEPT ![c] = holding[c].activeHolds]
<1>1. HoldingsTyped /\ HoldsTyped /\ EnsureClauses
  BY DEF IInv, LedgerTypeOK, HoldingsTyped, HoldsTyped
<1>2. IsFiniteSet(HoldingCid)
  BY LedgerAssumption
<1>3. holding[c].amount \in Nat /\ holding[c].activeHolds \in Nat
  BY <1>1 DEF HoldingsTyped, HoldingRecord
<1>4. AmountsUnder(s) \in [HoldingCid -> Nat] /\ f \in [HoldingCid -> Nat]
  BY <1>1, SummandsTyped
<1>5. g \in [HoldingCid -> Nat]
  BY <1>3, <1>4
<1>6. \A d \in HoldingCid : f[d] <= g[d]
  <2>1. \A d \in HoldingCid : f[d] <= AmountsUnder(s)[d]
    BY <1>1 DEF EnsureClauses, ActiveHoldsUnder, AmountsUnder
  <2>2. f[c] = holding[c].activeHolds /\ f[c] <= f[c]
    BY <1>3 DEF ActiveHoldsUnder
  <2>3. \A d \in HoldingCid : g[d] = IF d = c THEN holding[c].activeHolds ELSE AmountsUnder(s)[d]
    BY <1>4
  <2> HIDE DEF f, g
  <2> QED
    BY <2>1, <2>2, <2>3
<1>7. Total(g, HoldingCid) + AmountsUnder(s)[c]
        = Total(AmountsUnder(s), HoldingCid) + holding[c].activeHolds
  BY <1>2, <1>3, <1>4, TotalUpdate
<1>8. AmountsUnder(s)[c] = holding[c].amount
  BY DEF AmountsUnder
<1> HIDE DEF f, g
<1>9. Total(f, HoldingCid) <= Total(g, HoldingCid)
  BY <1>2, <1>4, <1>5, <1>6, TotalMonotone
<1>10. Total(f, HoldingCid) \in Nat /\ Total(g, HoldingCid) \in Nat
  BY <1>2, <1>4, <1>5, TotalType
<1>11. Total(AmountsUnder(s), HoldingCid) \in Nat
  BY <1>2, <1>4, TotalType
<1>12. TotalAmount(s) = Total(AmountsUnder(s), HoldingCid)
  BY DEF TotalAmount
<1>13. TotalActiveHolds(s) = Total(f, HoldingCid)
  BY DEF TotalActiveHolds, f
<1>14. holding[c].amount - holding[c].activeHolds
         <= Total(AmountsUnder(s), HoldingCid) - Total(f, HoldingCid)
  BY <1>3, <1>7, <1>8, <1>9, <1>10, <1>11
<1> QED
  BY <1>12, <1>13, <1>14 DEF Free

-----------------------------------------------------------------------------
(* Every choice keeps the invariant and is a step of Balances, or none.    *)

StepKept == IInv' /\ (Bal!BalancesNext \/ UNCHANGED Bal!balanceVars)

\* What remains to be shown of a step once its Effect is known.
LEMMA StepFromEffect ==
  ASSUME IInv, LedgerNext, NEW s, NEW da, NEW dl, Effect(s, da, dl),
         LedgerTypeOK', EnsureClauses'
  PROVE  IInv'
<1>1. HoldsBacked' /\ SupplyConserved'
  BY EffectBalances
<1>2. AmountsBounded'
  BY AmountsStayBounded
<1> QED
  BY <1>1, <1>2 DEF IInv

\* Every choice keeps the invariant and is a step of Balances or none.
LEMMA NextKeeps == IInv /\ LedgerNext => StepKept
<1> SUFFICES ASSUME IInv, LedgerNext PROVE StepKept
  OBVIOUS
<1>0. MaxAmount \in Nat /\ Amount \subseteq Nat \ {0} /\ Amount = 1..MaxAmount
  BY LedgerAssumption DEF Amount
<1>a. ASSUME NEW c \in HoldingCid, Active(c)
      PROVE  holding[c].ref \in Ref
  BY <1>a DEF IInv, LedgerTypeOK, Active, HoldingRecord
<1>b. ASSUME NEW c \in HoldingCid, NEW h \in HoldCid, HoldMatches(c, h)
      PROVE  /\ holding[c].ref \in Ref
             /\ hold[h].amount \in 1..MaxAmount
             /\ hold[h].amount \in Nat
             /\ hold[h].amount <= TotalActiveHolds(holding[c].ref)
  <2>1. /\ holding[c].ref \in Ref
        /\ hold[h].amount \in Nat \ {0}
        /\ hold[h].amount <= holding[c].activeHolds
        /\ holding[c].activeHolds \in Nat /\ holding[c].amount \in Nat
        /\ hold[h].amount <= holding[c].amount
        /\ Active(c)
    BY <1>b, MatchedHold
  <2>2. HoldingsTyped
    BY DEF IInv, LedgerTypeOK, HoldingsTyped
  <2>3. holding[c].activeHolds <= TotalActiveHolds(holding[c].ref)
    BY <2>1, <2>2, PartOfTotal
  <2>4. TotalActiveHolds(holding[c].ref) \in Nat
    BY <2>1, TotalsAreInts
  <2>5. holding[c].amount <= MaxAmount
    BY DEF IInv, AmountsBounded
  <2> QED
    BY <2>1, <2>3, <2>4, <2>5, <1>0
<1>1. ASSUME NEW c \in HoldingCid, NEW r \in Ref, NEW p \in Party,
             NEW n \in 0..MaxAmount, CreateHolding(c, r, p, n)
      PROVE  StepKept
  <2>0. n \in Nat
    BY <1>0
  <2>1. LedgerTypeOK' /\ EnsureClauses' /\ Effect(r, n, 0)
    BY <1>1, <2>0, CreateHoldingEffect
  <2>2. IInv'
    BY <2>1, StepFromEffect
  <2>3. CASE n = 0
    BY <2>1, <2>2, <2>3, NoEffect DEF StepKept
  <2>4. CASE n # 0
    <3>1. n \in 1..MaxAmount
      BY <2>4, <1>0
    <3>2. Bal!Credit(r, n)
      BY <2>0, <2>1, EffectIsCredit
    <3> QED
      BY <3>1, <3>2, <2>2 DEF StepKept, Bal!BalancesNext
  <2> QED
    BY <2>3, <2>4
<1>2. ASSUME NEW c \in HoldingCid, NEW d \in HoldingCid, NEW first \in Amount,
             NEW second \in Amount, SplitHolding(c, d, first, second)
      PROVE  StepKept
  <2>1. LedgerTypeOK' /\ EnsureClauses' /\ Effect(0, 0, 0)
    BY <1>0, <1>2, SplitHoldingEffect
  <2> QED
    BY <2>1, StepFromEffect, NoEffect DEF StepKept
<1>3. ASSUME NEW c \in HoldingCid, NEW d \in HoldingCid, MergeHolding(c, d)
      PROVE  StepKept
  <2>1. LedgerTypeOK' /\ EnsureClauses' /\ Effect(0, 0, 0)
    BY <1>3, MergeHoldingEffect
  <2> QED
    BY <2>1, StepFromEffect, NoEffect DEF StepKept
<1>4. ASSUME NEW c \in HoldingCid, NEW p \in Party, TransferOwnership(c, p)
      PROVE  StepKept
  <2>1. LedgerTypeOK' /\ EnsureClauses' /\ Effect(holding[c].ref, 0, 0)
    BY <1>4, TransferOwnershipEffect
  <2> QED
    BY <2>1, StepFromEffect, NoEffect DEF StepKept
<1>5. ASSUME NEW c \in HoldingCid, NEW n \in Amount, ConsumeAmount(c, n)
      PROVE  StepKept
  <2>1. n \in Nat /\ n \in 1..MaxAmount
    BY <1>0
  <2>2. /\ LedgerTypeOK' /\ EnsureClauses'
        /\ Effect(holding[c].ref, 0 - n, 0) /\ holding[c].ref \in Ref
    BY <1>5, <2>1, ConsumeAmountEffect
  <2>3. n <= TotalAmount(holding[c].ref) - TotalActiveHolds(holding[c].ref)
    <3>1. n <= Free(c) /\ Active(c)
      BY <1>5 DEF ConsumeAmount
    <3>2. Free(c) \in Int
      BY DEF IInv, LedgerTypeOK, HoldingRecord, Free
    <3>3. Free(c) <= TotalAmount(holding[c].ref) - TotalActiveHolds(holding[c].ref)
      BY <3>1, FreeIsAvailable
    <3>4. /\ TotalAmount(holding[c].ref) \in Nat
          /\ TotalActiveHolds(holding[c].ref) \in Nat
      BY <2>2, TotalsAreInts
    <3> QED
      BY <3>1, <3>2, <3>3, <3>4, <2>1
  <2>4. Bal!Debit(holding[c].ref, n)
    BY <2>1, <2>2, <2>3, EffectIsDebit
  <2>5. IInv'
    BY <2>2, StepFromEffect
  <2> QED
    BY <2>1, <2>2, <2>4, <2>5 DEF StepKept, Bal!BalancesNext
<1>6. ASSUME NEW c \in HoldingCid, NEW n \in Amount, IncreaseAmount(c, n)
      PROVE  StepKept
  <2>1. n \in Nat /\ n \in 1..MaxAmount
    BY <1>0
  <2>2. /\ LedgerTypeOK' /\ EnsureClauses'
        /\ Effect(holding[c].ref, n, 0) /\ holding[c].ref \in Ref
    BY <1>6, <2>1, IncreaseAmountEffect
  <2>3. Bal!Credit(holding[c].ref, n)
    BY <2>1, <2>2, EffectIsCredit
  <2>4. IInv'
    BY <2>2, StepFromEffect
  <2> QED
    BY <2>1, <2>2, <2>3, <2>4 DEF StepKept, Bal!BalancesNext
<1>7. ASSUME NEW c \in HoldingCid, NEW h \in HoldCid, NEW n \in Amount,
             NEW e \in Time \cup {None}, CreateHold(c, h, n, e)
      PROVE  StepKept
  <2>1. n \in Nat \ {0} /\ n \in 1..MaxAmount
    BY <1>0
  <2>2. /\ LedgerTypeOK' /\ EnsureClauses'
        /\ Effect(holding[c].ref, 0, n) /\ holding[c].ref \in Ref /\ n <= Free(c)
    BY <1>7, <2>1, CreateHoldEffect
  <2>3. n <= TotalAmount(holding[c].ref) - TotalActiveHolds(holding[c].ref)
    <3>1. Active(c)
      BY <1>7 DEF CreateHold
    <3>2. Free(c) \in Int
      BY DEF IInv, LedgerTypeOK, HoldingRecord, Free
    <3>3. Free(c) <= TotalAmount(holding[c].ref) - TotalActiveHolds(holding[c].ref)
      BY <3>1, FreeIsAvailable
    <3>4. /\ TotalAmount(holding[c].ref) \in Nat
          /\ TotalActiveHolds(holding[c].ref) \in Nat
      BY <2>2, TotalsAreInts
    <3> QED
      BY <3>2, <3>3, <3>4, <2>1, <2>2
  <2>4. Bal!Lock(holding[c].ref, n)
    BY <2>1, <2>2, <2>3, EffectIsLock
  <2>5. IInv'
    BY <2>2, StepFromEffect
  <2> QED
    BY <2>1, <2>2, <2>4, <2>5 DEF StepKept, Bal!BalancesNext
<1>8. ASSUME NEW c \in HoldingCid, NEW h \in HoldCid, HoldMatches(c, h),
             Archive(h), holding' = Released(c, h), UNCHANGED supply
      PROVE  StepKept
  <2>1. LedgerTypeOK' /\ EnsureClauses' /\ Effect(holding[c].ref, 0, 0 - hold[h].amount)
    BY <1>8, ReleasedEffect
  <2>2. /\ holding[c].ref \in Ref /\ hold[h].amount \in 1..MaxAmount
        /\ hold[h].amount \in Nat
        /\ hold[h].amount <= TotalActiveHolds(holding[c].ref)
    BY <1>8, <1>b
  <2>3. Bal!Unlock(holding[c].ref, hold[h].amount)
    BY <2>1, <2>2, EffectIsUnlock
  <2>4. IInv'
    BY <2>1, StepFromEffect
  <2> QED
    BY <2>2, <2>3, <2>4 DEF StepKept, Bal!BalancesNext
<1>9. ASSUME NEW c \in HoldingCid, NEW h \in HoldCid, ConsumeHold(c, h)
      PROVE  StepKept
  <2>0. HoldMatches(c, h)
    BY <1>9 DEF ConsumeHold
  <2>1. /\ LedgerTypeOK' /\ EnsureClauses'
        /\ Effect(holding[c].ref, 0 - hold[h].amount, 0 - hold[h].amount)
    BY <1>9, ConsumeHoldEffect
  <2>2. /\ holding[c].ref \in Ref /\ hold[h].amount \in 1..MaxAmount
        /\ hold[h].amount \in Nat
        /\ hold[h].amount <= TotalActiveHolds(holding[c].ref)
    BY <2>0, <1>b
  <2>3. Bal!SpendLocked(holding[c].ref, hold[h].amount)
    BY <2>1, <2>2, EffectIsSpend
  <2>4. IInv'
    BY <2>1, StepFromEffect
  <2> QED
    BY <2>2, <2>3, <2>4 DEF StepKept, Bal!BalancesNext
<1> QED
  BY <1>1, <1>2, <1>3, <1>4, <1>5, <1>6, <1>7, <1>8, <1>9
     DEF LedgerNext, ReleaseHold, ExpireHold

\* So does a step that changes nothing.
LEMMA StutterKeeps == IInv /\ UNCHANGED ledgerVars => StepKept
<1> SUFFICES ASSUME IInv, UNCHANGED ledgerVars PROVE StepKept
  OBVIOUS
<1>1. \A r : /\ TotalAmount(r)' = TotalAmount(r)
             /\ TotalActiveHolds(r)' = TotalActiveHolds(r)
             /\ TotalHolds(r)' = TotalHolds(r)
  BY DEF ledgerVars, TotalAmount, TotalActiveHolds, TotalHolds,
         AmountsUnder, ActiveHoldsUnder, HoldsUnder
<1>2. LedgerTypeOK' /\ AmountsBounded' /\ EnsureClauses'
  BY DEF IInv, ledgerVars, LedgerTypeOK, AmountsBounded, EnsureClauses, ActiveHold
<1>3. HoldsBacked' /\ SupplyConserved'
  BY <1>1 DEF IInv, ledgerVars, HoldsBacked, SupplyConserved
<1>4. UNCHANGED Bal!balanceVars
  BY <1>1 DEF Bal!balanceVars
<1> QED
  BY <1>2, <1>3, <1>4 DEF IInv, StepKept

\* IInv is an invariant of every behaviour of the Holding and Hold contracts.
THEOREM InvariantHolds == LedgerSpec => []IInv
<1>1. LedgerInit => IInv
  BY InitIInv
<1>2. IInv /\ [LedgerNext]_ledgerVars => IInv'
  BY NextKeeps, StutterKeeps DEF StepKept
<1> QED
  BY <1>1, <1>2, PTL DEF LedgerSpec

\* Every reachable set of Holding and Hold contracts is well typed, with no
\* negative amount (the assertions of ConsumeAmount .. ExpireHold in Holding.daml).
THEOREM TypesHold == LedgerSpec => []LedgerTypeOK
<1>1. IInv => LedgerTypeOK
  BY DEF IInv
<1> QED
  BY <1>1, InvariantHolds, PTL

\* No choice ever creates a Holding or a Hold its ensure clause rejects, so
\* no transaction aborts on a clause after all its assertions passed.
THEOREM EnsureClausesHold == LedgerSpec => []EnsureClauses
<1>1. IInv => EnsureClauses
  BY DEF IInv
<1> QED
  BY <1>1, InvariantHolds, PTL

\* The locks counted on the Holdings of a reference are the Hold contracts of
\* that reference, whichever Holding each Hold is settled against.
THEOREM LocksAreBacked == LedgerSpec => []HoldsBacked
<1>1. IInv => HoldsBacked
  BY DEF IInv
<1> QED
  BY <1>1, InvariantHolds, PTL

\* The Holdings of a reference add up to what was issued less what was consumed.
THEOREM SupplyIsConserved == LedgerSpec => []SupplyConserved
<1>1. IInv => SupplyConserved
  BY DEF IInv
<1> QED
  BY <1>1, InvariantHolds, PTL

\* Without contracts every balance is zero.
LEMMA LedgerInitMaps == LedgerInit => Bal!BalancesInit
<1> SUFFICES ASSUME LedgerInit PROVE Bal!BalancesInit
  OBVIOUS
<1>1. IInv
  BY InitIInv
<1>2. \A r \in Ref : supply[r] = 0
  BY DEF LedgerInit
<1>3. \A r \in Ref : TotalAmount(r) = 0
  BY <1>1, <1>2 DEF IInv, SupplyConserved
<1>4. \A r \in Ref : TotalActiveHolds(r) <= TotalAmount(r) /\ TotalActiveHolds(r) \in Nat
  BY <1>1, LockedWithinTotal, TotalsAreInts DEF IInv, LedgerTypeOK, HoldingsTyped
<1>5. \A r \in Ref : TotalActiveHolds(r) = 0
  BY <1>3, <1>4
<1> QED
  BY <1>3, <1>5 DEF Bal!BalancesInit

\* The Holding and Hold contracts of a reference behave as one balance with a
\* locked part.
THEOREM LedgerImplementsBalances == LedgerSpec => ImplementsBalances
<1>1. IInv /\ [LedgerNext]_ledgerVars => [Bal!BalancesNext]_(Bal!balanceVars)
  BY NextKeeps, StutterKeeps DEF StepKept
<1> QED
  BY <1>1, LedgerInitMaps, InvariantHolds, PTL
     DEF LedgerSpec, ImplementsBalances, Bal!BalancesSpec

=============================================================================
