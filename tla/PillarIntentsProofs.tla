------------------------- MODULE PillarIntentsProofs -------------------------
(***************************************************************************)
(* For every set of intents, terms, traces and rules: an intent moves its  *)
(* units at most once, nothing moves units for a closed intent, a trace    *)
(* records one submission, a transfer conserves what each tenant has of    *)
(* each asset, and the contracts the intents drive keep the invariant of   *)
(* HoldingLedger and implement Balances.                                   *)
(*                                                                         *)
(* A step is looked at twice: for what it does to the intent and its trace *)
(* (IntentStep), and for what it does to the Holdings and Holds            *)
(* (LedgerStep).  The second is a choice of HoldingLedger, nothing, or the *)
(* one transaction no choice of HoldingLedger is: a confirmed transfer.    *)
(***************************************************************************)
EXTENDS PillarIntents, HoldingLedgerProofs

\* How far an intent has come says how often it moved its units: a transfer
\* moves them when it is confirmed, the others when they succeed.
UnitsFollowStatus ==
  \A i \in IntentId :
    /\ status[i] = "RequiresAction" => moved[i] = 0
    /\ status[i] = "Processing" => moved[i] = (IF i \in TransferId THEN 1 ELSE 0)
    /\ status[i] = "Succeeded" => moved[i] = 1
    /\ moved[i] \in {0, 1}

\* A trace that an intent was confirmed with has left "Received" for good.
TraceIsUsedUp ==
  \A t \in TraceCid :
    submitters[t] # {} =>
      /\ trace[t] # "Received"
      /\ \E i \in IntentId : submitters[t] = {i}

PillarInv ==
  /\ PillarTypeOK
  /\ UnitsFollowStatus
  /\ TraceIsUsedUp
  /\ IInv

-----------------------------------------------------------------------------
(* What a step does to an intent and its trace.                            *)

IntentTypes ==
  /\ status \in [IntentId -> IntentStatus]
  /\ trace \in [TraceCid -> OperationStatus]
  /\ moved \in [IntentId -> Nat]
  /\ submitters \in [TraceCid -> SUBSET IntentId]

RulesTyped == rules \in [RulesCid -> RulesRecord \cup {NoRules}]

\* Only these operators set the status of an OperationTrace.
TraceRecords(t) ==
  \/ RecordSubmitted(t)
  \/ RecordCompleted(t)
  \/ RecordFailed(t)
  \/ MarkProjected(t)

\* Issue and redeem: confirmed first ...
ConfirmsOnly(i, t) ==
  /\ i \notin TransferId
  /\ EnsureRequiresAction(i)
  /\ Submits(i, t)
  /\ UpdateStatus(i, "Processing")
  /\ UNCHANGED moved

\* ... and settled later.
Settles(i, t) ==
  /\ i \notin TransferId
  /\ EnsureProcessing(i)
  /\ MarkProjected(t)
  /\ UpdateStatus(i, "Succeeded")
  /\ Moves(i)
  /\ UNCHANGED submitters

\* A transfer: settled as it is confirmed ...
ConfirmsAndSettles(i, t) ==
  /\ i \in TransferId
  /\ EnsureRequiresAction(i)
  /\ Submits(i, t)
  /\ UpdateStatus(i, "Processing")
  /\ Moves(i)

\* ... and reported later.
Reports(i, t) ==
  /\ i \in TransferId
  /\ EnsureProcessing(i)
  /\ RecordCompleted(t)
  /\ UpdateStatus(i, "Succeeded")
  /\ UNCHANGED <<moved, submitters>>

Closes(i) ==
  /\ \E s \in {"Failed", "Canceled", "Expired"} : UpdateStatus(i, s)
  /\ UNCHANGED trace \/ \E t \in TraceCid : RecordFailed(t)
  /\ UNCHANGED <<moved, submitters>>

NoIntentMoves ==
  /\ UNCHANGED intentVars
  /\ UNCHANGED trace \/ \E t \in TraceCid : TraceRecords(t)

IntentStep ==
  \/ \E i \in IntentId, t \in TraceCid :
       \/ ConfirmsOnly(i, t)
       \/ Settles(i, t)
       \/ ConfirmsAndSettles(i, t)
       \/ Reports(i, t)
  \/ \E i \in IntentId : Closes(i)
  \/ NoIntentMoves

\* What a confirmed transfer i does to the Holdings c and d and to the Hold h.
Transferred(i, c, d, h) ==
  LET n == Terms[i].amount IN
  /\ HoldingOf(c, Terms[i].from, Terms[i].asset)
  /\ HoldingOf(d, Terms[i].to, Terms[i].asset)
  /\ SameTenant(c, d)
  /\ hold[h].amount = n
  /\ HoldMatches(c, h)
  /\ holding[d].amount + n <= MaxAmount
  /\ Archive(h)
  /\ holding' = Increased(Consumed(c, h), d, n)
  /\ supply' = [supply EXCEPT ![holding[c].ref] = @ - n, ![holding[d].ref] = @ + n]

\* All that a transfer's choices do to them.
TransferLedgerStep ==
  \/ UNCHANGED ledgerVars
  \/ \E c \in HoldingCid, h \in HoldCid : ReleaseHold(c, h)
  \/ \E i \in TransferId, c, d \in HoldingCid, h \in HoldCid : Transferred(i, c, d, h)

LedgerStep ==
  \/ LedgerNext
  \/ UNCHANGED ledgerVars
  \/ \E i \in TransferId, c, d \in HoldingCid, h \in HoldCid : Transferred(i, c, d, h)

\* Issue and redeem intents are not transfers.
LEMMA KindsDiffer ==
  \A i \in IssueId \cup RedeemId : i \in IntentId /\ i \notin TransferId
BY IntentAssumption DEF IntentId

\* Every choice on an IssueIntent is one of the steps above, with one choice
\* of Holding.daml or none.
LEMMA IssueSteps == IssueNext => IntentStep /\ LedgerStep /\ UNCHANGED rules
<1> SUFFICES ASSUME NEW i \in IssueId,
                    \/ CancelIssue(i)
                    \/ \E now \in Time : ExpireIssue(i, now)
                    \/ \E t \in TraceCid :
                         \/ ConfirmIssue(i, t)
                         \/ FailIssue(i, t)
                         \/ \E c \in HoldingCid : MarkIssueSucceeded(i, c, t)
             PROVE  IntentStep /\ LedgerStep /\ UNCHANGED rules
  BY DEF IssueNext
<1>0. i \in IntentId /\ i \notin TransferId
  BY KindsDiffer
<1>1. CASE CancelIssue(i)
  <2>1. Closes(i)
    BY <1>1 DEF CancelIssue, Cancel, Closes
  <2> QED
    BY <1>0, <1>1, <2>1 DEF CancelIssue, Cancel, IntentStep, LedgerStep
<1>2. CASE \E now \in Time : ExpireIssue(i, now)
  <2>1. Closes(i)
    BY <1>2 DEF ExpireIssue, Expire, Closes
  <2> QED
    BY <1>0, <1>2, <2>1 DEF ExpireIssue, Expire, IntentStep, LedgerStep
<1>3. ASSUME NEW t \in TraceCid, ConfirmIssue(i, t)
      PROVE  IntentStep /\ LedgerStep /\ UNCHANGED rules
  <2>1. ConfirmsOnly(i, t)
    BY <1>0, <1>3 DEF ConfirmIssue, Confirm, ConfirmsOnly
  <2> QED
    BY <1>0, <1>3, <2>1 DEF ConfirmIssue, Confirm, IntentStep, LedgerStep
<1>4. ASSUME NEW t \in TraceCid, FailIssue(i, t)
      PROVE  IntentStep /\ LedgerStep /\ UNCHANGED rules
  <2>1. Closes(i)
    BY <1>4 DEF FailIssue, Fail, Closes
  <2> QED
    BY <1>0, <1>4, <2>1 DEF FailIssue, Fail, IntentStep, LedgerStep
<1>5. ASSUME NEW t \in TraceCid, NEW c \in HoldingCid, MarkIssueSucceeded(i, c, t)
      PROVE  IntentStep /\ LedgerStep /\ UNCHANGED rules
  <2>1. Settles(i, t)
    BY <1>0, <1>5 DEF MarkIssueSucceeded, Settles
  <2>2. IncreaseAmount(c, Terms[i].amount) /\ UNCHANGED rules
    BY <1>5 DEF MarkIssueSucceeded
  <2>3. Terms[i].amount \in Amount
    BY <1>0, IntentAssumption
  <2>4. LedgerNext
    BY <2>2, <2>3 DEF LedgerNext
  <2> QED
    BY <1>0, <2>1, <2>2, <2>4 DEF IntentStep, LedgerStep
<1> QED
  BY <1>1, <1>2, <1>3, <1>4, <1>5

\* The same of a RedeemIntent, which consumes a Hold when it settles.
LEMMA RedeemSteps == RedeemNext => IntentStep /\ LedgerStep /\ UNCHANGED rules
<1> SUFFICES ASSUME NEW i \in RedeemId,
                    \/ CancelRedeem(i)
                    \/ \E now \in Time : ExpireRedeem(i, now)
                    \/ \E t \in TraceCid :
                         \/ ConfirmRedeem(i, t)
                         \/ FailRedeem(i, t)
                         \/ \E c \in HoldingCid, h \in HoldCid :
                              MarkRedeemSucceeded(i, c, h, t)
             PROVE  IntentStep /\ LedgerStep /\ UNCHANGED rules
  BY DEF RedeemNext
<1>0. i \in IntentId /\ i \notin TransferId
  BY KindsDiffer
<1>1. CASE CancelRedeem(i)
  <2>1. Closes(i)
    BY <1>1 DEF CancelRedeem, Cancel, Closes
  <2> QED
    BY <1>0, <1>1, <2>1 DEF CancelRedeem, Cancel, IntentStep, LedgerStep
<1>2. CASE \E now \in Time : ExpireRedeem(i, now)
  <2>1. Closes(i)
    BY <1>2 DEF ExpireRedeem, Expire, Closes
  <2> QED
    BY <1>0, <1>2, <2>1 DEF ExpireRedeem, Expire, IntentStep, LedgerStep
<1>3. ASSUME NEW t \in TraceCid, ConfirmRedeem(i, t)
      PROVE  IntentStep /\ LedgerStep /\ UNCHANGED rules
  <2>1. ConfirmsOnly(i, t)
    BY <1>0, <1>3 DEF ConfirmRedeem, Confirm, ConfirmsOnly
  <2> QED
    BY <1>0, <1>3, <2>1 DEF ConfirmRedeem, Confirm, IntentStep, LedgerStep
<1>4. ASSUME NEW t \in TraceCid, FailRedeem(i, t)
      PROVE  IntentStep /\ LedgerStep /\ UNCHANGED rules
  <2>1. Closes(i)
    BY <1>4 DEF FailRedeem, Fail, Closes
  <2> QED
    BY <1>0, <1>4, <2>1 DEF FailRedeem, Fail, IntentStep, LedgerStep
<1>5. ASSUME NEW t \in TraceCid, NEW c \in HoldingCid, NEW h \in HoldCid,
             MarkRedeemSucceeded(i, c, h, t)
      PROVE  IntentStep /\ LedgerStep /\ UNCHANGED rules
  <2>1. Settles(i, t)
    BY <1>0, <1>5 DEF MarkRedeemSucceeded, Settles
  <2>2. ConsumeHold(c, h) /\ UNCHANGED rules
    BY <1>5 DEF MarkRedeemSucceeded
  <2>3. LedgerNext
    BY <2>2 DEF LedgerNext
  <2> QED
    BY <1>0, <2>1, <2>2, <2>3 DEF IntentStep, LedgerStep
<1> QED
  BY <1>1, <1>2, <1>3, <1>4, <1>5

\* The same of a TransferIntent, which settles when it is confirmed.
LEMMA TransferSteps == TransferNext => IntentStep /\ TransferLedgerStep /\ UNCHANGED rules
<1> SUFFICES ASSUME NEW i \in TransferId,
                    \/ CancelTransfer(i)
                    \/ \E now \in Time : ExpireTransfer(i, now)
                    \/ \E t \in TraceCid :
                         \/ MarkTransferSucceeded(i, t)
                         \/ \E c \in HoldingCid, h \in HoldCid : FailTransfer(i, c, h, t)
                         \/ \E c, d \in HoldingCid, h \in HoldCid, k \in RulesCid :
                              ConfirmTransfer(i, c, d, h, k, t)
             PROVE  IntentStep /\ TransferLedgerStep /\ UNCHANGED rules
  BY DEF TransferNext
<1>0. i \in IntentId
  BY DEF IntentId
<1>1. CASE CancelTransfer(i)
  <2>1. Closes(i)
    BY <1>1 DEF CancelTransfer, Cancel, Closes
  <2> QED
    BY <1>0, <1>1, <2>1 DEF CancelTransfer, Cancel, IntentStep, TransferLedgerStep
<1>2. CASE \E now \in Time : ExpireTransfer(i, now)
  <2>1. Closes(i)
    BY <1>2 DEF ExpireTransfer, Expire, Closes
  <2> QED
    BY <1>0, <1>2, <2>1 DEF ExpireTransfer, Expire, IntentStep, TransferLedgerStep
<1>3. ASSUME NEW t \in TraceCid, MarkTransferSucceeded(i, t)
      PROVE  IntentStep /\ TransferLedgerStep /\ UNCHANGED rules
  <2>1. Reports(i, t)
    BY <1>3 DEF MarkTransferSucceeded, Reports
  <2> QED
    BY <1>0, <1>3, <2>1 DEF MarkTransferSucceeded, IntentStep, TransferLedgerStep
<1>4. ASSUME NEW t \in TraceCid, NEW c \in HoldingCid, NEW h \in HoldCid,
             FailTransfer(i, c, h, t)
      PROVE  IntentStep /\ TransferLedgerStep /\ UNCHANGED rules
  <2>1. Closes(i)
    BY <1>4 DEF FailTransfer, Closes
  <2>2. ReleaseHold(c, h) /\ UNCHANGED rules
    BY <1>4 DEF FailTransfer
  <2> QED
    BY <1>0, <2>1, <2>2 DEF IntentStep, TransferLedgerStep
<1>5. ASSUME NEW t \in TraceCid, NEW c \in HoldingCid, NEW d \in HoldingCid,
             NEW h \in HoldCid, NEW k \in RulesCid, ConfirmTransfer(i, c, d, h, k, t)
      PROVE  IntentStep /\ TransferLedgerStep /\ UNCHANGED rules
  <2>1. ConfirmsAndSettles(i, t)
    BY <1>5 DEF ConfirmTransfer, ConfirmsAndSettles
  <2>2. Transferred(i, c, d, h) /\ UNCHANGED rules
    BY <1>5 DEF ConfirmTransfer, Transferred
  <2> QED
    BY <1>0, <2>1, <2>2 DEF IntentStep, TransferLedgerStep
<1> QED
  BY <1>1, <1>2, <1>3, <1>4, <1>5

\* The same of every step of the operator.
LEMMA PillarSteps == PillarNext => IntentStep /\ LedgerStep
<1> SUFFICES ASSUME PillarNext PROVE IntentStep /\ LedgerStep
  OBVIOUS
<1>1. CASE IssueNext
  BY <1>1, IssueSteps
<1>2. CASE RedeemNext
  BY <1>2, RedeemSteps
<1>3. CASE TransferNext
  <2>1. IntentStep /\ TransferLedgerStep
    BY <1>3, TransferSteps
  <2> QED
    BY <2>1 DEF TransferLedgerStep, LedgerStep, LedgerNext
<1>4. CASE \E t \in TraceCid : TraceChoice(t)
  BY <1>4 DEF TraceChoice, TraceRecords, NoIntentMoves, IntentStep, LedgerStep
<1>5. CASE \E k \in RulesCid : RulesChoice(k)
  BY <1>5 DEF RulesChoice, NoIntentMoves, IntentStep, LedgerStep
<1>6. CASE LedgerNext /\ UNCHANGED <<intentVars, trace, rules>>
  BY <1>6 DEF NoIntentMoves, IntentStep, LedgerStep
<1> QED
  BY <1>1, <1>2, <1>3, <1>4, <1>5, <1>6 DEF PillarNext

-----------------------------------------------------------------------------
(* The intents' own invariant.                                             *)

\* Only the six statuses and the five of a trace are ever written.
LEMMA IntentTypesKept ==
  ASSUME IntentTypes, IntentStep
  PROVE  IntentTypes'
<1> USE DEF IntentTypes, UpdateStatus, Moves, Submits, RecordSubmitted, RecordCompleted,
            RecordFailed, MarkProjected, IntentStatus, OperationStatus
<1>1. ASSUME NEW i \in IntentId, NEW t \in TraceCid, ConfirmsOnly(i, t)
      PROVE  IntentTypes'
  BY <1>1 DEF ConfirmsOnly
<1>2. ASSUME NEW i \in IntentId, NEW t \in TraceCid, Settles(i, t)
      PROVE  IntentTypes'
  BY <1>2 DEF Settles
<1>3. ASSUME NEW i \in IntentId, NEW t \in TraceCid, ConfirmsAndSettles(i, t)
      PROVE  IntentTypes'
  BY <1>3 DEF ConfirmsAndSettles
<1>4. ASSUME NEW i \in IntentId, NEW t \in TraceCid, Reports(i, t)
      PROVE  IntentTypes'
  BY <1>4 DEF Reports
<1>5. ASSUME NEW i \in IntentId, Closes(i)
      PROVE  IntentTypes'
  BY <1>5 DEF Closes
<1>6. CASE NoIntentMoves
  BY <1>6 DEF NoIntentMoves, intentVars, TraceRecords
<1> QED
  BY <1>1, <1>2, <1>3, <1>4, <1>5, <1>6 DEF IntentStep

\* Confirmation asks for "RequiresAction" and settlement for "Processing", so
\* each of them counts the units of an intent once.
LEMMA UnitsFollow ==
  ASSUME IntentTypes, UnitsFollowStatus, IntentStep
  PROVE  UnitsFollowStatus'
<1> USE DEF IntentTypes, UnitsFollowStatus, UpdateStatus, Moves
<1>1. ASSUME NEW i \in IntentId, NEW t \in TraceCid, ConfirmsOnly(i, t)
      PROVE  UnitsFollowStatus'
  BY <1>1 DEF ConfirmsOnly, EnsureRequiresAction
<1>2. ASSUME NEW i \in IntentId, NEW t \in TraceCid, Settles(i, t)
      PROVE  UnitsFollowStatus'
  BY <1>2 DEF Settles, EnsureProcessing
<1>3. ASSUME NEW i \in IntentId, NEW t \in TraceCid, ConfirmsAndSettles(i, t)
      PROVE  UnitsFollowStatus'
  BY <1>3 DEF ConfirmsAndSettles, EnsureRequiresAction
<1>4. ASSUME NEW i \in IntentId, NEW t \in TraceCid, Reports(i, t)
      PROVE  UnitsFollowStatus'
  BY <1>4 DEF Reports, EnsureProcessing
<1>5. ASSUME NEW i \in IntentId, Closes(i)
      PROVE  UnitsFollowStatus'
  BY <1>5 DEF Closes
<1>6. CASE NoIntentMoves
  BY <1>6 DEF NoIntentMoves, intentVars
<1> QED
  BY <1>1, <1>2, <1>3, <1>4, <1>5, <1>6 DEF IntentStep

\* No operator of OperationTrace sets "Received", and only a submission, which
\* asks for it, adds an intent.
LEMMA TraceStaysUsedUp ==
  ASSUME IntentTypes, TraceIsUsedUp, IntentStep
  PROVE  TraceIsUsedUp'
<1>1. ASSUME NEW i \in IntentId, NEW t \in TraceCid, Submits(i, t)
      PROVE  TraceIsUsedUp'
  <2>1. submitters[t] = {}
    BY <1>1 DEF Submits, RecordSubmitted, TraceIsUsedUp
  <2>2. submitters'[t] = {i} /\ trace'[t] = "Submitted"
    BY <1>1, <2>1 DEF Submits, RecordSubmitted, IntentTypes
  <2>3. \A u \in TraceCid \ {t} : submitters'[u] = submitters[u] /\ trace'[u] = trace[u]
    BY <1>1 DEF Submits, RecordSubmitted, IntentTypes
  <2> QED
    BY <2>2, <2>3 DEF TraceIsUsedUp
<1>2. ASSUME UNCHANGED submitters, UNCHANGED trace \/ \E t \in TraceCid : TraceRecords(t)
      PROVE  TraceIsUsedUp'
  <2>1. \A u \in TraceCid : trace[u] # "Received" => trace'[u] # "Received"
    BY <1>2 DEF IntentTypes, TraceRecords, RecordSubmitted, RecordCompleted,
                RecordFailed, MarkProjected
  <2> QED
    BY <1>2, <2>1 DEF TraceIsUsedUp
<1>3. ASSUME NEW i \in IntentId, NEW t \in TraceCid,
             ConfirmsOnly(i, t) \/ Settles(i, t) \/ ConfirmsAndSettles(i, t) \/ Reports(i, t)
      PROVE  TraceIsUsedUp'
  BY <1>1, <1>2, <1>3 DEF ConfirmsOnly, Settles, ConfirmsAndSettles, Reports, TraceRecords
<1>4. ASSUME NEW i \in IntentId, Closes(i)
      PROVE  TraceIsUsedUp'
  BY <1>2, <1>4 DEF Closes, TraceRecords
<1>5. CASE NoIntentMoves
  BY <1>2, <1>5 DEF NoIntentMoves, intentVars
<1> QED
  BY <1>3, <1>4, <1>5 DEF IntentStep

\* The choices on AssetRules keep its type, or archive it.
LEMMA RulesKept ==
  ASSUME RulesTyped, PillarNext
  PROVE  RulesTyped'
<1>1. ASSUME NEW k \in RulesCid, RulesChoice(k)
      PROVE  RulesTyped'
  <2>1. ActiveRules(k) => rules[k] \in RulesRecord
    BY DEF ActiveRules, RulesTyped
  <2> QED
    BY <1>1, <2>1 DEF RulesChoice, UpdateRules, SuspendAsset, ReactivateAsset, ArchiveRules,
                      RulesTyped, RulesRecord
<1>2. ASSUME UNCHANGED rules
      PROVE  RulesTyped'
  BY <1>2 DEF RulesTyped
<1> QED
  BY <1>1, <1>2, IssueSteps, RedeemSteps, TransferSteps DEF PillarNext, TraceChoice

-----------------------------------------------------------------------------
(* A confirmed transfer.                                                   *)

\* One summand of the amounts or of the locks under a reference changes.
LEMMA OneSummandChanges ==
  ASSUME HoldingsTyped, HoldingsTyped', NEW c \in HoldingCid, NEW r \in Ref,
         \A e \in HoldingCid \ {c} : AmountsUnder(r)'[e] = AmountsUnder(r)[e]
  PROVE  TotalAmount(r)' + AmountsUnder(r)[c] = TotalAmount(r) + AmountsUnder(r)'[c]
<1>1. IsFiniteSet(HoldingCid)
  BY LedgerAssumption
<1>2. AmountsUnder(r) \in [HoldingCid -> Nat]
  BY SummandsTyped
<1>3. \A e \in HoldingCid : holding'[e].amount \in Nat
  BY DEF HoldingsTyped, HoldingRecord
<1>4. AmountsUnder(r)' \in [HoldingCid -> Nat]
  BY <1>3 DEF AmountsUnder
<1>5. AmountsUnder(r)' = [AmountsUnder(r) EXCEPT ![c] = AmountsUnder(r)'[c]]
  BY <1>2, <1>4
<1>6. Total(AmountsUnder(r)', HoldingCid) + AmountsUnder(r)[c]
        = Total(AmountsUnder(r), HoldingCid) + AmountsUnder(r)'[c]
  BY <1>1, <1>2, <1>4, <1>5, TotalUpdate
<1> QED
  BY <1>6 DEF TotalAmount

\* The same of the locks.
LEMMA OneLockChanges ==
  ASSUME HoldingsTyped, HoldingsTyped', NEW c \in HoldingCid, NEW r \in Ref,
         \A e \in HoldingCid \ {c} : ActiveHoldsUnder(r)'[e] = ActiveHoldsUnder(r)[e]
  PROVE  TotalActiveHolds(r)' + ActiveHoldsUnder(r)[c]
           = TotalActiveHolds(r) + ActiveHoldsUnder(r)'[c]
<1>1. IsFiniteSet(HoldingCid)
  BY LedgerAssumption
<1>2. ActiveHoldsUnder(r) \in [HoldingCid -> Nat]
  BY SummandsTyped
<1>3. \A e \in HoldingCid : holding'[e].activeHolds \in Nat
  BY DEF HoldingsTyped, HoldingRecord
<1>4. ActiveHoldsUnder(r)' \in [HoldingCid -> Nat]
  BY <1>3 DEF ActiveHoldsUnder
<1>5. ActiveHoldsUnder(r)' = [ActiveHoldsUnder(r) EXCEPT ![c] = ActiveHoldsUnder(r)'[c]]
  BY <1>2, <1>4
<1>6. Total(ActiveHoldsUnder(r)', HoldingCid) + ActiveHoldsUnder(r)[c]
        = Total(ActiveHoldsUnder(r), HoldingCid) + ActiveHoldsUnder(r)'[c]
  BY <1>1, <1>2, <1>4, <1>5, TotalUpdate
<1> QED
  BY <1>6 DEF TotalActiveHolds

\* The two Holdings of a transfer are of different accounts and so of
\* different references, of one tenant and asset.
LEMMA TransferredApart ==
  ASSUME NEW i \in TransferId, NEW c \in HoldingCid, NEW d \in HoldingCid,
         NEW h \in HoldCid, Transferred(i, c, d, h)
  PROVE  /\ c # d /\ holding[c].ref # holding[d].ref
         /\ AssetOf(holding[c].ref) = AssetOf(holding[d].ref)
         /\ Active(c) /\ Active(d)
<1>1. Terms[i].from # Terms[i].to
  BY IntentAssumption
<1> QED
  BY <1>1 DEF Transferred, HoldingOf, SameTenant, TenantOf, AssetOf

\* What it does to the slots.
LEMMA TransferredSlots ==
  ASSUME IInv, NEW i \in TransferId, NEW c \in HoldingCid, NEW d \in HoldingCid,
         NEW h \in HoldCid, Transferred(i, c, d, h)
  PROVE  LET n == Terms[i].amount IN
         /\ n \in Nat \ {0} /\ n \in 1..MaxAmount /\ n = hold[h].amount
         /\ holding[c].ref \in Ref /\ holding[d].ref \in Ref
         /\ n <= holding[c].activeHolds /\ n <= holding[c].amount
         /\ holding'[c].ref = holding[c].ref
         /\ holding'[c].amount = holding[c].amount - n
         /\ holding'[c].activeHolds = holding[c].activeHolds - n
         /\ holding'[d].ref = holding[d].ref
         /\ holding'[d].amount = holding[d].amount + n
         /\ holding'[d].activeHolds = holding[d].activeHolds
         /\ \A e \in HoldingCid \ {c, d} : holding'[e] = holding[e]
         /\ LedgerTypeOK' /\ EnsureClauses' /\ AmountsBounded'
<1> DEFINE n == Terms[i].amount
<1>1. c # d /\ holding[c].ref # holding[d].ref /\ Active(c) /\ Active(d)
  BY TransferredApart
<1>2. HoldMatches(c, h) /\ n = hold[h].amount
  BY DEF Transferred
<1>3. /\ holding[c].ref \in Ref /\ n \in Nat \ {0}
      /\ n <= holding[c].activeHolds /\ n <= holding[c].amount
      /\ holding[c].activeHolds \in Nat /\ holding[c].amount \in Nat
  BY <1>2, MatchedHold
<1>4. holding[d].ref \in Ref /\ holding[d].amount \in Nat /\ holding[d].activeHolds \in Nat
  BY <1>1 DEF IInv, LedgerTypeOK, HoldingRecord, Active
<1>5. MaxAmount \in Nat /\ holding[c].amount <= MaxAmount
  BY LedgerAssumption DEF IInv, AmountsBounded
<1>6. n \in 1..MaxAmount
  BY <1>3, <1>5
<1> HIDE DEF n
<1>7. holding' = Increased(Consumed(c, h), d, n) /\ holding \in [HoldingCid -> HoldingRecord]
  BY DEF Transferred, n, IInv, LedgerTypeOK
<1>8. holding'[c] = [holding[c] EXCEPT !.amount = @ - n, !.activeHolds = @ - n]
  BY <1>1, <1>2, <1>7 DEF Increased, Consumed, HoldingRecord
<1>9. holding'[d] = [holding[d] EXCEPT !.amount = @ + n]
  BY <1>1, <1>2, <1>7 DEF Increased, Consumed, HoldingRecord
<1>10. \A e \in HoldingCid \ {c, d} : holding'[e] = holding[e]
  BY <1>7 DEF Increased, Consumed
<1>11. LedgerTypeOK'
  <2>1. holding'[c] \in HoldingRecord
    <3>1. holding[c].amount - n \in Nat /\ holding[c].activeHolds - n \in Nat
      BY <1>3
    <3>2. holding[c] \in HoldingRecord
      BY <1>7
    <3> QED
      BY <3>1, <3>2, <1>8 DEF HoldingRecord
  <2>2. holding'[d] \in HoldingRecord
    BY <1>3, <1>4, <1>7, <1>9 DEF HoldingRecord
  <2>3. DOMAIN holding' = HoldingCid /\ holding' = [e \in DOMAIN holding' |-> holding'[e]]
    BY <1>7 DEF Increased, Consumed
  <2>4. holding' \in [HoldingCid -> HoldingRecord]
    BY <1>7, <1>10, <2>1, <2>2, <2>3
  <2>5. hold' \in [HoldCid -> HoldRecord]
    BY DEF Transferred, Archive, NoHold, HoldRecord, IInv, LedgerTypeOK
  <2>6. n <= supply[holding[c].ref]
    <3>1. holding[c].amount <= TotalAmount(holding[c].ref)
      BY <1>1, PartOfTotal DEF IInv, LedgerTypeOK, HoldingsTyped
    <3>2. TotalAmount(holding[c].ref) = supply[holding[c].ref]
      BY <1>3 DEF IInv, SupplyConserved
    <3>3. supply[holding[c].ref] \in Nat
      BY <1>3 DEF IInv, LedgerTypeOK
    <3> QED
      BY <1>3, <3>1, <3>2, <3>3
  <2>7. supply' = [supply EXCEPT ![holding[c].ref] = @ - n, ![holding[d].ref] = @ + n]
    BY DEF Transferred, n
  <2>8. supply' \in [Ref -> Nat]
    BY <1>1, <1>3, <1>4, <2>6, <2>7 DEF IInv, LedgerTypeOK
  <2> QED
    BY <2>4, <2>5, <2>8 DEF LedgerTypeOK
<1>12. EnsureClauses'
  <2>1. ASSUME NEW e \in HoldingCid PROVE holding'[e].activeHolds <= holding'[e].amount
    <3>0. holding[e].activeHolds <= holding[e].amount /\ holding[e] \in HoldingRecord
      BY <1>7 DEF IInv, EnsureClauses
    <3>1. CASE e = c
      BY <3>0, <3>1, <1>3, <1>8 DEF HoldingRecord
    <3>2. CASE e = d
      BY <3>0, <3>2, <1>3, <1>9 DEF HoldingRecord
    <3>3. CASE e \notin {c, d}
      BY <3>0, <3>3, <1>10
    <3> QED
      BY <3>1, <3>2, <3>3
  <2>2. \A k \in HoldCid : ActiveHold(k)' => hold'[k].amount > 0
    BY DEF Transferred, Archive, NoHold, IInv, EnsureClauses, ActiveHold, LedgerTypeOK
  <2> QED
    BY <2>1, <2>2 DEF EnsureClauses
<1>13. AmountsBounded'
  <2>1. ASSUME NEW e \in HoldingCid PROVE holding'[e].amount <= MaxAmount
    <3>0. holding[e].amount <= MaxAmount /\ holding[e] \in HoldingRecord
      BY <1>7 DEF IInv, AmountsBounded
    <3>1. CASE e = c
      BY <3>0, <3>1, <1>3, <1>5, <1>8 DEF HoldingRecord
    <3>2. CASE e = d
      BY <3>2, <1>9, <1>4, <1>7 DEF Transferred, n, HoldingRecord
    <3>3. CASE e \notin {c, d}
      BY <3>0, <3>3, <1>10
    <3> QED
      BY <3>1, <3>2, <3>3
  <2> QED
    BY <2>1 DEF AmountsBounded
<1>14. /\ holding'[c].ref = holding[c].ref
       /\ holding'[c].amount = holding[c].amount - n
       /\ holding'[c].activeHolds = holding[c].activeHolds - n
       /\ holding'[d].ref = holding[d].ref
       /\ holding'[d].amount = holding[d].amount + n
       /\ holding'[d].activeHolds = holding[d].activeHolds
  <2>1. holding[c] \in HoldingRecord /\ holding[d] \in HoldingRecord
    BY <1>7
  <2> QED
    BY <1>8, <1>9, <2>1 DEF HoldingRecord
<1> QED
  BY <1>2, <1>3, <1>4, <1>6, <1>10, <1>11, <1>12, <1>13, <1>14 DEF n

\* What it does to the sums of a reference.
LEMMA TransferredTotals ==
  ASSUME IInv, NEW i \in TransferId, NEW c \in HoldingCid, NEW d \in HoldingCid,
         NEW h \in HoldCid, Transferred(i, c, d, h), NEW r \in Ref
  PROVE  LET n == Terms[i].amount
             out == Share(r, holding[c].ref, 0 - n)
             in == Share(r, holding[d].ref, n) IN
         /\ TotalAmount(r)' = TotalAmount(r) + out + in
         /\ supply'[r] = supply[r] + out + in
         /\ TotalActiveHolds(r)' = TotalActiveHolds(r) + out
         /\ TotalHolds(r)' = TotalHolds(r) + out
<1> DEFINE n == Terms[i].amount
           s == holding[c].ref
           u == holding[d].ref
<1>1. c # d /\ s # u
  BY TransferredApart
<1>2. /\ n \in Nat \ {0} /\ n = hold[h].amount /\ s \in Ref /\ u \in Ref
      /\ \A e \in HoldingCid \ {c, d} : holding'[e] = holding[e]
      /\ LedgerTypeOK'
  BY TransferredSlots
<1>3. /\ holding'[c].ref = s /\ holding'[c].amount = holding[c].amount - n
      /\ holding'[c].activeHolds = holding[c].activeHolds - n
      /\ holding'[d].ref = u /\ holding'[d].amount = holding[d].amount + n
      /\ holding'[d].activeHolds = holding[d].activeHolds
  BY TransferredSlots
<1>4. HoldingsTyped /\ HoldsTyped /\ HoldingsTyped' /\ HoldsTyped'
  BY <1>2 DEF IInv, LedgerTypeOK, HoldingsTyped, HoldsTyped
<1>5. /\ TotalAmount(r) \in Nat /\ TotalActiveHolds(r) \in Nat
      /\ TotalAmount(r)' \in Nat /\ TotalActiveHolds(r)' \in Nat
  BY <1>4, TotalsTyped, TotalsTypedNext
<1>6. supply' = [supply EXCEPT ![s] = @ - n, ![u] = @ + n] /\ supply \in [Ref -> Nat]
  BY DEF Transferred, IInv, LedgerTypeOK
<1>7. /\ holding[c] \in HoldingRecord /\ holding[d] \in HoldingRecord
      /\ holding[c].amount \in Nat /\ holding[c].activeHolds \in Nat
      /\ holding[d].amount \in Nat /\ holding[d].activeHolds \in Nat
  BY <1>4 DEF HoldingsTyped, HoldingRecord
<1> HIDE DEF n, s, u
<1>8. TotalHolds(r)' = TotalHolds(r) + Share(r, s, 0 - n)
  <2>1. ActiveHold(h) /\ hold[h].ref = s /\ Archive(h)
    BY DEF Transferred, HoldMatches, s
  <2>2. hold[h].amount = n
    BY <1>2
  <2> QED
    BY <1>4, <2>1, <2>2, HoldArchived
<1>9. TotalActiveHolds(r)' = TotalActiveHolds(r) + Share(r, s, 0 - n)
  <2>1. \A e \in HoldingCid \ {c} : ActiveHoldsUnder(r)'[e] = ActiveHoldsUnder(r)[e]
    BY <1>2, <1>3 DEF ActiveHoldsUnder, u
  <2>2. /\ ActiveHoldsUnder(r)[c] = (IF s = r THEN holding[c].activeHolds ELSE 0)
        /\ ActiveHoldsUnder(r)'[c] = (IF s = r THEN holding[c].activeHolds - n ELSE 0)
    BY <1>3 DEF ActiveHoldsUnder, s
  <2>3. TotalActiveHolds(r)' + ActiveHoldsUnder(r)[c]
          = TotalActiveHolds(r) + ActiveHoldsUnder(r)'[c]
    BY <1>4, <2>1, OneLockChanges
  <2> QED
    BY <1>2, <1>5, <1>7, <2>2, <2>3 DEF Share
<1>10. TotalAmount(r)' = TotalAmount(r) + Share(r, s, 0 - n) + Share(r, u, n)
  <2>1. CASE r = s
    <3>1. \A e \in HoldingCid \ {c} : AmountsUnder(r)'[e] = AmountsUnder(r)[e]
      BY <1>1, <1>2, <1>3, <2>1 DEF AmountsUnder, u
    <3>2. /\ AmountsUnder(r)[c] = holding[c].amount
          /\ AmountsUnder(r)'[c] = holding[c].amount - n
      BY <1>3, <2>1 DEF AmountsUnder, s
    <3>3. TotalAmount(r)' + AmountsUnder(r)[c] = TotalAmount(r) + AmountsUnder(r)'[c]
      BY <1>4, <3>1, OneSummandChanges
    <3> QED
      BY <1>1, <1>2, <1>5, <1>7, <2>1, <3>2, <3>3 DEF Share
  <2>2. CASE r = u
    <3>1. \A e \in HoldingCid \ {d} : AmountsUnder(r)'[e] = AmountsUnder(r)[e]
      BY <1>1, <1>2, <1>3, <2>2 DEF AmountsUnder, s
    <3>2. /\ AmountsUnder(r)[d] = holding[d].amount
          /\ AmountsUnder(r)'[d] = holding[d].amount + n
      BY <1>3, <2>2 DEF AmountsUnder, u
    <3>3. TotalAmount(r)' + AmountsUnder(r)[d] = TotalAmount(r) + AmountsUnder(r)'[d]
      BY <1>4, <3>1, OneSummandChanges
    <3> QED
      BY <1>1, <1>2, <1>5, <1>7, <2>2, <3>2, <3>3 DEF Share
  <2>3. CASE r # s /\ r # u
    <3>1. \A e \in HoldingCid : AmountsUnder(r)'[e] = AmountsUnder(r)[e]
      BY <1>2, <1>3, <2>3 DEF AmountsUnder, s, u
    <3>2. AmountsUnder(r)[c] \in Nat
      BY <1>4, SummandsTyped
    <3>3. TotalAmount(r)' + AmountsUnder(r)[c] = TotalAmount(r) + AmountsUnder(r)'[c]
      BY <1>4, <3>1, OneSummandChanges
    <3> QED
      BY <1>5, <2>3, <3>1, <3>2, <3>3 DEF Share
  <2> QED
    BY <2>1, <2>2, <2>3
<1>11. supply'[r] = supply[r] + Share(r, s, 0 - n) + Share(r, u, n)
  BY <1>1, <1>2, <1>6 DEF Share
<1> QED
  BY <1>8, <1>9, <1>10, <1>11 DEF n, s, u

\* A confirmed transfer spends locked units of one reference into another.
LEMMA TransferredKeeps ==
  ASSUME IInv, NEW i \in TransferId, NEW c \in HoldingCid, NEW d \in HoldingCid,
         NEW h \in HoldCid, Transferred(i, c, d, h)
  PROVE  StepKept
<1> DEFINE n == Terms[i].amount
           s == holding[c].ref
           u == holding[d].ref
<1>1. s # u /\ Active(c)
  BY TransferredApart
<1>2. /\ n \in Nat \ {0} /\ n \in 1..MaxAmount /\ s \in Ref /\ u \in Ref
      /\ n <= holding[c].activeHolds
      /\ LedgerTypeOK' /\ EnsureClauses' /\ AmountsBounded'
  BY TransferredSlots
<1>3. \A r \in Ref :
        /\ TotalAmount(r)' = TotalAmount(r) + Share(r, s, 0 - n) + Share(r, u, n)
        /\ supply'[r] = supply[r] + Share(r, s, 0 - n) + Share(r, u, n)
        /\ TotalActiveHolds(r)' = TotalActiveHolds(r) + Share(r, s, 0 - n)
        /\ TotalHolds(r)' = TotalHolds(r) + Share(r, s, 0 - n)
  BY TransferredTotals
<1>4. n <= TotalActiveHolds(s)
  <2>1. holding[c].activeHolds <= TotalActiveHolds(s)
    BY <1>1, PartOfTotal DEF IInv, LedgerTypeOK, HoldingsTyped
  <2>2. TotalActiveHolds(s) \in Nat /\ holding[c].activeHolds \in Nat
    BY <1>2, TotalsAreInts DEF IInv, LedgerTypeOK, HoldingRecord
  <2> HIDE DEF n, s
  <2> QED
    BY <1>2, <2>1, <2>2
<1> HIDE DEF n, s, u
<1>5. HoldsBacked' /\ SupplyConserved'
  BY <1>3 DEF IInv, HoldsBacked, SupplyConserved
<1>6. \A r \in Ref :
        /\ TotalAmount(r)' = IF r = u THEN TotalAmount(r) + n
                             ELSE IF r = s THEN TotalAmount(r) - n ELSE TotalAmount(r)
        /\ TotalActiveHolds(r)'
             = IF r = s THEN TotalActiveHolds(r) - n ELSE TotalActiveHolds(r)
  <2>1. \A r \in Ref : TotalAmount(r) \in Nat /\ TotalActiveHolds(r) \in Nat
    BY TotalsAreInts
  <2> QED
    BY <1>1, <1>2, <1>3, <2>1 DEF Share
<1>7. Bal!SpendInto(s, u, n)
  BY <1>1, <1>2, <1>4, <1>6 DEF Bal!SpendInto
<1>8. Bal!BalancesNext
  BY <1>2, <1>7 DEF Bal!BalancesNext
<1> QED
  BY <1>2, <1>5, <1>8 DEF StepKept, IInv

\* Whatever the operator does, the Holdings and Holds keep their invariant and
\* make a step of Balances or none.
LEMMA LedgerStepKeeps == IInv /\ LedgerStep => StepKept
BY NextKeeps, StutterKeeps, TransferredKeeps DEF LedgerStep

-----------------------------------------------------------------------------
(* The invariant, and what follows from it.                                *)

\* It holds of the first state ...
LEMMA PillarInitInv == PillarInit => PillarInv
<1> SUFFICES ASSUME PillarInit PROVE PillarInv
  OBVIOUS
<1>1. IInv
  BY InitIInv DEF PillarInit
<1>2. IntentTypes /\ RulesTyped
  BY DEF PillarInit, IntentTypes, RulesTyped, IntentStatus, OperationStatus
<1>3. UnitsFollowStatus /\ TraceIsUsedUp
  BY DEF PillarInit, UnitsFollowStatus, TraceIsUsedUp
<1> QED
  BY <1>1, <1>2, <1>3 DEF PillarInv, PillarTypeOK, IInv, IntentTypes, RulesTyped

\* ... and every choice keeps it.
LEMMA PillarNextKeeps == PillarInv /\ [PillarNext]_pillarVars => PillarInv'
<1> SUFFICES ASSUME PillarInv, [PillarNext]_pillarVars PROVE PillarInv'
  OBVIOUS
<1>0. IntentTypes /\ RulesTyped /\ UnitsFollowStatus /\ TraceIsUsedUp /\ IInv
  BY DEF PillarInv, PillarTypeOK, IntentTypes, RulesTyped
<1>1. CASE PillarNext
  <2>1. IntentStep /\ LedgerStep
    BY <1>1, PillarSteps
  <2>2. IntentTypes' /\ UnitsFollowStatus' /\ TraceIsUsedUp'
    BY <1>0, <2>1, IntentTypesKept, UnitsFollow, TraceStaysUsedUp
  <2>3. RulesTyped'
    BY <1>0, <1>1, RulesKept
  <2>4. IInv'
    BY <1>0, <2>1, LedgerStepKeeps DEF StepKept
  <2> QED
    BY <2>2, <2>3, <2>4 DEF PillarInv, PillarTypeOK, IInv, IntentTypes, RulesTyped
<1>2. CASE UNCHANGED pillarVars
  <2>1. NoIntentMoves /\ UNCHANGED ledgerVars /\ UNCHANGED rules
    BY <1>2 DEF pillarVars, NoIntentMoves
  <2>2. IntentStep
    BY <2>1 DEF IntentStep
  <2>3. IntentTypes' /\ UnitsFollowStatus' /\ TraceIsUsedUp'
    BY <1>0, <2>2, IntentTypesKept, UnitsFollow, TraceStaysUsedUp
  <2>4. RulesTyped'
    BY <1>0, <2>1 DEF RulesTyped
  <2>5. IInv'
    BY <1>0, <2>1, StutterKeeps DEF StepKept
  <2> QED
    BY <2>3, <2>4, <2>5 DEF PillarInv, PillarTypeOK, IInv, IntentTypes, RulesTyped
<1> QED
  BY <1>1, <1>2

\* The invariant of the intents together with the contracts they drive.
THEOREM PillarInvariantHolds == PillarSpec => []PillarInv
BY PillarInitInv, PillarNextKeeps, PTL DEF PillarSpec

\* Every state of the intents is well typed, with no negative amount or lock,
\* although a transfer takes units by its own arithmetic.
THEOREM PillarTypesHold == PillarSpec => []PillarTypeOK
<1>1. PillarInv => PillarTypeOK
  BY DEF PillarInv
<1> QED
  BY <1>1, PillarInvariantHolds, PTL

\* However the choices of an intent are mixed, it moves its units at most once,
\* and once if it reports success.
THEOREM UnitsMoveOnce == PillarSpec => []MovedOnce
<1>1. PillarInv => MovedOnce
  BY DEF PillarInv, UnitsFollowStatus, MovedOnce
<1> QED
  BY <1>1, PillarInvariantHolds, PTL

\* No two intents are ever confirmed with one OperationTrace.
THEOREM TraceRecordsOne == PillarSpec => []OneSubmissionPerTrace
<1>1. PillarInv => OneSubmissionPerTrace
  <2> SUFFICES ASSUME TraceIsUsedUp, NEW t \in TraceCid
               PROVE  Cardinality(submitters[t]) <= 1
    BY DEF PillarInv, OneSubmissionPerTrace
  <2>1. CASE submitters[t] = {}
    BY <2>1, FS_EmptySet
  <2>2. CASE submitters[t] # {}
    <3>1. PICK i \in IntentId : submitters[t] = {i}
      BY <2>2 DEF TraceIsUsedUp
    <3>2. Cardinality(submitters[t]) = 1
      BY <3>1, FS_Singleton
    <3> QED
      BY <3>2
  <2> QED
    BY <2>1, <2>2
<1> QED
  BY <1>1, PillarInvariantHolds, PTL

\* No step moves units for an intent that was failed, canceled or expired.
THEOREM ClosedStaysStill == PillarSpec => ClosedNeverMoves
<1>1. PillarInv /\ [PillarNext]_pillarVars
        => [\A i \in IntentId :
              status[i] \in {"Failed", "Canceled", "Expired"} => moved'[i] = moved[i]]_pillarVars
  <2> SUFFICES ASSUME PillarInv, PillarNext, NEW j \in IntentId,
                      status[j] \in {"Failed", "Canceled", "Expired"}
               PROVE  moved'[j] = moved[j]
    OBVIOUS
  <2>1. moved \in [IntentId -> Nat] /\ IntentStep
    BY PillarSteps DEF PillarInv, PillarTypeOK
  <2> QED
    BY <2>1 DEF IntentStep, ConfirmsOnly, Settles, ConfirmsAndSettles, Reports, Closes,
                NoIntentMoves, intentVars, Moves, EnsureProcessing, EnsureRequiresAction
<1> QED
  BY <1>1, PillarInvariantHolds, PTL DEF PillarSpec, ClosedNeverMoves

\* Driven by intents too, the ensure clauses hold, locks are Hold contracts and
\* the supply is conserved.
THEOREM DrivenLedgerIsSound ==
  PillarSpec => [](EnsureClauses /\ HoldsBacked /\ SupplyConserved)
<1>1. PillarInv => EnsureClauses /\ HoldsBacked /\ SupplyConserved
  BY DEF PillarInv, IInv
<1> QED
  BY <1>1, PillarInvariantHolds, PTL

\* The contracts that the intents drive implement Balances: a confirmed
\* transfer, too, is one of its steps.
THEOREM IntentsImplementBalances == PillarSpec => ImplementsBalances
<1>1. PillarInit => Bal!BalancesInit
  <2>1. PillarInit => LedgerInit
    BY DEF PillarInit
  <2> QED
    BY <2>1, LedgerInitMaps
<1>2. PillarInv /\ [PillarNext]_pillarVars => [Bal!BalancesNext]_(Bal!balanceVars)
  <2> SUFFICES ASSUME PillarInv, [PillarNext]_pillarVars
               PROVE  Bal!BalancesNext \/ UNCHANGED Bal!balanceVars
    OBVIOUS
  <2>1. IInv /\ (LedgerStep \/ UNCHANGED ledgerVars)
    BY PillarSteps DEF PillarInv, pillarVars
  <2> QED
    BY <2>1, LedgerStepKeeps, StutterKeeps DEF StepKept
<1> QED
  BY <1>1, <1>2, PillarInvariantHolds, PTL
     DEF PillarSpec, ImplementsBalances, Bal!BalancesSpec

-----------------------------------------------------------------------------
(* Transfers conserve what a tenant has of an asset.                       *)

\* What InCirculation adds up.
HeldOf(a) == [r \in Ref |-> IF AssetOf(r) = a THEN TotalAmount(r) ELSE 0]

\* Each summand is a natural number.
LEMMA HeldOfTyped ==
  ASSUME IInv, NEW a
  PROVE  HeldOf(a) \in [Ref -> Nat]
BY TotalsAreInts DEF HeldOf

\* Where no total changes, nothing is made or lost.
LEMMA SameTotalsSameAsset ==
  ASSUME NEW a, \A r \in Ref : TotalAmount(r)' = TotalAmount(r)
  PROVE  InCirculation(a)' = InCirculation(a)
<1>1. HeldOf(a)' = HeldOf(a)
  BY DEF HeldOf
<1> QED
  BY <1>1 DEF InCirculation, HeldOf

\* A confirmed transfer takes from one reference what it adds to another of
\* the same tenant and asset.
LEMMA TransferredConserves ==
  ASSUME IInv, NEW i \in TransferId, NEW c \in HoldingCid, NEW d \in HoldingCid,
         NEW h \in HoldCid, Transferred(i, c, d, h), NEW a
  PROVE  InCirculation(a)' = InCirculation(a)
<1> DEFINE n == Terms[i].amount
<1>0. PICK s \in Ref, u \in Ref : s = holding[c].ref /\ u = holding[d].ref
  BY TransferredSlots
<1>1. s # u /\ AssetOf(s) = AssetOf(u) /\ Active(c)
  BY <1>0, TransferredApart
<1>2. n \in Nat /\ n <= holding[c].amount
  BY TransferredSlots
<1>3. \A r \in Ref :
        TotalAmount(r)' = TotalAmount(r) + Share(r, s, 0 - n) + Share(r, u, n)
  BY <1>0, TransferredTotals
<1>4. \A r \in Ref : TotalAmount(r) \in Nat
  BY TotalsAreInts
<1>5. n <= TotalAmount(s)
  <2>1. holding[c].amount <= TotalAmount(s) /\ holding[c].amount \in Nat
    BY <1>0, <1>1, PartOfTotal DEF IInv, LedgerTypeOK, HoldingsTyped, HoldingRecord
  <2> HIDE DEF n
  <2> QED
    BY <1>2, <1>4, <2>1
<1> HIDE DEF n
<1>6. /\ TotalAmount(s)' = TotalAmount(s) - n
      /\ TotalAmount(u)' = TotalAmount(u) + n
      /\ \A r \in Ref \ {s, u} : TotalAmount(r)' = TotalAmount(r)
  BY <1>1, <1>2, <1>3, <1>4 DEF Share
<1>7. CASE AssetOf(s) = a
  <2> DEFINE x == TotalAmount(s) - n
             y == TotalAmount(u) + n
  <2>1. x \in Nat /\ y \in Nat /\ x + y = TotalAmount(s) + TotalAmount(u)
    BY <1>2, <1>4, <1>5
  <2>2. HeldOf(a)[s] = TotalAmount(s) /\ HeldOf(a)[u] = TotalAmount(u)
    BY <1>1, <1>2, <1>7 DEF HeldOf
  <2>3. HeldOf(a)' = [HeldOf(a) EXCEPT ![s] = x, ![u] = y]
    BY <1>1, <1>2, <1>6, <1>7 DEF HeldOf
  <2> HIDE DEF x, y
  <2>4. Total([HeldOf(a) EXCEPT ![s] = x, ![u] = y], Ref) = Total(HeldOf(a), Ref)
    BY <1>1, <1>2, <2>1, <2>2, HeldOfTyped, IntentAssumption, TotalMove
  <2>5. Total(HeldOf(a)', Ref) = Total(HeldOf(a), Ref)
    BY <2>3, <2>4
  <2> QED
    BY <2>5 DEF InCirculation, HeldOf
<1>8. CASE AssetOf(s) # a
  <2>1. HeldOf(a)' = HeldOf(a)
    BY <1>1, <1>2, <1>6, <1>8 DEF HeldOf
  <2> QED
    BY <2>1 DEF InCirculation, HeldOf
<1> QED
  BY <1>7, <1>8

\* Only the choices on transfers touch the status and history of a transfer.
LEMMA OthersLeaveTransfers ==
  ASSUME IntentTypes, PillarNext, ~TransferNext, NEW j \in TransferId
  PROVE  status'[j] = status[j] /\ moved'[j] = moved[j]
<1>0. j \in IntentId /\ j \notin IssueId \cup RedeemId
  BY KindsDiffer DEF IntentId
<1>1. ASSUME NEW i \in IssueId \cup RedeemId, NEW s, UpdateStatus(i, s),
             Moves(i) \/ UNCHANGED moved
      PROVE  status'[j] = status[j] /\ moved'[j] = moved[j]
  BY <1>0, <1>1 DEF UpdateStatus, Moves, IntentTypes
<1>2. CASE IssueNext
  <2>1. \E i \in IssueId, s \in IntentStatus :
          UpdateStatus(i, s) /\ (Moves(i) \/ UNCHANGED moved)
    BY <1>2 DEF IssueNext, CancelIssue, ExpireIssue, ConfirmIssue, FailIssue,
                MarkIssueSucceeded, Cancel, Expire, Confirm, Fail, IntentStatus
  <2> QED
    BY <1>1, <2>1
<1>3. CASE RedeemNext
  <2>1. \E i \in RedeemId, s \in IntentStatus :
          UpdateStatus(i, s) /\ (Moves(i) \/ UNCHANGED moved)
    BY <1>3 DEF RedeemNext, CancelRedeem, ExpireRedeem, ConfirmRedeem, FailRedeem,
                MarkRedeemSucceeded, Cancel, Expire, Confirm, Fail, IntentStatus
  <2> QED
    BY <1>1, <2>1
<1> QED
  BY <1>2, <1>3 DEF PillarNext, TraceChoice, RulesChoice, intentVars

\* No choice of a transfer makes, loses or moves between tenants any unit.
THEOREM TransfersConserve == PillarSpec => TransferConserves
<1>1. PillarInv /\ [PillarNext]_pillarVars
        => [(\E i \in TransferId : status'[i] # status[i] \/ moved'[i] # moved[i])
              => \A a \in AssetRefs : InCirculation(a)' = InCirculation(a)]_pillarVars
  <2> SUFFICES ASSUME PillarInv, PillarNext, NEW j \in TransferId,
                      status'[j] # status[j] \/ moved'[j] # moved[j],
                      NEW a \in AssetRefs
               PROVE  InCirculation(a)' = InCirculation(a)
    OBVIOUS
  <2>0. IInv /\ IntentTypes
    BY DEF PillarInv, PillarTypeOK, IntentTypes
  <2>1. TransferLedgerStep
    BY <2>0, OthersLeaveTransfers, TransferSteps
  <2>2. CASE UNCHANGED ledgerVars
    <3>1. \A r \in Ref : TotalAmount(r)' = TotalAmount(r)
      BY <2>2 DEF ledgerVars, TotalAmount, AmountsUnder
    <3> QED
      BY <3>1, SameTotalsSameAsset
  <2>3. ASSUME NEW c \in HoldingCid, NEW h \in HoldCid, ReleaseHold(c, h)
        PROVE  InCirculation(a)' = InCirculation(a)
    <3>1. Effect(holding[c].ref, 0, 0 - hold[h].amount)
      BY <2>0, <2>3, ReleasedEffect DEF ReleaseHold
    <3>2. \A r \in Ref : TotalAmount(r)' = TotalAmount(r)
      BY <2>0, <3>1, TotalsAreInts DEF Effect, Share
    <3> QED
      BY <3>2, SameTotalsSameAsset
  <2> QED
    BY <2>0, <2>1, <2>2, <2>3, TransferredConserves DEF TransferLedgerStep
<1> QED
  BY <1>1, PillarInvariantHolds, PTL DEF PillarSpec, TransferConserves

=============================================================================
