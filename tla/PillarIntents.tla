---------------------------- MODULE PillarIntents ----------------------------
(***************************************************************************)
(* The intents of daml/pillar-intents over the contracts they act on: the  *)
(* Holdings and Holds of HoldingLedger, the AssetRules of daml/pillar-assets*)
(* and the OperationTraces of daml/pillar-ops.                             *)
(*                                                                         *)
(* Every choice is one ledger transaction: it happens whole or not at all. *)
(* The operator may exercise any choice at any time, on any active         *)
(* contract: nothing in an intent names the Holding, the Hold, the         *)
(* AssetRules or the OperationTrace it will be used with.  All choices of  *)
(* the other contracts stay available in between.                          *)
(*                                                                         *)
(* Abstracted: the identifiers an OperationTrace merely records (so        *)
(* LinkUpdate and IncrementRetry, which change nothing a choice reads, are *)
(* left out), MarkReconciled (it needs a status no choice sets), failure   *)
(* reasons (non-empty), metas and version tags.                            *)
(***************************************************************************)
EXTENDS HoldingLedger

CONSTANTS
  IssueId,         \* IssueIntent contracts
  RedeemId,        \* RedeemIntent contracts
  TransferId,      \* TransferIntent contracts
  Terms,           \* what each of them was created with
  TraceCid,        \* OperationTrace contracts
  RulesCid         \* AssetRules contracts

IntentId == IssueId \cup RedeemId \cup TransferId

\* A holdingRef is a record with these fields.
TenantOf(r)  == r.tenant
AccountOf(r) == r.account
AssetOf(r)   == [tenant |-> r.tenant, asset |-> r.asset]

Accounts == {AccountOf(r) : r \in Ref}

AssetRefs == {AssetOf(r) : r \in Ref}

AssetIds == {a.asset : a \in AssetRefs}

\* The ensure clauses of the three templates.
ASSUME IntentAssumption ==
  /\ IsFiniteSet(Ref)
  /\ IssueId \cap RedeemId = {}
  /\ (IssueId \cup RedeemId) \cap TransferId = {}
  /\ Terms \in [IntentId ->
       [from : Accounts \cup {None}, to : Accounts \cup {None},
        asset : AssetIds, amount : Amount, expiresAt : Time \cup {None}]]
  /\ \A i \in TransferId : Terms[i].from # Terms[i].to

VARIABLES
  status,          \* IntentId -> IntentStatus
  trace,           \* TraceCid -> OperationStatus
  rules,           \* RulesCid -> the AssetRules
  moved,           \* history: how often the intent has moved units
  submitters       \* history: the intents confirmed with each trace

intentVars == <<status, moved, submitters>>

pillarVars == <<ledgerVars, intentVars, trace, rules>>

IntentStatus ==
  {"RequiresAction", "Processing", "Succeeded", "Failed", "Canceled", "Expired"}

OperationStatus ==
  {"Received", "Submitted", "LedgerCommitted", "Projected", "Failed"}

RulesRecord ==
  [asset : AssetRefs, status : {"Active", "Suspended"}, transferEnabled : BOOLEAN]

\* An archived AssetRules contract can never be fetched again.
NoRules == [asset |-> None, status |-> None, transferEnabled |-> FALSE]

\* In particular, no intent makes an amount or a lock negative.
PillarTypeOK ==
  /\ LedgerTypeOK
  /\ status \in [IntentId -> IntentStatus]
  /\ trace \in [TraceCid -> OperationStatus]
  /\ rules \in [RulesCid -> RulesRecord \cup {NoRules}]
  /\ moved \in [IntentId -> Nat]
  /\ submitters \in [TraceCid -> SUBSET IntentId]

-----------------------------------------------------------------------------
(* OperationTrace.  Only RecordSubmitted looks at the status it finds.     *)

\* Faulty: records any submission.
RecordSubmittedAgain(t) == trace' = [trace EXCEPT ![t] = "Submitted"]

RecordSubmitted(t) ==
  /\ trace[t] = "Received"
  /\ trace' = [trace EXCEPT ![t] = "Submitted"]

RecordCompleted(t) == trace' = [trace EXCEPT ![t] = "LedgerCommitted"]

RecordFailed(t) == trace' = [trace EXCEPT ![t] = "Failed"]

MarkProjected(t) == trace' = [trace EXCEPT ![t] = "Projected"]

\* The operator exercises a trace's choice outside any intent.  LinkUpdate, and
\* IncrementRetry of a trace that may be retried, change nothing of this; MarkReconciled
\* wants a status, Unknown, that no choice gives.
TraceChoice(t) ==
  /\ \/ RecordSubmitted(t)
     \/ RecordCompleted(t)
     \/ RecordFailed(t)
     \/ MarkProjected(t)
  /\ UNCHANGED <<ledgerVars, intentVars, rules>>

-----------------------------------------------------------------------------
(* AssetRules.                                                             *)

ActiveRules(k) == rules[k] # NoRules

UpdateRules(k) ==
  /\ ActiveRules(k)
  /\ \E enabled \in BOOLEAN :
       rules' = [rules EXCEPT ![k].transferEnabled = enabled]

SuspendAsset(k) ==
  /\ ActiveRules(k)
  /\ rules[k].status = "Active"
  /\ rules' = [rules EXCEPT ![k].status = "Suspended"]

ReactivateAsset(k) ==
  /\ ActiveRules(k)
  /\ rules[k].status = "Suspended"
  /\ rules' = [rules EXCEPT ![k].status = "Active"]

ArchiveRules(k) ==
  /\ ActiveRules(k)
  /\ rules' = [rules EXCEPT ![k] = NoRules]

RulesChoice(k) ==
  /\ \/ UpdateRules(k)
     \/ SuspendAsset(k)
     \/ ReactivateAsset(k)
     \/ ArchiveRules(k)
  /\ UNCHANGED <<ledgerVars, intentVars, trace>>

-----------------------------------------------------------------------------
(* What the choices of the three intents share.                            *)

\* Faulty: a repeated confirmation passes.
EnsureUnsettled(i) == status[i] \in {"RequiresAction", "Processing"}

EnsureRequiresAction(i) == status[i] = "RequiresAction"

\* Faulty: success needs no confirmation.
EnsureOpen(i) == status[i] \in {"RequiresAction", "Processing"}

\* Faulty: success after the deadline passed.
EnsureProcessingOrLate(i) == status[i] \in {"Processing", "Expired"}

EnsureProcessing(i) == status[i] = "Processing"

UpdateStatus(i, s) == status' = [status EXCEPT ![i] = s]

Moves(i) == moved' = [moved EXCEPT ![i] = @ + 1]

Submits(i, t) ==
  /\ RecordSubmitted(t)
  /\ submitters' = [submitters EXCEPT ![t] = @ \cup {i}]

\* The intent becomes Processing; no units move.
Confirm(i, t) ==
  /\ EnsureRequiresAction(i)
  /\ Submits(i, t)
  /\ UpdateStatus(i, "Processing")
  /\ UNCHANGED <<ledgerVars, rules, moved>>

\* The status is not looked at.
Cancel(i) ==
  /\ UpdateStatus(i, "Canceled")
  /\ UNCHANGED <<ledgerVars, trace, rules, moved, submitters>>

\* The status is not looked at.
Fail(i, t) ==
  /\ RecordFailed(t)
  /\ UpdateStatus(i, "Failed")
  /\ UNCHANGED <<ledgerVars, rules, moved, submitters>>

\* The caller supplies "now".
Expire(i, now) ==
  /\ EnsureProcessing(i)
  /\ Terms[i].expiresAt # None
  /\ now >= Terms[i].expiresAt
  /\ UpdateStatus(i, "Expired")
  /\ UNCHANGED <<ledgerVars, trace, rules, moved, submitters>>

\* The Holding c belongs to the account and asset an intent names.  The
\* tenant is not compared.
HoldingOf(c, account, asset) ==
  /\ Active(c)
  /\ holding[c].ref.account = account
  /\ holding[c].ref.asset = asset

-----------------------------------------------------------------------------
(* IssueIntent.                                                            *)

ConfirmIssue(i, t) == i \in IssueId /\ Confirm(i, t)

CancelIssue(i) == i \in IssueId /\ Cancel(i)

FailIssue(i, t) == i \in IssueId /\ Fail(i, t)

ExpireIssue(i, now) == i \in IssueId /\ Expire(i, now)

MarkIssueSucceeded(i, c, t) ==
  /\ i \in IssueId
  /\ EnsureProcessing(i)
  /\ HoldingOf(c, Terms[i].to, Terms[i].asset)
  /\ IncreaseAmount(c, Terms[i].amount)
  /\ MarkProjected(t)
  /\ UpdateStatus(i, "Succeeded")
  /\ Moves(i)
  /\ UNCHANGED <<rules, submitters>>

-----------------------------------------------------------------------------
(* RedeemIntent.                                                           *)

ConfirmRedeem(i, t) == i \in RedeemId /\ Confirm(i, t)

CancelRedeem(i) == i \in RedeemId /\ Cancel(i)

FailRedeem(i, t) == i \in RedeemId /\ Fail(i, t)

ExpireRedeem(i, now) == i \in RedeemId /\ Expire(i, now)

MarkRedeemSucceeded(i, c, h, t) ==
  /\ i \in RedeemId
  /\ EnsureProcessing(i)
  /\ HoldingOf(c, Terms[i].from, Terms[i].asset)
  /\ hold[h].amount = Terms[i].amount
  /\ ConsumeHold(c, h)
  /\ MarkProjected(t)
  /\ UpdateStatus(i, "Succeeded")
  /\ Moves(i)
  /\ UNCHANGED <<rules, submitters>>

-----------------------------------------------------------------------------
(* TransferIntent.                                                         *)

\* Faulty: tenants are not compared.
AnyTenant(c, d) == Active(c) /\ Active(d)

SameTenant(c, d) == TenantOf(holding[c].ref) = TenantOf(holding[d].ref)

\* The units move when the transfer is confirmed: the source's hold is
\* consumed and the destination increased in one transaction.
ConfirmTransfer(i, c, d, h, k, t) ==
  LET n == Terms[i].amount IN
  /\ i \in TransferId
  /\ EnsureRequiresAction(i)
  /\ HoldingOf(c, Terms[i].from, Terms[i].asset)
  /\ HoldingOf(d, Terms[i].to, Terms[i].asset)
  /\ SameTenant(c, d)
  /\ hold[h].amount = n
  /\ ActiveRules(k)
  /\ rules[k].asset = AssetOf(holding[c].ref)
  /\ rules[k].status = "Active" /\ rules[k].transferEnabled
  /\ HoldMatches(c, h)
  /\ holding[d].amount + n <= MaxAmount
  /\ Archive(h)
  /\ holding' = Increased(Consumed(c, h), d, n)
  /\ supply' = [supply EXCEPT ![holding[c].ref] = @ - n, ![holding[d].ref] = @ + n]
  /\ Submits(i, t)
  /\ UpdateStatus(i, "Processing")
  /\ Moves(i)
  /\ UNCHANGED rules

CancelTransfer(i) == i \in TransferId /\ Cancel(i)

\* Neither the status nor whose hold it is are looked at.
FailTransfer(i, c, h, t) ==
  /\ i \in TransferId
  /\ ReleaseHold(c, h)
  /\ RecordFailed(t)
  /\ UpdateStatus(i, "Failed")
  /\ UNCHANGED <<rules, moved, submitters>>

MarkTransferSucceeded(i, t) ==
  /\ i \in TransferId
  /\ EnsureProcessing(i)
  /\ RecordCompleted(t)
  /\ UpdateStatus(i, "Succeeded")
  /\ UNCHANGED <<ledgerVars, rules, moved, submitters>>

ExpireTransfer(i, now) == i \in TransferId /\ Expire(i, now)

-----------------------------------------------------------------------------
IssueNext ==
  \E i \in IssueId :
    \/ CancelIssue(i)
    \/ \E now \in Time : ExpireIssue(i, now)
    \/ \E t \in TraceCid :
         \/ ConfirmIssue(i, t)
         \/ FailIssue(i, t)
         \/ \E c \in HoldingCid : MarkIssueSucceeded(i, c, t)

RedeemNext ==
  \E i \in RedeemId :
    \/ CancelRedeem(i)
    \/ \E now \in Time : ExpireRedeem(i, now)
    \/ \E t \in TraceCid :
         \/ ConfirmRedeem(i, t)
         \/ FailRedeem(i, t)
         \/ \E c \in HoldingCid, h \in HoldCid : MarkRedeemSucceeded(i, c, h, t)

TransferNext ==
  \E i \in TransferId :
    \/ CancelTransfer(i)
    \/ \E now \in Time : ExpireTransfer(i, now)
    \/ \E t \in TraceCid :
         \/ MarkTransferSucceeded(i, t)
         \/ \E c \in HoldingCid, h \in HoldCid : FailTransfer(i, c, h, t)
         \/ \E c, d \in HoldingCid, h \in HoldCid, k \in RulesCid :
              ConfirmTransfer(i, c, d, h, k, t)

PillarInit ==
  /\ LedgerInit
  /\ status = [i \in IntentId |-> "RequiresAction"]
  /\ trace = [t \in TraceCid |-> "Received"]
  /\ rules \in [RulesCid -> RulesRecord]
  /\ moved = [i \in IntentId |-> 0]
  /\ submitters = [t \in TraceCid |-> {}]

PillarNext ==
  \/ IssueNext
  \/ RedeemNext
  \/ TransferNext
  \/ \E t \in TraceCid : TraceChoice(t)
  \/ \E k \in RulesCid : RulesChoice(k)
  \/ LedgerNext /\ UNCHANGED <<intentVars, trace, rules>>

PillarSpec == PillarInit /\ [][PillarNext]_pillarVars

-----------------------------------------------------------------------------
\* However the intent's choices are repeated, retried or mixed, it moves its
\* units at most once (ConfirmTransfer, MarkIssueSucceeded, MarkRedeemSucceeded),
\* and exactly once if it reports success, although a transfer moves them at
\* confirmation and reports success in a later transaction.
MovedOnce ==
  \A i \in IntentId :
    /\ moved[i] <= 1
    /\ status[i] = "Succeeded" => moved[i] = 1

\* An OperationTrace, whose contract no intent names, is the record of at
\* most one submission: no two intents are ever confirmed with the same one,
\* whatever other choices reset its status in between.
OneSubmissionPerTrace == \A t \in TraceCid : Cardinality(submitters[t]) <= 1

\* Nothing moves units for an intent that was failed, canceled or expired.
ClosedNeverMoves ==
  [][\A i \in IntentId :
       status[i] \in {"Failed", "Canceled", "Expired"} => moved'[i] = moved[i]]_pillarVars

\* All a tenant's accounts hold of one asset.
InCirculation(a) ==
  Total([r \in Ref |-> IF AssetOf(r) = a THEN TotalAmount(r) ELSE 0], Ref)

\* No choice of a transfer makes, loses or moves between tenants any unit:
\* what each tenant has of each asset stays as it was.
TransferConserves ==
  [][(\E i \in TransferId : status'[i] # status[i] \/ moved'[i] # moved[i])
       => \A a \in AssetRefs : InCirculation(a)' = InCirculation(a)]_pillarVars

\* The state machine document's row for "canceled" ("canceled before final
\* transfer"), of CancelTransfer.
CanceledBeforeTransfer ==
  \A i \in TransferId : status[i] = "Canceled" => moved[i] = 0

=============================================================================
