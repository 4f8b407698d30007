------------------------------ MODULE StrongReads ------------------------------
(***************************************************************************)
(* GET /balances?consistency=wait_for_operation: the API looks the offset   *)
(* of the operation up through the cache, waits until a checkpoint of the   *)
(* balance projector has reached it, and lists the balances.  Every await   *)
(* of the handler ends a step.                                              *)
(*                                                                         *)
(* The ledger and the projector, which writes the balances of a tenant and  *)
(* their checkpoint in one transaction, are external; a tenant's balances   *)
(* are the offset they are projected up to.  The row of a checkpoint holds  *)
(* the projector's lease as well, and no offset before the first projection. *)
(* Clocks are left out: a cached projection may expire, and a wait may time *)
(* out, at any moment.                                                      *)
(***************************************************************************)
EXTENDS Naturals

CONSTANTS
  Tenant,
  Operation,
  OwnerOf,       \* Operation -> the tenant it belongs to
  Reader,
  MaxOffset,     \* bound: the end of the ledger
  AssumedOffset, \* of a checkpoint without one; 10 in the code
  NoTenant,
  NoOperation

ASSUME ReadsAssumption ==
  /\ OwnerOf \in [Operation -> Tenant] /\ NoTenant \notin Tenant /\ NoOperation \notin Operation
  /\ MaxOffset \in Nat /\ AssumedOffset \in Nat

VARIABLES
  ledgerEnd,
  commitOffset,  \* where the ledger holds each operation, 0 if it does not
  recorded,      \* operations whose row has its ledger_offset
  projected,     \* the offset a tenant's balances and checkpoint are at, 0 for none
  lastWritten,   \* the tenant whose checkpoint row was updated last
  cached,        \* operations with a cached projection
  cachedOffset,  \* and the offset in it, 0 for null
  request

readsVars == <<ledgerEnd, commitOffset, recorded, projected, lastWritten, cached,
               cachedOffset, request>>

worldVars == <<ledgerEnd, commitOffset, recorded, projected, lastWritten>>

cacheVars == <<cached, cachedOffset>>

Offset == 0..MaxOffset

\* outdated: the target came from the cache, older than the row was when asked;
\* foreign: the checkpoint that ended the wait was another tenant's; assumed: it had
\* no offset; shows: the offset the balances that were returned are at.
NoRequest == [at |-> "idle", op |-> NoOperation, target |-> 0, known |-> FALSE,
              outdated |-> FALSE, foreign |-> FALSE, assumed |-> FALSE, shows |-> 0]

ReadsTypeOK ==
  /\ ledgerEnd \in Offset
  /\ commitOffset \in [Operation -> Offset]
  /\ recorded \subseteq Operation
  /\ projected \in [Tenant -> Offset]
  /\ lastWritten \in Tenant \cup {NoTenant}
  /\ cached \subseteq Operation /\ cachedOffset \in [Operation -> Offset]
  /\ request \in [Reader ->
       [at : {"idle", "cache", "load", "fill", "checkpoint", "sleep", "list", "done"},
        op : Operation \cup {NoOperation}, target : Offset, known : BOOLEAN,
        outdated : BOOLEAN, foreign : BOOLEAN, assumed : BOOLEAN, shows : Offset]]
  /\ \A o \in cached : cachedOffset[o] \in {0, commitOffset[o]}

-----------------------------------------------------------------------------
(* The ledger, the completion of a command and the projector.              *)

CommitOperation(o) ==
  /\ commitOffset[o] = 0 /\ ledgerEnd < MaxOffset
  /\ ledgerEnd' = ledgerEnd + 1
  /\ commitOffset' = [commitOffset EXCEPT ![o] = ledgerEnd + 1]
  /\ UNCHANGED <<recorded, projected, lastWritten, cacheVars, request>>

\* A transaction of something else.
CommitOther ==
  /\ ledgerEnd < MaxOffset
  /\ ledgerEnd' = ledgerEnd + 1
  /\ UNCHANGED <<commitOffset, recorded, projected, lastWritten, cacheVars, request>>

\* OperationTraceWriter: the row gets its ledger_offset.  The cache keeps what it
\* has: nothing subscribes to the channel of Invalidation.ts.
RecordOperation(o) ==
  /\ commitOffset[o] # 0 /\ o \notin recorded
  /\ recorded' = recorded \cup {o}
  /\ UNCHANGED <<ledgerEnd, commitOffset, projected, lastWritten, cacheVars, request>>

ProjectBalances(t) ==
  /\ \E n \in (projected[t] + 1)..ledgerEnd : projected' = [projected EXCEPT ![t] = n]
  /\ lastWritten' = t
  /\ UNCHANGED <<ledgerEnd, commitOffset, recorded, cacheVars, request>>

\* A projector takes or renews its lease of the tenant: the row is updated.
LeaseCheckpoint(t) ==
  /\ lastWritten' = t
  /\ UNCHANGED <<ledgerEnd, commitOffset, recorded, projected, cacheVars, request>>

ExpireCached(o) ==
  /\ o \in cached
  /\ cached' = cached \ {o} /\ cachedOffset' = [cachedOffset EXCEPT ![o] = 0]
  /\ UNCHANGED <<worldVars, request>>

-----------------------------------------------------------------------------
(* The handler of a request r.                                             *)

RowOffset(o) == IF o \in recorded THEN commitOffset[o] ELSE 0

Step(r, from, q) ==
  /\ request[r].at = from
  /\ request' = [request EXCEPT ![r] = q]
  /\ UNCHANGED worldVars

AskBalances(r, o) ==
  /\ Step(r, "idle", [NoRequest EXCEPT !.at = "cache", !.op = o, !.known = (o \in recorded)])
  /\ UNCHANGED cacheVars

\* A get that fails is a miss.
ReadCache(r) ==
  LET q == request[r] IN
  /\ \/ /\ q.op \in cached
        /\ Step(r, "cache", [q EXCEPT !.at = "checkpoint", !.target = cachedOffset[q.op],
                                      !.outdated = q.known /\ cachedOffset[q.op] = 0])
     \/ Step(r, "cache", [q EXCEPT !.at = "load"])
  /\ UNCHANGED cacheVars

LoadOperation(r) ==
  /\ Step(r, "load", [request[r] EXCEPT !.at = "fill", !.target = RowOffset(request[r].op)])
  /\ UNCHANGED cacheVars

\* Whatever was put there meanwhile is overwritten; a set that fails is ignored.
FillCache(r) ==
  LET q == request[r] IN
  /\ Step(r, "fill", [q EXCEPT !.at = "checkpoint"])
  /\ \/ /\ cached' = cached \cup {q.op}
        /\ cachedOffset' = [cachedOffset EXCEPT ![q.op] = q.target]
     \/ UNCHANGED cacheVars

\* checkpointForProjector: the row updated last, of all tenants, if there is one.
WithoutOffset == lastWritten # NoTenant /\ projected[lastWritten] = 0

AppliedOffset ==
  IF lastWritten = NoTenant THEN 0
  ELSE IF WithoutOffset THEN AssumedOffset ELSE projected[lastWritten]

\* Faulty: one short of the target will do.
AlmostReached(target) == AppliedOffset + 1 >= target

\* A missing offset counts as 0: the wait ends at once.
Reached(target) == AppliedOffset >= target

ReadCheckpoint(r) ==
  LET q == request[r] IN
  /\ \/ /\ Reached(q.target)
        /\ Step(r, "checkpoint", [q EXCEPT !.at = "list",
                !.foreign = q.target # 0 /\ lastWritten # OwnerOf[q.op],
                !.assumed = q.target # 0 /\ WithoutOffset])
     \/ /\ ~Reached(q.target)
        /\ Step(r, "checkpoint", [q EXCEPT !.at = "sleep"])
  /\ UNCHANGED cacheVars

TryAgain(r) ==
  /\ Step(r, "sleep", [request[r] EXCEPT !.at = "checkpoint"])
  /\ UNCHANGED cacheVars

\* The answer is 202, balance_pending.
TimeOut(r) ==
  /\ Step(r, "sleep", NoRequest)
  /\ UNCHANGED cacheVars

ListBalances(r) ==
  LET q == request[r] IN
  /\ Step(r, "list", [q EXCEPT !.at = "done", !.shows = projected[OwnerOf[q.op]]])
  /\ UNCHANGED cacheVars

AnswerRead(r) ==
  /\ Step(r, "done", NoRequest)
  /\ UNCHANGED cacheVars

-----------------------------------------------------------------------------
ReadsInit ==
  /\ ledgerEnd = 0
  /\ commitOffset = [o \in Operation |-> 0]
  /\ recorded = {}
  /\ projected = [t \in Tenant |-> 0]
  /\ lastWritten = NoTenant
  /\ cached = {} /\ cachedOffset = [o \in Operation |-> 0]
  /\ request = [r \in Reader |-> NoRequest]

HandleRead(r) ==
  \/ ReadCache(r) \/ LoadOperation(r) \/ FillCache(r) \/ ReadCheckpoint(r)
  \/ TryAgain(r) \/ TimeOut(r) \/ ListBalances(r) \/ AnswerRead(r)

ReadsNext ==
  \/ CommitOther
  \/ \E o \in Operation : CommitOperation(o) \/ RecordOperation(o) \/ ExpireCached(o)
  \/ \E t \in Tenant : ProjectBalances(t) \/ LeaseCheckpoint(t)
  \/ \E r \in Reader : HandleRead(r) \/ \E o \in Operation : AskBalances(r, o)

-----------------------------------------------------------------------------
\* The balances returned for an operation whose offset had been recorded before
\* they were asked for include it, unless the projection of the operation came
\* from the cache as it was before, or the checkpoint that ended the wait was
\* that of another tenant or had no offset, which counts as one.  No race of expiry,
\* load, fill, lease and projection is a fourth way.
StrongReadIsStrong ==
  \A r \in Reader :
    LET q == request[r] IN
    q.at = "done" /\ q.known =>
      q.shows >= commitOffset[q.op] \/ q.outdated \/ q.foreign \/ q.assumed

=============================================================================
